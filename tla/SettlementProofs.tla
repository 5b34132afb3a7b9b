--------------------------- MODULE SettlementProofs ---------------------------
(***************************************************************************)
(* Proofs about the wallet, the queue of unrecorded transfers and the      *)
(* record, for every set of users, transfers and flushes, every balance    *)
(* and every combination of faults.                                        *)
(***************************************************************************)
EXTENDS Settlement, FiniteSetTheorems, TLAPS

-----------------------------------------------------------------------------
(***************************************************************************)
(* Sequences in which nothing is repeated.                                 *)
(***************************************************************************)
once(s) == \A i, j \in DOMAIN s : s[i] = s[j] => i = j

LEMMA AppendContains ==
  ASSUME NEW S, NEW s \in Seq(S), NEW e \in S
  PROVE  /\ Append(s, e) \in Seq(S)
         /\ \A x : Contains(Append(s, e), x) <=> (Contains(s, x) \/ x = e)
         /\ once(s) /\ ~Contains(s, e) => once(Append(s, e))
  <1>1. /\ Append(s, e) \in Seq(S) /\ Len(Append(s, e)) = Len(s) + 1 /\ Len(s) \in Nat
        /\ \A i \in 1 .. Len(s) : Append(s, e)[i] = s[i]
        /\ Append(s, e)[Len(s) + 1] = e
        /\ DOMAIN s = 1 .. Len(s) /\ DOMAIN Append(s, e) = 1 .. (Len(s) + 1)
    OBVIOUS
  <1>2. QED
    BY <1>1 DEF Contains, once

LEMMA RemoveFirstContains ==
  ASSUME NEW S, NEW s \in Seq(S), NEW e, once(s)
  PROVE  /\ RemoveFirst(s, e) \in Seq(S)
         /\ once(RemoveFirst(s, e))
         /\ \A x : Contains(RemoveFirst(s, e), x) <=> (Contains(s, x) /\ x # e)
  <1>1. CASE ~Contains(s, e)
    BY <1>1 DEF RemoveFirst, Contains
  <1>2. CASE Contains(s, e)
    <2>1. PICK k \in 1 .. Len(s) : s[k] = e
      BY <1>2 DEF Contains
    <2>2. {i \in 1 .. Len(s) : s[i] = e} = {k}
      BY <2>1 DEF once
    <2>3. SelectInSeq(s, LAMBDA v : v = e) = k
      BY <2>2 DEF SelectInSeq, Min
    <2>4. RemoveFirst(s, e) = RemoveAt(s, k)
      BY <2>1, <2>3 DEF RemoveFirst
    <2> DEFINE r == RemoveAt(s, k)
               front == SubSeq(s, 1, k - 1)
               back == SubSeq(s, k + 1, Len(s))
    <2>5. /\ front \in Seq(S) /\ Len(front) = k - 1 /\ \A i \in 1 .. (k - 1) : front[i] = s[i]
          /\ back \in Seq(S) /\ Len(back) = Len(s) - k
          /\ \A i \in 1 .. (Len(s) - k) : back[i] = s[k + i]
          /\ Len(s) \in Nat /\ DOMAIN s = 1 .. Len(s)
      BY <2>1
    <2> HIDE DEF front, back
    <2>6. r = front \o back
      BY DEF RemoveAt, front, back
    <2> HIDE DEF r
    <2>7. /\ r \in Seq(S) /\ Len(r) = Len(s) - 1 /\ DOMAIN r = 1 .. (Len(s) - 1)
      BY <2>1, <2>5, <2>6
    <2>8. \A i \in 1 .. (Len(s) - 1) : r[i] = IF i < k THEN s[i] ELSE s[i + 1]
      <3>1. ASSUME NEW i \in 1 .. (Len(s) - 1), i < k PROVE r[i] = s[i]
        BY <2>1, <2>5, <2>6, <3>1
      <3>2. ASSUME NEW i \in 1 .. (Len(s) - 1), i >= k PROVE r[i] = s[i + 1]
        <4>1. r[i] = back[i - (k - 1)] /\ i - (k - 1) \in 1 .. (Len(s) - k)
          BY <2>1, <2>5, <2>6, <3>2
        <4>2. k + (i - (k - 1)) = i + 1
          BY <2>1, <2>5, <3>2
        <4>3. QED
          BY <2>5, <4>1, <4>2
      <3>3. QED
        BY <2>1, <2>5, <3>1, <3>2
    <2>9. once(r)
      <3> SUFFICES ASSUME NEW i \in 1 .. (Len(s) - 1), NEW j \in 1 .. (Len(s) - 1), r[i] = r[j]
                   PROVE  i = j
        BY <2>7 DEF once
      <3> DEFINE in(n) == IF n < k THEN n ELSE n + 1
      <3>1. s[in(i)] = s[in(j)] /\ in(i) \in 1 .. Len(s) /\ in(j) \in 1 .. Len(s)
        BY <2>1, <2>5, <2>8
      <3>2. in(i) = in(j)
        BY <2>5, <3>1 DEF once
      <3>3. QED
        BY <2>1, <3>2
    <2>10. ASSUME NEW x PROVE Contains(r, x) <=> (Contains(s, x) /\ x # e)
      <3>1. ASSUME NEW i \in 1 .. Len(r), r[i] = x PROVE Contains(s, x) /\ x # e
        <4> DEFINE n == IF i < k THEN i ELSE i + 1
        <4>1. n \in 1 .. Len(s) /\ n # k /\ s[n] = x
          BY <2>1, <2>5, <2>7, <2>8, <3>1
        <4>2. QED
          BY <2>1, <2>5, <4>1 DEF Contains, once
      <3>2. ASSUME NEW n \in 1 .. Len(s), s[n] = x, x # e PROVE Contains(r, x)
        <4> DEFINE i == IF n < k THEN n ELSE n - 1
        <4>1. i \in 1 .. Len(r) /\ r[i] = x
          BY <2>1, <2>5, <2>7, <2>8, <3>2
        <4>2. QED
          BY <4>1 DEF Contains
      <3>3. QED
        BY <3>1, <3>2 DEF Contains
    <2>11. QED
      BY <2>4, <2>7, <2>9, <2>10 DEF r
  <1>3. QED
    BY <1>1, <1>2

-----------------------------------------------------------------------------
(***************************************************************************)
(* The types of the variables the record rests on.                         *)
(***************************************************************************)
Stages == {"none", "checking", "approving", "writing", "refused", "mined", "lost"} \cup queued

Jobs == [pc : Stages, attempt : Nat]

Asked == [stage : {"sent", "reading"}, transfer : Transfers, user : Users \cup {Nobody}]
Told == [stage : {"answered"}, transfer : Transfers, answer : Answers]
Requests == {NoRequest} \cup Asked \cup Told

QueueTyped == queue \in Seq(Transfers) /\ once(queue)
FlushTyped == flush \in [Flushes -> Seq(Transfers)]
RequestTyped == request \in [Senders -> Requests]
RecordTyped == recorded \in Seq(Transfers) /\ once(recorded)
OrphansTyped == \A r \in orphans : r.transfer \in Transfers
JobTyped == job \in [Transfers -> Jobs] /\ signedIn \in Users \cup {Nobody}

Typed == QueueTyped /\ FlushTyped /\ RequestTyped /\ RecordTyped /\ OrphansTyped /\ JobTyped

(***************************************************************************)
(* Whoever sends, sends its own: a transfer's call its transfer, a flush   *)
(* the entry it is at; and the answers that say so are given for what is   *)
(* on file.                                                                *)
(***************************************************************************)
SendsItsOwn ==
  /\ \A t \in Transfers : request[t].stage # "none" => request[t].transfer = t
  /\ \A f \in Flushes : request[f].stage # "none" =>
                          flush[f] # <<>> /\ request[f].transfer = Head(flush[f])

AnswersAreTrue ==
  \A x \in Senders :
    request[x].stage = "answered" /\ request[x].answer \in {"ok", "409"}
      => isRecorded(request[x].transfer)

RecordInv ==
  /\ Typed /\ SendsItsOwn /\ AnswersAreTrue
  /\ \A t \in Transfers : job[t].pc = "recorded" => isRecorded(t)

-----------------------------------------------------------------------------
\* A job that goes from one stage to another.
LEMMA JobGoes ==
  ASSUME JobTyped, NEW t \in Transfers, NEW pc \in Stages, goes(t, pc)
  PROVE  /\ job' \in [Transfers -> Jobs] /\ job'[t].pc = pc
         /\ \A o \in Transfers : o # t => job'[o] = job[o]
  <1>1. job \in [Transfers -> Jobs] /\ job' = [job EXCEPT ![t] = [job[t] EXCEPT !.pc = pc]]
    BY DEF JobTyped, goes
  <1>2. [job[t] EXCEPT !.pc = pc] \in Jobs /\ [job[t] EXCEPT !.pc = pc].pc = pc
    BY <1>1 DEF Jobs
  <1>3. QED
    BY <1>1, <1>2

\* The wallet moves one job, never to or from what has to do with the record.
LEMMA WalletMovesOneJob ==
  ASSUME JobTyped, WalletStep
  PROVE  /\ JobTyped'
         /\ \A t \in Transfers :
              job'[t].pc = job[t].pc \/ (job[t].pc \notin queued /\ job'[t].pc \notin queued)
  <1> DEFINE kept == \A t \in Transfers :
                 job'[t].pc = job[t].pc \/ (job[t].pc \notin queued /\ job'[t].pc \notin queued)
  <1>1. signedIn' = signedIn
    BY DEF WalletStep, Submit, ready, assertUsdc, Approve, Transfer, Refused, Faucet
  <1>2. ASSUME NEW t \in Transfers, NEW pc \in Stages \ queued, goes(t, pc), job[t].pc \notin queued
        PROVE  job' \in [Transfers -> Jobs] /\ kept
    BY <1>2, JobGoes
  <1>3. ASSUME NEW t \in Transfers, Submit(t) PROVE job' \in [Transfers -> Jobs] /\ kept
    BY <1>2, <1>3 DEF Submit, ready, Stages, queued
  <1>4. ASSUME NEW t \in Transfers, assertUsdc(t) PROVE job' \in [Transfers -> Jobs] /\ kept
    BY <1>2, <1>4 DEF assertUsdc, Stages, queued
  <1>5. ASSUME NEW t \in Transfers, Approve(t) PROVE job' \in [Transfers -> Jobs] /\ kept
    BY <1>2, <1>5 DEF Approve, unheard, Stages, queued
  <1>6. ASSUME NEW t \in Transfers, Transfer(t) PROVE job' \in [Transfers -> Jobs] /\ kept
    BY <1>2, <1>6 DEF Transfer, unheard, Stages, queued
  <1>7. ASSUME NEW t \in Transfers, Refused(t) PROVE job' \in [Transfers -> Jobs] /\ kept
    BY <1>2, <1>7 DEF Refused, inFlight, Stages, queued
  <1>8. ASSUME NEW u \in Users, Faucet(u) PROVE job' \in [Transfers -> Jobs] /\ kept
    BY <1>8 DEF Faucet, JobTyped
  <1>9. job' \in [Transfers -> Jobs] /\ kept
    BY <1>3, <1>4, <1>5, <1>6, <1>7, <1>8 DEF WalletStep
  <1>10. QED
    BY <1>1, <1>9 DEF JobTyped

\* What is written to the record is on it from then on, once.
LEMMA ApplyRecords ==
  ASSUME RecordTyped, NEW t \in Transfers, applyTransfer(t)
  PROVE  /\ RecordTyped' /\ isRecorded(t)'
         /\ \A o \in Transfers : isRecorded(o) => isRecorded(o)'
  <1>1. CASE alreadyRecorded(t)
    BY <1>1 DEF applyTransfer, alreadyRecorded, backend, RecordTyped, isRecorded
  <1>2. CASE ~alreadyRecorded(t)
    <2>1. recorded' = Append(recorded, t)
      BY <1>2 DEF applyTransfer
    <2>2. QED
      BY <1>2, <2>1, AppendContains DEF RecordTyped, isRecorded, alreadyRecorded
  <1>3. QED
    BY <1>1, <1>2

RecordGrows ==
  RecordTyped' /\ \A t \in Transfers : isRecorded(t) => isRecorded(t)'

\* One sender's request moves; the others, and what they have left, stay.
LEMMA OneRequestMoves ==
  ASSUME RecordInv, RecordGrows, NEW x \in Senders, NEW new \in Requests,
         request' = [request EXCEPT ![x] = new],
         \A f \in Flushes : f # x => flush'[f] = flush[f],
         x \in Transfers /\ new.stage # "none" => new.transfer = x,
         x \in Flushes /\ new.stage # "none" =>
           flush'[x] # <<>> /\ new.transfer = Head(flush'[x]),
         new.stage = "answered" /\ new.answer \in {"ok", "409"} => Contains(recorded', new.transfer)
  PROVE  RequestTyped' /\ SendsItsOwn' /\ AnswersAreTrue'
  <1>1. request \in [Senders -> Requests]
    BY DEF RecordInv, Typed, RequestTyped
  <1>2. /\ request' \in [Senders -> Requests] /\ request'[x] = new
        /\ \A y \in Senders : y # x => request'[y] = request[y]
    BY <1>1
  <1>3. SendsItsOwn'
    <2>1. \A t \in Transfers : request'[t].stage # "none" => request'[t].transfer = t
      BY <1>2 DEF RecordInv, SendsItsOwn, Senders
    <2>2. \A f \in Flushes : request'[f].stage # "none" =>
                               flush'[f] # <<>> /\ request'[f].transfer = Head(flush'[f])
      BY <1>2 DEF RecordInv, SendsItsOwn, Senders
    <2>3. QED
      BY <2>1, <2>2 DEF SendsItsOwn
  <1>4. ASSUME NEW y \in Senders, request'[y].stage = "answered", request'[y].answer \in {"ok", "409"}
        PROVE  Contains(recorded', request'[y].transfer)
    <2>1. CASE y = x
      BY <1>2, <1>4, <2>1
    <2>2. CASE y # x
      <3>1. request'[y] = request[y]
        BY <1>2, <2>2
      <3>2. isRecorded(request[y].transfer)
        BY <1>4, <3>1 DEF RecordInv, AnswersAreTrue
      <3>3. request[y].transfer \in Transfers
        BY <1>1, <1>4, <3>1 DEF Requests, NoRequest, Asked, Told
      <3>4. QED
        BY <3>1, <3>2, <3>3 DEF RecordGrows, isRecorded
    <2>3. QED
      BY <2>1, <2>2
  <1>5. QED
    BY <1>2, <1>3, <1>4 DEF RequestTyped, AnswersAreTrue, isRecorded

\* The shape of a request that has been sent, and of one that was answered.
LEMMA RequestShapes ==
  ASSUME RecordInv, NEW x \in Senders
  PROVE  /\ request[x].stage \in {"sent", "reading"} => request[x] \in Asked
         /\ request[x].stage = "answered" => request[x] \in Told
         /\ request[x].stage # "none" => request[x].transfer \in Transfers
         /\ request[x].stage \in {"none", "sent", "reading", "answered"}
  BY DEF RecordInv, Typed, RequestTyped, Requests, NoRequest, Asked, Told

LEMMA SentIsAsked ==
  ASSUME RecordInv, NEW t \in Transfers
  PROVE  sent(t) \in Requests /\ sent(t).stage = "sent" /\ sent(t).transfer = t
  BY DEF sent, RecordInv, Typed, JobTyped, Requests, Asked

\* The answer to a request, whatever it is, once it is true.
LEMMA AnswerKeeps ==
  ASSUME RecordInv, RecordGrows, NEW x \in Senders, request[x].stage # "none",
         NEW answer \in Answers, request' = answered(x, answer), UNCHANGED flush,
         answer \in {"ok", "409"} => Contains(recorded', request[x].transfer)
  PROVE  RequestTyped' /\ SendsItsOwn' /\ AnswersAreTrue'
  <1> DEFINE new == [stage |-> "answered", transfer |-> request[x].transfer, answer |-> answer]
  <1>1. request' = [request EXCEPT ![x] = new]
    BY DEF answered
  <1>2. new \in Requests /\ new.stage = "answered" /\ new.answer = answer
        /\ new.transfer = request[x].transfer
    BY RequestShapes DEF Requests, Told
  <1>3. /\ x \in Transfers => new.transfer = x
        /\ x \in Flushes => flush'[x] # <<>> /\ new.transfer = Head(flush'[x])
    BY <1>2 DEF RecordInv, SendsItsOwn
  <1> HIDE DEF new
  <1>4. QED
    BY <1>1, <1>2, <1>3, OneRequestMoves

LEMMA NothingNewIsRecorded ==
  ASSUME RecordInv, UNCHANGED recorded
  PROVE  RecordGrows
  BY DEF RecordInv, Typed, RecordTyped, RecordGrows, isRecorded

ToldRecorded == \A t \in Transfers : job[t].pc = "recorded" => isRecorded(t)

-----------------------------------------------------------------------------
(***************************************************************************)
(* The senders' steps.                                                     *)
(***************************************************************************)

LEMMA QueueGrows ==
  ASSUME RecordInv, NEW t \in Transfers, queue' = enqueued(t)
  PROVE  /\ QueueTyped'
         /\ \A o \in Transfers : Contains(queue', o) <=> (Contains(queue, o) \/ o = t)
  BY AppendContains DEF RecordInv, Typed, QueueTyped, enqueued

LEMMA QueueShrinks ==
  ASSUME RecordInv, NEW t \in Transfers, queue' = without(t)
  PROVE  /\ QueueTyped'
         /\ \A o \in Transfers : Contains(queue', o) <=> (Contains(queue, o) /\ o # t)
  BY RemoveFirstContains DEF RecordInv, Typed, QueueTyped, without

LEMMA EnqueueKeeps ==
  ASSUME RecordInv, NEW t \in Transfers, Enqueue(t)
  PROVE  RecordInv'
  <1>1. RecordGrows
    BY NothingNewIsRecorded DEF Enqueue, backend
  <1>2. RequestTyped' /\ SendsItsOwn' /\ AnswersAreTrue'
    <2>1. request' = [request EXCEPT ![t] = sent(t)] /\ flush' = flush /\ t \in Senders
      BY DEF Enqueue, Senders
    <2>2. t \notin Flushes
      BY FlushesAssumption
    <2>3. QED
      BY <1>1, <2>1, <2>2, SentIsAsked, OneRequestMoves
  <1>3. QueueTyped'
    BY QueueGrows DEF Enqueue
  <1>4. /\ job' \in [Transfers -> Jobs] /\ job'[t].pc = "sending"
        /\ \A o \in Transfers : o # t => job'[o] = job[o]
    BY JobGoes DEF Enqueue, goes, RecordInv, Typed, Stages, queued
  <1>5. JobTyped' /\ FlushTyped' /\ OrphansTyped'
    BY <1>4 DEF Enqueue, page, RecordInv, Typed, JobTyped, FlushTyped, OrphansTyped
  <1>6. ToldRecorded'
    BY <1>1, <1>4 DEF RecordGrows, RecordInv, ToldRecorded
  <1>7. QED
    BY <1>1, <1>2, <1>3, <1>5, <1>6 DEF RecordInv, Typed, RecordGrows, ToldRecorded

\* What a transfer's call makes of its answer.
LEMMA AnsweredFacts ==
  ASSUME RecordInv, NEW t \in Transfers, Answered(t)
  PROVE  /\ job' \in [Transfers -> Jobs]
         /\ \A o \in Transfers : o # t => job'[o] = job[o]
         /\ job[t].pc = "sending" /\ job'[t].pc \in queued
         /\ request[t].stage = "answered" /\ request[t].transfer = t
         /\ job'[t].pc = "recorded" => isRecorded(t)
         /\ queue' = queue \/ (queue' = without(t) /\ (isRecorded(t) \/ request[t].answer = "403"))
  <1> DEFINE answer  == request[t].answer
             again   == answer = "unreachable" /\ mayRetry(t)
             end     == outcome(t, answer)
             new     == IF again THEN [pc |-> "waiting", attempt |-> job[t].attempt + 1]
                        ELSE [job[t] EXCEPT !.pc = end]
  <1>1. /\ job[t].pc = "sending" /\ request[t].stage = "answered" /\ t \in Senders
        /\ job' = [job EXCEPT ![t] = new]
        /\ queue' = IF end = "recorded" \/ finalRefusal(answer) THEN without(t) ELSE queue
    BY DEF Answered, Senders
  <1>2. request[t].transfer = t
    BY <1>1 DEF RecordInv, SendsItsOwn
  <1>3. job \in [Transfers -> Jobs]
    BY DEF RecordInv, Typed, JobTyped
  <1>4. end = "recorded" => isRecorded(t)
    BY <1>1, <1>2 DEF outcome, done, RecordInv, AnswersAreTrue
  <1>5. end \in queued /\ end \in Stages
    BY DEF outcome, queued, Stages
  <1>6. new \in Jobs /\ (again => new.pc = "waiting") /\ (~again => new.pc = end)
    <2> HIDE DEF end, again
    <2>1. job[t] \in Jobs
      BY <1>3
    <2>2. QED
      BY <1>5, <2>1 DEF Jobs, Stages, queued
  <1> HIDE DEF new, end, again
  <1>7. /\ job' \in [Transfers -> Jobs] /\ job'[t] = new
        /\ \A o \in Transfers : o # t => job'[o] = job[o]
    BY <1>1, <1>3, <1>6
  <1>8. job'[t].pc \in queued /\ (job'[t].pc = "recorded" => isRecorded(t))
    BY <1>4, <1>5, <1>6, <1>7 DEF queued
  <1>9. queue' = queue \/ (queue' = without(t) /\ (isRecorded(t) \/ request[t].answer = "403"))
    BY <1>1, <1>4 DEF finalRefusal
  <1>10. QED
    BY <1>1, <1>2, <1>7, <1>8, <1>9

LEMMA AnsweredKeeps ==
  ASSUME RecordInv, NEW t \in Transfers, Answered(t)
  PROVE  RecordInv'
  <1>1. RecordGrows
    BY NothingNewIsRecorded DEF Answered, backend
  <1>2. RequestTyped' /\ SendsItsOwn' /\ AnswersAreTrue'
    <2>1. request' = [request EXCEPT ![t] = NoRequest] /\ flush' = flush /\ t \in Senders
      BY DEF Answered, Senders
    <2>2. NoRequest \in Requests /\ NoRequest.stage = "none"
      BY DEF Requests, NoRequest
    <2>3. QED
      BY <1>1, <2>1, <2>2, OneRequestMoves
  <1>3. QueueTyped'
    <2>1. queue' = queue \/ queue' = without(t)
      BY AnsweredFacts
    <2>2. QED
      BY <2>1, QueueShrinks DEF RecordInv, Typed, QueueTyped
  <1>4. JobTyped' /\ FlushTyped' /\ OrphansTyped'
    BY AnsweredFacts DEF Answered, page, RecordInv, Typed, JobTyped, FlushTyped, OrphansTyped
  <1>5. ToldRecorded'
    BY <1>1, AnsweredFacts DEF RecordGrows, RecordInv, ToldRecorded
  <1>6. QED
    BY <1>1, <1>2, <1>3, <1>4, <1>5 DEF RecordInv, Typed, RecordGrows, ToldRecorded

LEMMA RetryKeeps ==
  ASSUME RecordInv, NEW t \in Transfers, Retry(t)
  PROVE  RecordInv'
  <1>1. RecordGrows
    BY NothingNewIsRecorded DEF Retry, backend
  <1>2. RequestTyped' /\ SendsItsOwn' /\ AnswersAreTrue'
    <2>1. request' = [request EXCEPT ![t] = sent(t)] /\ flush' = flush /\ t \in Senders
      BY DEF Retry, Senders
    <2>2. t \notin Flushes
      BY FlushesAssumption
    <2>3. QED
      BY <1>1, <2>1, <2>2, SentIsAsked, OneRequestMoves
  <1>3. /\ job' \in [Transfers -> Jobs] /\ job'[t].pc = "sending"
        /\ \A o \in Transfers : o # t => job'[o] = job[o]
    BY JobGoes DEF Retry, goes, RecordInv, Typed, Stages, queued
  <1>4. JobTyped' /\ FlushTyped' /\ OrphansTyped' /\ QueueTyped'
    BY <1>3 DEF Retry, page, RecordInv, Typed, JobTyped, FlushTyped, OrphansTyped, QueueTyped
  <1>5. ToldRecorded'
    BY <1>1, <1>3 DEF RecordGrows, RecordInv, ToldRecorded
  <1>6. QED
    BY <1>1, <1>2, <1>4, <1>5 DEF RecordInv, Typed, RecordGrows, ToldRecorded

\* A flush goes on with the first of what is left.
LEMMA SendNextKeeps ==
  ASSUME RecordInv, NEW f \in Flushes, NEW left \in Seq(Transfers), sendNext(f, left),
         UNCHANGED recorded
  PROVE  RequestTyped' /\ SendsItsOwn' /\ AnswersAreTrue' /\ FlushTyped'
  <1> DEFINE new == IF left = <<>> THEN NoRequest ELSE sent(Head(left))
  <1>1. /\ request' = [request EXCEPT ![f] = new] /\ flush' = [flush EXCEPT ![f] = left]
        /\ f \in Senders /\ f \notin Transfers
    BY FlushesAssumption DEF sendNext, Senders
  <1>2. flush' \in [Flushes -> Seq(Transfers)] /\ flush'[f] = left
        /\ \A g \in Flushes : g # f => flush'[g] = flush[g]
    BY <1>1 DEF RecordInv, Typed, FlushTyped
  <1>3. left # <<>> => Head(left) \in Transfers
    OBVIOUS
  <1>4. /\ new \in Requests /\ (left = <<>> => new.stage = "none")
        /\ left # <<>> => new.stage = "sent" /\ new.transfer = Head(left)
    BY <1>3, SentIsAsked DEF Requests, NoRequest
  <1> HIDE DEF new
  <1>5. RecordGrows
    BY NothingNewIsRecorded
  <1>6. new.stage # "answered"
    BY <1>4
  <1>7. new.stage # "none" => flush'[f] # <<>> /\ new.transfer = Head(flush'[f])
    BY <1>2, <1>4
  <1>8. RequestTyped' /\ SendsItsOwn' /\ AnswersAreTrue'
    BY <1>1, <1>2, <1>4, <1>5, <1>6, <1>7, OneRequestMoves
  <1>9. QED
    BY <1>2, <1>8 DEF FlushTyped

LEMMA StartFlushKeeps ==
  ASSUME RecordInv, NEW f \in Flushes, StartFlush(f)
  PROVE  RecordInv'
  <1>1. RequestTyped' /\ SendsItsOwn' /\ AnswersAreTrue' /\ FlushTyped'
    BY SendNextKeeps DEF StartFlush, backend, RecordInv, Typed, QueueTyped
  <1>2. RecordTyped' /\ QueueTyped' /\ OrphansTyped' /\ JobTyped' /\ ToldRecorded'
    BY DEF StartFlush, backend, page, RecordInv, Typed, QueueTyped, RecordTyped, OrphansTyped,
           JobTyped, ToldRecorded, isRecorded
  <1>3. QED
    BY <1>1, <1>2 DEF RecordInv, Typed, ToldRecorded

\* What a flush makes of the answer to the entry it was at.
LEMMA ReplayedFacts ==
  ASSUME RecordInv, NEW f \in Flushes, Replayed(f)
  PROVE  /\ flush[f] # <<>> /\ Head(flush[f]) \in Transfers /\ Tail(flush[f]) \in Seq(Transfers)
         /\ request[f].stage = "answered" /\ request[f].transfer = Head(flush[f])
         /\ \/ queue' = queue
            \/ /\ queue' = without(Head(flush[f]))
               /\ isRecorded(Head(flush[f])) \/ request[f].answer = "403"
  <1>1. request[f].stage = "answered" /\ f \in Senders
    BY DEF Replayed, Senders
  <1>2. flush[f] # <<>> /\ request[f].transfer = Head(flush[f]) /\ flush[f] \in Seq(Transfers)
    BY <1>1 DEF RecordInv, SendsItsOwn, Typed, FlushTyped
  <1>3. Head(flush[f]) \in Transfers /\ Tail(flush[f]) \in Seq(Transfers)
    BY <1>2
  <1>4. request[f].answer \in {"ok", "409"} => isRecorded(Head(flush[f]))
    BY <1>1, <1>2 DEF RecordInv, AnswersAreTrue
  <1>5. QED
    BY <1>1, <1>2, <1>3, <1>4 DEF Replayed, finalRefusal

LEMMA ReplayedKeeps ==
  ASSUME RecordInv, NEW f \in Flushes, Replayed(f)
  PROVE  RecordInv'
  <1>1. RequestTyped' /\ SendsItsOwn' /\ AnswersAreTrue' /\ FlushTyped'
    BY ReplayedFacts, SendNextKeeps DEF Replayed, backend
  <1>2. QueueTyped'
    BY ReplayedFacts, QueueShrinks DEF RecordInv, Typed, QueueTyped
  <1>3. RecordTyped' /\ OrphansTyped' /\ JobTyped' /\ ToldRecorded'
    BY DEF Replayed, backend, page, RecordInv, Typed, RecordTyped, OrphansTyped,
           JobTyped, ToldRecorded, isRecorded
  <1>4. QED
    BY <1>1, <1>2, <1>3 DEF RecordInv, Typed, ToldRecorded

-----------------------------------------------------------------------------
(***************************************************************************)
(* The backend's steps, and those of the page around it.                   *)
(***************************************************************************)

\* Whatever leaves the browser's own variables alone keeps what is said of them.
LEMMA BrowserStays ==
  ASSUME RecordInv, RecordGrows, UNCHANGED <<queue, flush, job, signedIn>>
  PROVE  QueueTyped' /\ FlushTyped' /\ JobTyped' /\ ToldRecorded'
  BY DEF RecordInv, RecordGrows, Typed, QueueTyped, FlushTyped, JobTyped, ToldRecorded

LEMMA ArriveKeeps ==
  ASSUME RecordInv, NEW x \in Senders, Arrive(x)
  PROVE  RecordInv'
  <1>1. /\ UNCHANGED <<queue, flush, job, signedIn, orphans, recorded>>
        /\ request[x].stage = "sent"
    BY DEF Arrive, walletVars, backend
  <1>2. RecordGrows
    BY <1>1, NothingNewIsRecorded
  <1>3. request[x] \in Asked /\ request[x].transfer \in Transfers
    BY <1>1, RequestShapes
  <1>4. RequestTyped' /\ SendsItsOwn' /\ AnswersAreTrue'
    <2>1. CASE request' = answered(x, "401")
      BY <1>1, <1>2, <2>1, AnswerKeeps DEF Answers
    <2>2. CASE request' = answered(x, "409") /\ alreadyRecorded(request[x].transfer)
      BY <1>1, <1>2, <2>2, AnswerKeeps DEF Answers, alreadyRecorded
    <2>3. CASE request' = [request EXCEPT ![x].stage = "reading"]
      <3> DEFINE new == [request[x] EXCEPT !.stage = "reading"]
      <3>1. request' = [request EXCEPT ![x] = new]
        BY <2>3
      <3>2. new \in Asked /\ new.stage = "reading" /\ new.transfer = request[x].transfer
        BY <1>3 DEF Asked
      <3>3. /\ x \in Transfers => new.transfer = x
            /\ x \in Flushes => flush'[x] # <<>> /\ new.transfer = Head(flush'[x])
        BY <1>1, <3>2 DEF RecordInv, SendsItsOwn
      <3> HIDE DEF new
      <3>4. QED
        BY <1>1, <1>2, <3>1, <3>2, <3>3, OneRequestMoves DEF Requests
    <2>4. QED
      BY <2>1, <2>2, <2>3 DEF Arrive
  <1>5. OrphansTyped'
    BY <1>1 DEF RecordInv, Typed, OrphansTyped
  <1>6. QED
    BY <1>1, <1>2, <1>4, <1>5, BrowserStays DEF RecordInv, Typed, RecordGrows, ToldRecorded

LEMMA RecordTransferKeeps ==
  ASSUME RecordInv, NEW x \in Senders, recordTransfer(x)
  PROVE  RecordInv'
  <1> DEFINE t == request[x].transfer
  <1>1. /\ UNCHANGED <<queue, flush, job, signedIn, orphans>>
        /\ request[x].stage = "reading"
    BY DEF recordTransfer, walletVars
  <1>2. t \in Transfers
    BY <1>1, RequestShapes
  <1>3. RecordGrows /\ RequestTyped' /\ SendsItsOwn' /\ AnswersAreTrue'
    <2>1. CASE request[x].user # t.user
      <3>1. request' = answered(x, "403") /\ UNCHANGED backend
        BY <2>1 DEF recordTransfer
      <3>2. RecordGrows
        BY <3>1, NothingNewIsRecorded DEF backend
      <3>3. QED
        BY <1>1, <3>1, <3>2, AnswerKeeps DEF Answers
    <2>2. CASE request[x].user = t.user
      <3>1. /\ request' = answered(x, IF alreadyRecorded(t) THEN "409" ELSE "ok")
            /\ applyTransfer(t)
        BY <2>2 DEF recordTransfer
      <3>2. RecordGrows /\ Contains(recorded', t)
        BY <1>2, <3>1, ApplyRecords DEF RecordInv, Typed, RecordGrows, isRecorded
      <3>3. QED
        BY <1>1, <3>1, <3>2, AnswerKeeps DEF Answers
    <2>3. QED
      BY <2>1, <2>2
  <1>4. OrphansTyped'
    BY <1>1 DEF RecordInv, Typed, OrphansTyped
  <1>5. QED
    BY <1>1, <1>3, <1>4, BrowserStays DEF RecordInv, Typed, RecordGrows, ToldRecorded

LEMMA DropKeeps ==
  ASSUME RecordInv, NEW x \in Senders, Drop(x)
  PROVE  RecordInv'
  <1>1. /\ UNCHANGED <<queue, flush, job, signedIn, recorded>>
        /\ request[x].stage # "none" /\ request' = answered(x, "unreachable")
    BY DEF Drop, walletVars, backend
  <1>2. RecordGrows
    BY <1>1, NothingNewIsRecorded
  <1>3. RequestTyped' /\ SendsItsOwn' /\ AnswersAreTrue'
    BY <1>1, <1>2, AnswerKeeps DEF Answers
  <1>4. OrphansTyped'
    BY <1>1, RequestShapes DEF Drop, orphaned, RecordInv, Typed, OrphansTyped
  <1>5. QED
    BY <1>1, <1>2, <1>3, <1>4, BrowserStays DEF RecordInv, Typed, RecordGrows, ToldRecorded

LEMMA ServeOrphanKeeps ==
  ASSUME RecordInv, NEW r \in orphans, ServeOrphan(r)
  PROVE  RecordInv'
  <1>1. UNCHANGED <<queue, flush, request, job, signedIn>> /\ orphans' \subseteq orphans
    BY DEF ServeOrphan, walletVars
  <1>2. r.transfer \in Transfers
    BY DEF RecordInv, Typed, OrphansTyped
  <1>3. UNCHANGED backend \/ applyTransfer(r.transfer)
    BY DEF ServeOrphan
  <1>4. RecordGrows
    BY <1>2, <1>3, ApplyRecords, NothingNewIsRecorded
       DEF backend, RecordInv, Typed, RecordGrows
  <1>5. RequestTyped' /\ SendsItsOwn' /\ OrphansTyped'
    BY <1>1 DEF RecordInv, Typed, RequestTyped, SendsItsOwn, OrphansTyped
  <1>6. AnswersAreTrue'
    BY <1>1, <1>4, RequestShapes DEF RecordInv, AnswersAreTrue, RecordGrows
  <1>7. QED
    BY <1>1, <1>4, <1>5, <1>6, BrowserStays DEF RecordInv, Typed, RecordGrows, ToldRecorded

LEMMA CloseKeeps ==
  ASSUME RecordInv, Close
  PROVE  /\ RecordInv'
         /\ \A t \in Transfers : job'[t].pc \in queued => job[t].pc \in queued
  <1>1. /\ job' = [t \in Transfers |-> [job[t] EXCEPT !.pc = closed(t)]]
        /\ flush' = [f \in Flushes |-> <<>>]
        /\ request' = [x \in Senders |-> NoRequest]
        /\ UNCHANGED <<signedIn, queue, recorded>>
    BY DEF Close, page, backend
  <1>2. job \in [Transfers -> Jobs]
    BY DEF RecordInv, Typed, JobTyped
  <1>3. ASSUME NEW t \in Transfers
        PROVE  /\ closed(t) \in Stages
               /\ closed(t) \in queued => job[t].pc \in queued
               /\ closed(t) = "recorded" => job[t].pc = "recorded"
    <2>1. job[t].pc \in Stages
      BY <1>2 DEF Jobs
    <2>2. \/ inFlight(t) /\ closed(t) = "refused"
          \/ job[t].pc = "mined" /\ closed(t) = "lost"
          \/ job[t].pc \in {"sending", "waiting"} /\ closed(t) = "closed"
          \/ closed(t) = job[t].pc
      BY DEF closed, inFlight
    <2>3. QED
      BY <2>1, <2>2 DEF Stages, queued
  <1>4. ASSUME NEW t \in Transfers
        PROVE  job'[t] \in Jobs /\ job'[t].pc = closed(t)
    <2>1. job[t] \in Jobs /\ closed(t) \in Stages
      BY <1>2, <1>3
    <2> HIDE DEF closed
    <2>2. QED
      BY <1>1, <2>1 DEF Jobs
  <1>5. JobTyped' /\ QueueTyped' /\ RecordTyped' /\ ToldRecorded'
    <2>1. job' \in [Transfers -> Jobs]
      BY <1>1, <1>4
    <2>2. QED
      BY <1>1, <1>3, <1>4, <2>1
         DEF RecordInv, Typed, JobTyped, QueueTyped, RecordTyped, ToldRecorded, isRecorded
  <1>6. FlushTyped' /\ RequestTyped' /\ SendsItsOwn' /\ AnswersAreTrue'
    BY <1>1 DEF FlushTyped, RequestTyped, Requests, NoRequest, SendsItsOwn, AnswersAreTrue, Senders
  <1>7. OrphansTyped'
    <2>1. \A r \in orphans' : r \in orphans
            \/ \E x \in Senders : request[x].stage = "reading" /\ r.transfer = request[x].transfer
      BY DEF Close
    <2>2. QED
      BY <2>1, RequestShapes DEF RecordInv, Typed, OrphansTyped
  <1>8. QED
    BY <1>3, <1>4, <1>5, <1>6, <1>7 DEF RecordInv, Typed, ToldRecorded

LEMMA PageKeeps ==
  ASSUME RecordInv, UNCHANGED <<queue, flush, request, orphans, recorded>>,
         JobTyped', \A t \in Transfers : job'[t].pc = "recorded" => job[t].pc = "recorded"
  PROVE  RecordInv'
  BY DEF RecordInv, Typed, QueueTyped, FlushTyped, RequestTyped, RecordTyped, OrphansTyped,
         SendsItsOwn, AnswersAreTrue, isRecorded

LEMMA SettlementStarts == Init => RecordInv
  <1> SUFFICES ASSUME Init PROVE RecordInv
    OBVIOUS
  <1>1. Contains(<<>>, "x") = FALSE /\ once(<<>>)
    BY DEF Contains, once
  <1>2. job \in [Transfers -> Jobs] /\ \A t \in Transfers : job[t].pc = "none"
    BY DEF Init, WalletInit, Jobs, Stages
  <1>3. JobTyped
    BY <1>2 DEF Init, WalletInit, JobTyped
  <1>4. QueueTyped /\ FlushTyped /\ RecordTyped /\ OrphansTyped
    BY <1>1 DEF Init, QueueTyped, FlushTyped, RecordTyped, OrphansTyped
  <1>5. RequestTyped /\ SendsItsOwn /\ AnswersAreTrue
    BY DEF Init, RequestTyped, Requests, NoRequest, SendsItsOwn, AnswersAreTrue, Senders
  <1>6. QED
    BY <1>2, <1>3, <1>4, <1>5 DEF RecordInv, Typed

LEMMA SettlementStepKeeps ==
  ASSUME RecordInv, [Next]_vars
  PROVE  RecordInv'
  <1>1. CASE MoveMoney
    <2>1. JobTyped' /\ \A t \in Transfers : job'[t].pc = "recorded" => job[t].pc = "recorded"
      BY <1>1, WalletMovesOneJob DEF MoveMoney, RecordInv, Typed, queued
    <2>2. QED
      BY <1>1, <2>1, PageKeeps DEF MoveMoney, backend
  <1>2. ASSUME NEW u \in Users \cup {Nobody}, SignIn(u) PROVE RecordInv'
    BY <1>2, PageKeeps DEF SignIn, backend, RecordInv, Typed, JobTyped
  <1>3. ASSUME NEW u \in Users, Refresh(u) PROVE RecordInv'
    BY <1>3, PageKeeps DEF Refresh, backend, RecordInv, Typed, JobTyped
  <1>4. CASE UNCHANGED vars
    BY <1>4, PageKeeps DEF vars, walletVars, backend, RecordInv, Typed, JobTyped
  <1>5. ASSUME NEW t \in Transfers, Enqueue(t) \/ Answered(t) \/ Retry(t) PROVE RecordInv'
    BY <1>5, EnqueueKeeps, AnsweredKeeps, RetryKeeps
  <1>6. ASSUME NEW f \in Flushes, StartFlush(f) \/ Replayed(f) PROVE RecordInv'
    BY <1>6, StartFlushKeeps, ReplayedKeeps
  <1>7. ASSUME NEW x \in Senders, Arrive(x) \/ recordTransfer(x) \/ Drop(x) PROVE RecordInv'
    BY <1>7, ArriveKeeps, RecordTransferKeeps, DropKeeps
  <1>8. ASSUME NEW r \in orphans, ServeOrphan(r) PROVE RecordInv'
    BY <1>8, ServeOrphanKeeps
  <1>9. CASE Close
    BY <1>9, CloseKeeps
  <1>10. QED
    BY <1>1, <1>2, <1>3, <1>4, <1>5, <1>6, <1>7, <1>8, <1>9 DEF Next

LEMMA RecordInvariant == Spec => []RecordInv
  BY SettlementStarts, SettlementStepKeeps, PTL DEF Spec

(***************************************************************************)
(* A transfer is recorded once, and told to be recorded only when it is,   *)
(* whoever presents it and however often (settlement.ts:                   *)
(* recordSettledTransfer; strategies.ts: recordTransfer).                  *)
(***************************************************************************)
THEOREM RecordedOnceAndAsTold == Spec => []RecordedAsTold
  <1>1. RecordInv => RecordedAsTold
    BY DEF RecordInv, Typed, RecordTyped, once, RecordedAsTold
  <1>2. QED
    BY <1>1, RecordInvariant, PTL

-----------------------------------------------------------------------------
(***************************************************************************)
(* A hash leaves the queue when its transfer is on file, or when the       *)
(* backend has said 403 of it: that is the only way to lose one.           *)
(***************************************************************************)
refusedAsForeign(t) ==
  \E x \in Senders : /\ request[x].stage = "answered" /\ request[x].answer = "403"
                     /\ request[x].transfer = t

LeavesOnlyAnswered ==
  \A t \in Transfers :
    Contains(queue, t) /\ ~Contains(queue', t) => isRecorded(t) \/ refusedAsForeign(t)

LEMMA StepLeavesOnlyAnswered ==
  ASSUME RecordInv, [Next]_vars
  PROVE  LeavesOnlyAnswered
  <1>1. ASSUME UNCHANGED queue PROVE LeavesOnlyAnswered
    BY <1>1 DEF LeavesOnlyAnswered
  <1>2. ASSUME NEW t \in Transfers, Enqueue(t) PROVE LeavesOnlyAnswered
    BY <1>2, QueueGrows DEF Enqueue, LeavesOnlyAnswered
  <1>3. ASSUME NEW t \in Transfers, Answered(t) PROVE LeavesOnlyAnswered
    <2>1. t \in Senders
      BY DEF Senders
    <2>2. QED
      BY <1>1, <1>3, <2>1, AnsweredFacts, QueueShrinks DEF LeavesOnlyAnswered, refusedAsForeign
  <1>4. ASSUME NEW f \in Flushes, Replayed(f) PROVE LeavesOnlyAnswered
    <2>1. f \in Senders
      BY DEF Senders
    <2>2. QED
      BY <1>1, <1>4, <2>1, ReplayedFacts, QueueShrinks DEF LeavesOnlyAnswered, refusedAsForeign
  <1>5. ASSUME NEW t \in Transfers, Retry(t) PROVE LeavesOnlyAnswered
    BY <1>1, <1>5 DEF Retry
  <1>6. ASSUME NEW f \in Flushes, StartFlush(f) PROVE LeavesOnlyAnswered
    BY <1>1, <1>6 DEF StartFlush
  <1>7. ASSUME NEW x \in Senders, Arrive(x) \/ recordTransfer(x) \/ Drop(x) PROVE LeavesOnlyAnswered
    BY <1>1, <1>7 DEF Arrive, recordTransfer, Drop
  <1>8. CASE MoveMoney \/ Close \/ UNCHANGED vars \/ \E r \in orphans : ServeOrphan(r)
    BY <1>1, <1>8 DEF MoveMoney, Close, vars, ServeOrphan
  <1>9. CASE (\E u \in Users \cup {Nobody} : SignIn(u)) \/ (\E u \in Users : Refresh(u))
    BY <1>1, <1>9 DEF SignIn, Refresh
  <1>10. QED
    BY <1>2, <1>3, <1>4, <1>5, <1>6, <1>7, <1>8, <1>9 DEF Next

(***************************************************************************)
(* In any browser, whoever signs in to it, a hash leaves the queue only    *)
(* when it is on file or was refused as somebody else's (settlement.ts:    *)
(* flushUnrecorded).                                                       *)
(***************************************************************************)
THEOREM OnlyAnswersEmptyTheQueue == Spec => [][LeavesOnlyAnswered]_vars
  BY StepLeavesOnlyAnswered, RecordInvariant, PTL DEF Spec

(***************************************************************************)
(* On a browser that one investor uses, nothing is ever refused as         *)
(* somebody else's, and so no settled transfer that was queued is lost.    *)
(***************************************************************************)
OneInvestor == \A t \in Transfers : Users = {t.user}

NothingIsForeign ==
  \A x \in Senders :
    /\ request[x].stage = "reading" => request[x].user = request[x].transfer.user
    /\ request[x].stage = "answered" => request[x].answer # "403"

LEMMA NothingGetsForeign ==
  ASSUME OneInvestor, RecordInv, NothingIsForeign, [Next]_vars
  PROVE  NothingIsForeign'
  <1>1. request \in [Senders -> Requests]
    BY DEF RecordInv, Typed, RequestTyped
  <1>2. ASSUME NEW x \in Senders, NEW new, request' = [request EXCEPT ![x] = new],
               new.stage = "reading" => new.user = new.transfer.user,
               new.stage = "answered" => new.answer # "403"
        PROVE  NothingIsForeign'
    BY <1>1, <1>2 DEF NothingIsForeign
  <1>3. ASSUME UNCHANGED request PROVE NothingIsForeign'
    BY <1>3 DEF NothingIsForeign
  <1>4. ASSUME NEW t \in Transfers, Enqueue(t) \/ Answered(t) \/ Retry(t) PROVE NothingIsForeign'
    BY <1>2, <1>4 DEF Enqueue, Answered, Retry, sent, NoRequest, Senders
  <1>5. ASSUME NEW f \in Flushes, StartFlush(f) \/ Replayed(f) PROVE NothingIsForeign'
    BY <1>2, <1>5 DEF StartFlush, Replayed, sendNext, sent, NoRequest, Senders
  <1>6. ASSUME NEW x \in Senders, Arrive(x) PROVE NothingIsForeign'
    <2>1. request[x] \in Asked /\ request[x].stage = "sent" /\ request[x].transfer \in Transfers
      BY <1>6, RequestShapes DEF Arrive
    <2>2. request[x].user # Nobody => request[x].user = request[x].transfer.user
      BY <2>1 DEF Asked, OneInvestor
    <2>3. CASE request' = answered(x, "401") \/ request' = answered(x, "409")
      BY <1>2, <2>3 DEF answered
    <2>4. CASE request' = [request EXCEPT ![x].stage = "reading"] /\ request[x].user # Nobody
      <3> DEFINE new == [request[x] EXCEPT !.stage = "reading"]
      <3>1. request' = [request EXCEPT ![x] = new]
        BY <2>4
      <3>2. new.stage = "reading" /\ new.user = request[x].user /\ new.transfer = request[x].transfer
        BY <2>1 DEF Asked
      <3> HIDE DEF new
      <3>3. QED
        BY <1>2, <2>2, <2>4, <3>1, <3>2
    <2>5. QED
      BY <1>6, <2>3, <2>4 DEF Arrive
  <1>7. ASSUME NEW x \in Senders, recordTransfer(x) PROVE NothingIsForeign'
    <2>1. request[x].stage = "reading" /\ request[x].user = request[x].transfer.user
      BY <1>7 DEF recordTransfer, NothingIsForeign
    <2>2. request' = answered(x, "409") \/ request' = answered(x, "ok")
      BY <1>7, <2>1 DEF recordTransfer
    <2>3. QED
      BY <1>2, <2>2 DEF answered
  <1>8. ASSUME NEW x \in Senders, Drop(x) PROVE NothingIsForeign'
    BY <1>2, <1>8 DEF Drop, answered
  <1>9. CASE Close
    BY <1>9 DEF Close, NoRequest, NothingIsForeign
  <1>10. CASE MoveMoney \/ UNCHANGED vars \/ \E r \in orphans : ServeOrphan(r)
    BY <1>3, <1>10 DEF MoveMoney, vars, ServeOrphan
  <1>11. CASE (\E u \in Users \cup {Nobody} : SignIn(u)) \/ (\E u \in Users : Refresh(u))
    BY <1>3, <1>11 DEF SignIn, Refresh
  <1>12. QED
    BY <1>4, <1>5, <1>6, <1>7, <1>8, <1>9, <1>10, <1>11 DEF Next

LEMMA StepForgetsNothing ==
  ASSUME RecordInv, RecordInv', NothingIsForeign, NeverForgotten, [Next]_vars
  PROVE  NeverForgotten'
  <1>1. \A t \in Transfers : Contains(queue, t) => Contains(queue', t) \/ isRecorded(t)
    BY StepLeavesOnlyAnswered DEF LeavesOnlyAnswered, refusedAsForeign, NothingIsForeign
  <1>2. \A t \in Transfers : isRecorded(t) => isRecorded(t)'
    <2>1. ASSUME UNCHANGED recorded PROVE \A t \in Transfers : isRecorded(t) => isRecorded(t)'
      BY <2>1 DEF isRecorded
    <2>2. ASSUME NEW t \in Transfers, applyTransfer(t)
          PROVE  \A o \in Transfers : isRecorded(o) => isRecorded(o)'
      BY <2>2, ApplyRecords DEF RecordInv, Typed
    <2>3. ASSUME NEW x \in Senders, recordTransfer(x)
          PROVE  \A o \in Transfers : isRecorded(o) => isRecorded(o)'
      BY <2>1, <2>2, <2>3, RequestShapes DEF recordTransfer, backend
    <2>4. ASSUME NEW r \in orphans, ServeOrphan(r)
          PROVE  \A o \in Transfers : isRecorded(o) => isRecorded(o)'
      BY <2>1, <2>2, <2>4 DEF ServeOrphan, backend, RecordInv, Typed, OrphansTyped
    <2>5. UNCHANGED recorded \/ (\E x \in Senders : recordTransfer(x)) \/ (\E r \in orphans : ServeOrphan(r))
      BY DEF Next, MoveMoney, Enqueue, Answered, Retry, StartFlush, Replayed, Arrive, Drop, SignIn,
             Refresh, Close, vars, backend
    <2>6. QED
      BY <2>1, <2>3, <2>4, <2>5
  <1>3. ASSUME NEW t \in Transfers, job'[t].pc \in queued, job[t].pc \notin queued
        PROVE  Contains(queue', t)
    <2>1. CASE \E o \in Transfers : Enqueue(o)
      <3>1. PICK o \in Transfers : Enqueue(o)
        BY <2>1
      <3>2. o = t
        BY <1>3, <3>1 DEF Enqueue, RecordInv, Typed, JobTyped
      <3>3. QED
        BY <3>1, <3>2, QueueGrows DEF Enqueue
    <2>2. ASSUME NEW o \in Transfers, Answered(o) \/ Retry(o) PROVE FALSE
      <3>1. o = t => job[o].pc \in queued
        BY <2>2 DEF Answered, Retry, queued
      <3>2. o # t => job'[t] = job[t]
        BY <2>2 DEF Answered, Retry, RecordInv, Typed, JobTyped
      <3>3. QED
        BY <1>3, <3>1, <3>2
    <2>3. CASE MoveMoney
      BY <1>3, <2>3, WalletMovesOneJob DEF MoveMoney, RecordInv, Typed
    <2>4. CASE Close
      BY <1>3, <2>4, CloseKeeps
    <2>5. CASE UNCHANGED job
      BY <1>3, <2>5
    <2>6. QED
      BY <2>1, <2>2, <2>3, <2>4, <2>5
         DEF Next, StartFlush, Replayed, Arrive, recordTransfer, Drop, ServeOrphan, SignIn, Refresh,
             vars, walletVars
  <1>4. QED
    BY <1>1, <1>2, <1>3 DEF NeverForgotten

(***************************************************************************)
(* In a browser that one investor signs in to, a settled transfer that     *)
(* reached the queue is in it until it is on file, whatever tab closes and *)
(* whatever answer is dropped (settlement.ts: recordSettledTransfer).      *)
(***************************************************************************)
THEOREM NothingQueuedIsForgotten == OneInvestor /\ Spec => []NeverForgotten
  <1> SUFFICES ASSUME OneInvestor PROVE Spec => []NeverForgotten
    OBVIOUS
  <1>1. Init => NothingIsForeign /\ NeverForgotten
    BY DEF Init, WalletInit, NothingIsForeign, NoRequest, NeverForgotten, queued
  <1>2. RecordInv /\ NothingIsForeign /\ [Next]_vars => NothingIsForeign'
    BY NothingGetsForeign
  <1>3. RecordInv /\ RecordInv' /\ NothingIsForeign /\ NeverForgotten /\ [Next]_vars => NeverForgotten'
    BY StepForgetsNothing
  <1>4. QED
    BY <1>1, <1>2, <1>3, RecordInvariant, PTL DEF Spec

-----------------------------------------------------------------------------
(***************************************************************************)
(* What the wallet read still suffices when it is spent: one transfer of a *)
(* user is under way at a time, what it has checked stays in the wallet,   *)
(* and the faucet only adds to it.                                         *)
(***************************************************************************)
Accounts == [Users -> Int]

WalletTyped == usdc \in Accounts /\ gas \in Accounts /\ allowance \in Accounts

OneAtATime ==
  \A t, o \in Transfers : t.user = o.user /\ inFlight(t) /\ inFlight(o) => t = o

Covered(t) ==
  isDeposit(t) =>
    /\ job[t].pc = "checking" => gas[t.user] >= 2
    /\ job[t].pc = "approving" => gas[t.user] >= 2 /\ usdc[t.user] >= t.assets
    /\ job[t].pc = "writing" => /\ gas[t.user] >= 1 /\ usdc[t.user] >= t.assets
                                /\ allowance[t.user] >= t.assets

SpendInv ==
  /\ WalletTyped
  /\ undisturbed => OneAtATime /\ \A t \in Transfers : Covered(t)

\* The transfers of one user move one at a time, so no other one is disturbed.
LEMMA OthersStayCovered ==
  ASSUME SpendInv, undisturbed, NEW t \in Transfers, inFlight(t), WalletTyped',
         NEW o \in Transfers, o # t, job'[o] = job[o],
         \A u \in Users : u # t.user =>
           usdc'[u] = usdc[u] /\ gas'[u] = gas[u] /\ allowance'[u] = allowance[u]
  PROVE  Covered(o)'
  <1>1. CASE inFlight(o)
    <2>1. o.user # t.user /\ o.user \in Users
      BY <1>1, TransfersAssumption DEF SpendInv, OneAtATime
    <2>2. Covered(o)
      BY DEF SpendInv
    <2>3. QED
      BY <2>1, <2>2 DEF Covered, isDeposit
  <1>2. CASE ~inFlight(o)
    BY <1>2 DEF inFlight, Covered
  <1>3. QED
    BY <1>1, <1>2

\* A transfer under way moves on, and leaves its user enough for the rest of it.
LEMMA OneMoves ==
  ASSUME SpendInv, JobTyped, undisturbed, NEW t \in Transfers, inFlight(t), WalletTyped',
         NEW pc \in Stages, goes(t, pc),
         \A u \in Users : u # t.user =>
           usdc'[u] = usdc[u] /\ gas'[u] = gas[u] /\ allowance'[u] = allowance[u],
         isDeposit(t) => /\ pc = "checking" => gas'[t.user] >= 2
                         /\ pc = "approving" => gas'[t.user] >= 2 /\ usdc'[t.user] >= t.assets
                         /\ pc = "writing" => /\ gas'[t.user] >= 1 /\ usdc'[t.user] >= t.assets
                                              /\ allowance'[t.user] >= t.assets,
         isDeposit(t) => pc # "refused"
  PROVE  OneAtATime' /\ (\A o \in Transfers : Covered(o)') /\ checkedGoesThrough
  <1>1. job'[t].pc = pc /\ \A o \in Transfers : o # t => job'[o] = job[o]
    BY JobGoes
  <1>2. \A o \in Transfers : inFlight(o)' => inFlight(o)
    BY <1>1 DEF inFlight
  <1>3. OneAtATime'
    BY <1>2 DEF SpendInv, OneAtATime
  <1>4. ASSUME NEW o \in Transfers PROVE Covered(o)'
    BY <1>1, OthersStayCovered DEF Covered, isDeposit
  <1>5. checkedGoesThrough
    BY <1>1 DEF checkedGoesThrough, isDeposit
  <1>6. QED
    BY <1>3, <1>4, <1>5

\* Nothing is taken from a wallet, and no transfer comes or goes.
LEMMA NothingIsSpent ==
  ASSUME SpendInv, undisturbed, WalletTyped',
         \A u \in Users : usdc'[u] >= usdc[u] /\ gas'[u] >= gas[u] /\ allowance'[u] = allowance[u],
         \A o \in Transfers : job'[o].pc = job[o].pc \/ (~inFlight(o) /\ ~inFlight(o)')
  PROVE  OneAtATime' /\ (\A o \in Transfers : Covered(o)') /\ checkedGoesThrough
  <1>1. \A o \in Transfers : inFlight(o)' => inFlight(o)
    BY DEF inFlight
  <1>2. OneAtATime'
    BY <1>1 DEF SpendInv, OneAtATime
  <1>3. ASSUME NEW o \in Transfers PROVE Covered(o)'
    <2>1. CASE job'[o].pc = job[o].pc
      <3>1. o.user \in Users /\ o.assets \in Nat
        BY TransfersAssumption
      <3>2. Covered(o)
        BY DEF SpendInv
      <3>3. QED
        BY <2>1, <3>1, <3>2 DEF Covered, isDeposit, WalletTyped, Accounts, SpendInv
    <2>2. CASE ~inFlight(o)'
      BY <2>2 DEF inFlight, Covered
    <2>3. QED
      BY <1>3, <2>1, <2>2
  <1>4. checkedGoesThrough
    BY DEF checkedGoesThrough, inFlight
  <1>5. QED
    BY <1>2, <1>3, <1>4

LEMMA WalletKeepsTypes ==
  ASSUME WalletTyped, WalletStep
  PROVE  WalletTyped' /\ conditions' = conditions
  <1>1. \A t \in Transfers : t.user \in Users /\ t.assets \in Nat
    BY TransfersAssumption
  <1>2. ASSUME NEW t \in Transfers, Submit(t) \/ assertUsdc(t) \/ Refused(t)
        PROVE  WalletTyped' /\ conditions' = conditions
    BY <1>2 DEF Submit, ready, assertUsdc, Refused, chain, WalletTyped
  <1>3. ASSUME NEW t \in Transfers, Approve(t) PROVE WalletTyped' /\ conditions' = conditions
    BY <1>1, <1>3 DEF Approve, WalletTyped, Accounts
  <1>4. ASSUME NEW t \in Transfers, Transfer(t) PROVE WalletTyped' /\ conditions' = conditions
    BY <1>1, <1>4 DEF Transfer, WalletTyped, Accounts
  <1>5. ASSUME NEW u \in Users, Faucet(u) PROVE WalletTyped' /\ conditions' = conditions
    BY <1>5, AmountsAssumption DEF Faucet, ensureGas, WalletTyped, Accounts
  <1>6. QED
    BY <1>2, <1>3, <1>4, <1>5 DEF WalletStep

LEMMA WalletSpendsWhatItChecked ==
  ASSUME SpendInv, JobTyped, undisturbed, WalletStep
  PROVE  OneAtATime' /\ (\A o \in Transfers : Covered(o)') /\ checkedGoesThrough
  <1> DEFINE goal == OneAtATime' /\ (\A o \in Transfers : Covered(o)') /\ checkedGoesThrough
  <1> SUFFICES goal
    OBVIOUS
  <1>1. WalletTyped /\ WalletTyped'
    BY WalletKeepsTypes DEF SpendInv
  <1>2. \A t \in Transfers : t.user \in Users /\ t.assets \in Nat
    BY TransfersAssumption
  <1>3. "write" \notin Faults /\ "quote" \notin Faults /\ "overlap" \notin Faults
    BY DEF undisturbed
  <1>4. ASSUME NEW t \in Transfers, Submit(t) PROVE goal
    <2> DEFINE pc == IF isDeposit(t) THEN "checking" ELSE "writing"
    <2>1. /\ ~inFlight(t) /\ gas[t.user] >= gasUnits(t) /\ goes(t, pc) /\ pc \in Stages
          /\ \A o \in Transfers : o.user = t.user => ~inFlight(o)
          /\ UNCHANGED <<usdc, gas, allowance>>
      BY <1>3, <1>4 DEF Submit, ready, assertGas, chain, Stages
    <2>2. job'[t].pc = pc /\ \A o \in Transfers : o # t => job'[o] = job[o]
      BY <2>1, JobGoes
    <2>3. \A o \in Transfers : o # t /\ inFlight(o)' => inFlight(o) /\ o.user # t.user
      BY <2>1, <2>2 DEF inFlight
    <2>4. OneAtATime'
      BY <2>3 DEF SpendInv, OneAtATime
    <2>5. ASSUME NEW o \in Transfers PROVE Covered(o)'
      <3>1. CASE o = t
        BY <2>1, <2>2, <3>1 DEF Covered, isDeposit, gasUnits
      <3>2. CASE o # t
        BY <2>1, <2>2, <3>2 DEF SpendInv, Covered, isDeposit
      <3>3. QED
        BY <3>1, <3>2
    <2>6. checkedGoesThrough
      BY <2>1, <2>2 DEF checkedGoesThrough, inFlight
    <2>7. QED
      BY <2>4, <2>5, <2>6
  <1>5. ASSUME NEW t \in Transfers, assertUsdc(t) PROVE goal
    <2> DEFINE pc == IF usdc[t.user] >= t.assets THEN "approving" ELSE "refused"
    <2>1. /\ job[t].pc = "checking" /\ inFlight(t) /\ goes(t, pc) /\ pc \in Stages
          /\ UNCHANGED <<usdc, gas, allowance>>
      BY <1>5 DEF assertUsdc, chain, inFlight, Stages
    <2>2. isDeposit(t) => gas[t.user] >= 2
      BY <2>1 DEF SpendInv, Covered
    <2>3. CASE usdc[t.user] >= t.assets
      BY <1>1, <2>1, <2>2, <2>3, OneMoves
    <2>4. CASE ~(usdc[t.user] >= t.assets)
      <3>1. job'[t].pc = "refused" /\ \A o \in Transfers : o # t => job'[o] = job[o]
        BY <2>1, <2>4, JobGoes
      <3>2. OneAtATime'
        BY <3>1 DEF SpendInv, OneAtATime, inFlight
      <3>3. ASSUME NEW o \in Transfers PROVE Covered(o)'
        BY <1>1, <2>1, <3>1, OthersStayCovered DEF Covered, isDeposit
      <3>4. checkedGoesThrough
        BY <2>1, <3>1 DEF checkedGoesThrough, JobTyped, Jobs
      <3>5. QED
        BY <3>2, <3>3, <3>4
    <2>5. QED
      BY <2>3, <2>4
  <1>6. ASSUME NEW t \in Transfers, Approve(t) PROVE goal
    <2>1. /\ job[t].pc = "approving" /\ inFlight(t) /\ goes(t, "writing") /\ usdc' = usdc
          /\ gas' = [gas EXCEPT ![t.user] = @ - 1]
          /\ allowance' = [allowance EXCEPT ![t.user] = t.assets]
      BY <1>3, <1>6 DEF Approve, unheard, inFlight
    <2>2. isDeposit(t) => gas[t.user] >= 2 /\ usdc[t.user] >= t.assets
      BY <2>1 DEF SpendInv, Covered
    <2>3. /\ gas'[t.user] = gas[t.user] - 1 /\ allowance'[t.user] = t.assets
          /\ \A u \in Users : u # t.user => gas'[u] = gas[u] /\ allowance'[u] = allowance[u]
      BY <1>1, <1>2, <2>1 DEF WalletTyped, Accounts
    <2>4. isDeposit(t) => /\ gas'[t.user] >= 1 /\ usdc'[t.user] >= t.assets
                          /\ allowance'[t.user] >= t.assets
      BY <1>1, <1>2, <2>1, <2>2, <2>3 DEF WalletTyped, Accounts
    <2>5. "writing" \in Stages
      BY DEF Stages
    <2>6. QED
      BY <1>1, <2>1, <2>3, <2>4, <2>5, OneMoves
  <1>7. ASSUME NEW t \in Transfers, Transfer(t) PROVE goal
    <2>1. inFlight(t) /\ goes(t, "mined") /\ "mined" \in Stages
      BY <1>3, <1>7 DEF Transfer, unheard, inFlight, Stages
    <2>2. \A u \in Users : u # t.user =>
            usdc'[u] = usdc[u] /\ gas'[u] = gas[u] /\ allowance'[u] = allowance[u]
      BY <1>1, <1>2, <1>7 DEF Transfer, WalletTyped, Accounts
    <2>3. QED
      BY <1>1, <2>1, <2>2, OneMoves
  <1>8. ASSUME NEW t \in Transfers, Refused(t) PROVE goal
    <2>1. /\ goes(t, "refused") /\ "refused" \in Stages /\ inFlight(t)
          /\ UNCHANGED <<usdc, gas, allowance>>
          /\ (job[t].pc = "approving" /\ ~approves(t)) \/ (job[t].pc = "writing" /\ ~accepts(t))
      BY <1>3, <1>8 DEF Refused, chain, inFlight, Stages
    <2>2. ~isDeposit(t)
      BY <1>1, <1>2, <2>1 DEF SpendInv, Covered, approves, accepts, WalletTyped, Accounts
    <2>3. QED
      BY <1>1, <2>1, <2>2, OneMoves
  <1>9. ASSUME NEW u \in Users, Faucet(u) PROVE goal
    <2>1. \A v \in Users : usdc'[v] >= usdc[v] /\ gas'[v] >= gas[v] /\ allowance'[v] = allowance[v]
      BY <1>1, <1>9, AmountsAssumption DEF Faucet, ensureGas, WalletTyped, Accounts
    <2>2. job' = job
      BY <1>9 DEF Faucet
    <2>3. QED
      BY <1>1, <2>1, <2>2, NothingIsSpent
  <1>10. QED
    BY <1>4, <1>5, <1>6, <1>7, <1>8, <1>9 DEF WalletStep

LEMMA StepSpendsWhatItChecked ==
  ASSUME SpendInv, RecordInv, [Next]_vars
  PROVE  SpendInv' /\ checkedGoesThrough
  <1>1. JobTyped /\ WalletTyped
    BY DEF RecordInv, Typed, SpendInv
  <1>2. CASE MoveMoney
    <2>1. WalletTyped' /\ conditions' = conditions
      BY <1>1, <1>2, WalletKeepsTypes DEF MoveMoney
    <2>2. undisturbed' = undisturbed
      BY <2>1 DEF undisturbed, Faults
    <2>3. undisturbed => OneAtATime' /\ (\A o \in Transfers : Covered(o)') /\ checkedGoesThrough
      BY <1>1, <1>2, WalletSpendsWhatItChecked DEF MoveMoney
    <2>4. QED
      BY <2>1, <2>2, <2>3 DEF SpendInv, checkedGoesThrough
  <1>3. ASSUME UNCHANGED <<conditions, chain>>,
               undisturbed => \A o \in Transfers :
                 job'[o].pc = job[o].pc \/ (~inFlight(o) /\ ~inFlight(o)')
        PROVE  SpendInv' /\ checkedGoesThrough
    <2>1. undisturbed' = undisturbed /\ WalletTyped' /\ UNCHANGED <<usdc, gas, allowance>>
      BY <1>1, <1>3 DEF undisturbed, Faults, chain, WalletTyped
    <2>2. \A u \in Users : usdc'[u] >= usdc[u] /\ gas'[u] >= gas[u] /\ allowance'[u] = allowance[u]
      BY <1>1, <2>1 DEF WalletTyped, Accounts
    <2>3. undisturbed => OneAtATime' /\ (\A o \in Transfers : Covered(o)') /\ checkedGoesThrough
      BY <1>3, <2>1, <2>2, NothingIsSpent
    <2>4. QED
      BY <2>1, <2>3 DEF SpendInv, checkedGoesThrough
  <1>4. ASSUME NEW t \in Transfers, Enqueue(t) \/ Answered(t) \/ Retry(t)
        PROVE  SpendInv' /\ checkedGoesThrough
    <2>1. UNCHANGED <<conditions, chain>>
      BY <1>4 DEF Enqueue, Answered, Retry, page
    <2>2. ~inFlight(t)
      BY <1>4 DEF Enqueue, Answered, Retry, inFlight
    <2>3. \A o \in Transfers : o # t => job'[o] = job[o]
      BY <1>1, <1>4 DEF Enqueue, Answered, Retry, JobTyped
    <2>4. job'[t].pc \in queued
      <3>1. Enqueue(t) \/ Retry(t) => job'[t].pc = "sending"
        BY <1>1, JobGoes DEF Enqueue, Retry, goes, Stages, queued
      <3>2. QED
        BY <1>4, <3>1, AnsweredFacts DEF queued
    <2>5. ~inFlight(t)'
      BY <2>4 DEF inFlight, queued
    <2>6. QED
      BY <1>3, <2>1, <2>2, <2>3, <2>5
  <1>5. CASE Close
    BY <1>3, <1>5 DEF Close, page, undisturbed
  <1>6. CASE UNCHANGED vars
    BY <1>3, <1>6 DEF vars, walletVars
  <1>7. CASE \E f \in Flushes : StartFlush(f) \/ Replayed(f)
    BY <1>3, <1>7 DEF StartFlush, Replayed, page
  <1>8. CASE \E x \in Senders : Arrive(x) \/ recordTransfer(x) \/ Drop(x)
    BY <1>3, <1>8 DEF Arrive, recordTransfer, Drop, walletVars
  <1>9. CASE \E r \in orphans : ServeOrphan(r)
    BY <1>3, <1>9 DEF ServeOrphan, walletVars
  <1>10. CASE (\E u \in Users \cup {Nobody} : SignIn(u)) \/ (\E u \in Users : Refresh(u))
    BY <1>3, <1>10 DEF SignIn, Refresh
  <1>11. QED
    BY <1>2, <1>4, <1>5, <1>6, <1>7, <1>8, <1>9, <1>10 DEF Next

LEMMA SpendingStarts == Init => SpendInv
  BY ConditionsAssumption
     DEF Init, WalletInit, SpendInv, WalletTyped, Accounts, OneAtATime, Covered, inFlight

(***************************************************************************)
(* An allocation whose balances were found sufficient is not refused by    *)
(* the chain afterwards, unless a call fails or another transfer of the    *)
(* wallet is under way (wallet.ts: assertGas, assertUsdc, deposit).        *)
(***************************************************************************)
THEOREM CheckedTransfersGoThrough == Spec => [][checkedGoesThrough]_vars
  <1>1. SpendInv /\ RecordInv /\ [Next]_vars => SpendInv' /\ checkedGoesThrough
    BY StepSpendsWhatItChecked
  <1>2. QED
    BY <1>1, SpendingStarts, RecordInvariant, PTL DEF Spec

-----------------------------------------------------------------------------
(***************************************************************************)
(* What is on file against what is on the chain.  A transfer that settled  *)
(* and is not on file yet is missing; the shares that are missing, counted *)
(* as a set of units, make up the difference.                              *)
(***************************************************************************)
settled(t) == job[t].pc \in {"mined", "lost"} \cup queued

TheSettled == {t \in Transfers : settled(t)}

missing(u, kind) ==
  {t \in Transfers : t.user = u /\ t.kind = kind /\ settled(t) /\ ~isRecorded(t)}

Units(S) == UNION {{t} \X (1 .. t.shares) : t \in S}

PositionTyped ==
  position \in [Users -> [shares : Nat, basis : Int]] /\ held \in [Users -> Int]

Balanced(u) ==
  LET in  == Units(missing(u, "deposit"))
      out == Units(missing(u, "withdraw"))
  IN /\ IsFiniteSet(in) /\ IsFiniteSet(out)
     /\ position[u].shares + Cardinality(in) >= held[u] + Cardinality(out)

\* Only what has settled is ever queued, sent or recorded.
OnlySettled ==
  /\ \A t \in Transfers : Contains(queue, t) => t \in TheSettled
  /\ \A f \in Flushes : \A i \in DOMAIN flush[f] : flush[f][i] \in TheSettled
  /\ \A x \in Senders : request[x].stage # "none" => request[x].transfer \in TheSettled
  /\ \A r \in orphans : r.transfer \in TheSettled
  /\ \A t \in Transfers : isRecorded(t) => t \in TheSettled

PositionInv == PositionTyped /\ OnlySettled /\ \A u \in Users : Balanced(u)

\* One more transfer is as many more units as it has shares.
LEMMA UnitsOfOneMore ==
  ASSUME NEW S, NEW t, t \notin S, t.shares \in Nat, IsFiniteSet(Units(S))
  PROVE  /\ IsFiniteSet(Units(S \cup {t}))
         /\ Cardinality(Units(S \cup {t})) = Cardinality(Units(S)) + t.shares
         /\ Cardinality(Units(S)) \in Nat
  <1> DEFINE numbers == 1 .. t.shares
             block == {t} \X numbers
  <1>1. IsFiniteSet(numbers) /\ Cardinality(numbers) = t.shares
    <2>1. 1 \in Int /\ t.shares \in Int
      OBVIOUS
    <2>2. /\ IsFiniteSet(numbers)
          /\ Cardinality(numbers) = IF 1 > t.shares THEN 0 ELSE t.shares - 1 + 1
      BY <2>1, FS_Interval, Zenon
    <2>3. (IF 1 > t.shares THEN 0 ELSE t.shares - 1 + 1) = t.shares
      OBVIOUS
    <2>4. QED
      BY <2>2, <2>3
  <1>2. IsFiniteSet({t}) /\ Cardinality({t}) = 1
    BY FS_Singleton
  <1>3. Units(S \cup {t}) = Units(S) \cup block
    BY DEF Units
  <1>4. Units(S) \cap block = {}
    BY DEF Units
  <1> HIDE DEF numbers
  <1>5. IsFiniteSet(block) /\ Cardinality(block) = Cardinality({t}) * Cardinality(numbers)
    BY <1>1, <1>2, FS_Product, Zenon
  <1>6. Cardinality(block) = t.shares
    BY <1>1, <1>2, <1>5
  <1> HIDE DEF block
  <1>7. /\ IsFiniteSet(Units(S) \cup block)
        /\ Cardinality(Units(S) \cup block)
             = Cardinality(Units(S)) + Cardinality(block) - Cardinality(Units(S) \cap block)
    BY <1>5, FS_Union
  <1>8. Cardinality(Units(S)) \in Nat /\ Cardinality(Units(S) \cap block) = 0
    BY <1>4, FS_CardinalityType, FS_EmptySet
  <1>9. Cardinality(Units(S) \cup block) = Cardinality(Units(S)) + t.shares
    BY <1>6, <1>7, <1>8
  <1>10. QED
    BY <1>3, <1>7, <1>8, <1>9, Zenon

LEMMA UnitsOfOneLess ==
  ASSUME NEW S, NEW t \in S, t.shares \in Nat, IsFiniteSet(Units(S))
  PROVE  /\ IsFiniteSet(Units(S \ {t}))
         /\ Cardinality(Units(S)) = Cardinality(Units(S \ {t})) + t.shares
         /\ Cardinality(Units(S \ {t})) \in Nat
  <1>1. Units(S \ {t}) \subseteq Units(S)
    BY DEF Units
  <1>2. IsFiniteSet(Units(S \ {t}))
    BY <1>1, FS_Subset
  <1>3. (S \ {t}) \cup {t} = S /\ t \notin S \ {t}
    OBVIOUS
  <1> DEFINE rest == S \ {t}
  <1> HIDE DEF rest
  <1>4. rest \cup {t} = S /\ t \notin rest /\ IsFiniteSet(Units(rest))
    BY <1>2, <1>3 DEF rest
  <1>5. Cardinality(Units(S)) = Cardinality(Units(rest)) + t.shares /\ Cardinality(Units(rest)) \in Nat
    BY <1>4, UnitsOfOneMore
  <1>6. QED
    BY <1>2, <1>5 DEF rest

(***************************************************************************)
(* The three kinds of step: a transfer settles, one is put on file, or the *)
(* chain and the file stay what they are.                                  *)
(***************************************************************************)
Settles(t) ==
  /\ ~settled(t) /\ settled(t)'
  /\ \A o \in Transfers : o # t => (settled(o)' <=> settled(o))
  /\ IF isDeposit(t)
     THEN held' = [held EXCEPT ![t.user] = @ + t.shares]
     ELSE held' = [held EXCEPT ![t.user] = @ - t.shares]
  /\ UNCHANGED backend

Files(t) ==
  /\ applyTransfer(t)
  /\ \A o \in Transfers : settled(o)' <=> settled(o)
  /\ UNCHANGED held

Neither ==
  /\ \A o \in Transfers : settled(o)' <=> settled(o)
  /\ UNCHANGED <<held, backend>>

LEMMA WalletSettles ==
  ASSUME JobTyped, WalletStep, UNCHANGED backend
  PROVE  (\E t \in Transfers : Settles(t)) \/ Neither
  <1>1. ASSUME NEW t \in Transfers, NEW pc \in Stages, goes(t, pc), UNCHANGED held,
               pc \notin {"mined", "lost"} \cup queued, ~settled(t)
        PROVE  Neither
    BY <1>1, JobGoes DEF Neither, settled
  <1>2. ASSUME NEW t \in Transfers, Submit(t) \/ assertUsdc(t) \/ Approve(t) \/ Refused(t)
        PROVE  Neither
    <2>1. ~settled(t) /\ UNCHANGED held
      BY <1>2 DEF Submit, ready, assertUsdc, Approve, Refused, inFlight, chain, settled, queued
    <2>2. \E pc \in {"checking", "writing", "approving", "refused"} : goes(t, pc)
      BY <1>2 DEF Submit, ready, assertUsdc, Approve, Refused, unheard
    <2>3. QED
      BY <1>1, <2>1, <2>2 DEF Stages, queued
  <1>3. ASSUME NEW t \in Transfers, Transfer(t) PROVE Settles(t)
    <2>1. ~settled(t)
      BY <1>3 DEF Transfer, settled, queued
    <2>2. \E pc \in {"mined", "lost"} : goes(t, pc)
      BY <1>3 DEF Transfer, unheard
    <2>3. settled(t)' /\ \A o \in Transfers : o # t => (settled(o)' <=> settled(o))
      BY <2>2, JobGoes DEF settled, Stages
    <2>4. QED
      BY <1>3, <2>1, <2>3 DEF Transfer, Settles
  <1>4. ASSUME NEW u \in Users, Faucet(u) PROVE Neither
    BY <1>4 DEF Faucet, Neither, settled
  <1>5. QED
    BY <1>2, <1>3, <1>4 DEF WalletStep

LEMMA ThreeKindsOfStep ==
  ASSUME RecordInv, [Next]_vars
  PROVE  (\E t \in Transfers : Settles(t) \/ Files(t)) \/ Neither
  <1>1. ASSUME UNCHANGED <<job, held>> PROVE UNCHANGED backend => Neither
    BY <1>1 DEF Neither, settled
  <1>2. ASSUME NEW t \in Transfers, UNCHANGED <<job, held>>, applyTransfer(t) PROVE Files(t)
    BY <1>2 DEF Files, settled
  <1>3. CASE MoveMoney
    BY <1>3, WalletSettles DEF MoveMoney, RecordInv, Typed
  <1>4. ASSUME NEW t \in Transfers, Enqueue(t) \/ Answered(t) \/ Retry(t) PROVE Neither
    <2>1. settled(t) /\ UNCHANGED <<held, backend>>
      BY <1>4 DEF Enqueue, Answered, Retry, page, chain, settled, queued
    <2>2. \A o \in Transfers : o # t => job'[o] = job[o]
      BY <1>4 DEF Enqueue, Answered, Retry, RecordInv, Typed, JobTyped
    <2>3. job'[t].pc \in queued
      <3>1. Enqueue(t) \/ Retry(t) => job'[t].pc = "sending"
        BY JobGoes DEF Enqueue, Retry, goes, Stages, queued, RecordInv, Typed
      <3>2. QED
        BY <1>4, <3>1, AnsweredFacts DEF queued
    <2>4. QED
      BY <2>1, <2>2, <2>3 DEF Neither, settled
  <1>5. ASSUME NEW x \in Senders, recordTransfer(x) PROVE (\E t \in Transfers : Files(t)) \/ Neither
    BY <1>1, <1>2, <1>5, RequestShapes DEF recordTransfer, walletVars, chain
  <1>6. ASSUME NEW r \in orphans, ServeOrphan(r) PROVE (\E t \in Transfers : Files(t)) \/ Neither
    BY <1>1, <1>2, <1>6 DEF ServeOrphan, walletVars, chain, RecordInv, Typed, OrphansTyped
  <1>7. CASE Close
    <2>1. UNCHANGED <<held, backend>> /\ job' = [t \in Transfers |-> [job[t] EXCEPT !.pc = closed(t)]]
      BY <1>7 DEF Close, page, chain
    <2>2. ASSUME NEW t \in Transfers PROVE settled(t)' <=> settled(t)
      <3>1. job[t] \in Jobs
        BY DEF RecordInv, Typed, JobTyped
      <3>2. job'[t].pc = closed(t)
        <4> HIDE DEF closed
        <4>1. QED
          BY <2>1, <3>1 DEF Jobs
      <3>3. QED
        BY <3>2 DEF closed, settled, inFlight, queued
    <2>3. QED
      BY <2>1, <2>2 DEF Neither
  <1>8. CASE UNCHANGED vars
    BY <1>1, <1>8 DEF vars, walletVars, chain
  <1>9. CASE \E f \in Flushes : StartFlush(f) \/ Replayed(f)
    BY <1>1, <1>9 DEF StartFlush, Replayed, page, chain
  <1>10. CASE \E x \in Senders : Arrive(x) \/ Drop(x)
    BY <1>1, <1>10 DEF Arrive, Drop, walletVars, chain
  <1>11. CASE (\E u \in Users \cup {Nobody} : SignIn(u)) \/ (\E u \in Users : Refresh(u))
    BY <1>1, <1>11 DEF SignIn, Refresh, chain
  <1>12. QED
    BY <1>3, <1>4, <1>5, <1>6, <1>7, <1>8, <1>9, <1>10, <1>11 DEF Next

\* Once settled, always settled; and what is new in the books comes from them.
LEMMA StepKeepsOnlySettled ==
  ASSUME RecordInv, RecordInv', OnlySettled, [Next]_vars
  PROVE  OnlySettled'
  <1>1. TheSettled \subseteq TheSettled'
    <2>1. \A t \in Transfers : settled(t) => settled(t)'
      BY ThreeKindsOfStep DEF Settles, Files, Neither
    <2>2. QED
      BY <2>1 DEF TheSettled
  <1>2. ASSUME UNCHANGED queue PROVE \A t \in Transfers : Contains(queue', t) => t \in TheSettled'
    BY <1>1, <1>2 DEF OnlySettled
  <1>3. ASSUME UNCHANGED flush PROVE \A f \in Flushes : \A i \in DOMAIN flush'[f] : flush'[f][i] \in TheSettled'
    <2>1. \A f \in Flushes : \A i \in DOMAIN flush[f] : flush[f][i] \in Transfers
      BY DEF RecordInv, Typed, FlushTyped
    <2>2. QED
      BY <1>1, <1>3, <2>1 DEF OnlySettled
  <1>4. ASSUME UNCHANGED recorded PROVE \A t \in Transfers : isRecorded(t)' => t \in TheSettled'
    BY <1>1, <1>4 DEF OnlySettled, isRecorded
  <1>5. ASSUME UNCHANGED orphans PROVE \A r \in orphans' : r.transfer \in TheSettled'
    BY <1>1, <1>5 DEF OnlySettled, RecordInv, Typed, OrphansTyped
  <1>6. ASSUME NEW x \in Senders, NEW new, request' = [request EXCEPT ![x] = new],
               new.stage # "none" => new.transfer \in Transfers /\ new.transfer \in TheSettled'
        PROVE  \A y \in Senders : request'[y].stage # "none" => request'[y].transfer \in TheSettled'
    <2>1. ASSUME NEW y \in Senders, request'[y].stage # "none" PROVE request'[y].transfer \in TheSettled'
      <3>1. CASE y = x
        BY <1>6, <2>1, <3>1 DEF RecordInv, Typed, RequestTyped
      <3>2. CASE y # x
        <4>1. request'[y] = request[y]
          BY <1>6, <3>2 DEF RecordInv, Typed, RequestTyped
        <4>2. request[y].transfer \in Transfers /\ request[y].transfer \in TheSettled
          BY <2>1, <4>1, RequestShapes DEF OnlySettled
        <4>3. QED
          BY <1>1, <4>1, <4>2
      <3>3. QED
        BY <3>1, <3>2
    <2>2. QED
      BY <2>1
  <1>7. ASSUME UNCHANGED request
        PROVE  \A y \in Senders : request'[y].stage # "none" => request'[y].transfer \in TheSettled'
    BY <1>1, <1>7, RequestShapes DEF OnlySettled
  <1>8. ASSUME NEW t \in Transfers, Enqueue(t) PROVE OnlySettled'
    <2>1. t \in TheSettled'
      BY <1>1, <1>8 DEF Enqueue, TheSettled, settled
    <2>2. \A o \in Transfers : Contains(queue', o) => o \in TheSettled'
      BY <1>1, <1>8, <2>1, QueueGrows DEF Enqueue, OnlySettled
    <2>3. \A y \in Senders : request'[y].stage # "none" => request'[y].transfer \in TheSettled'
      BY <1>6, <1>8, <2>1, SentIsAsked DEF Enqueue, Senders
    <2>4. QED
      BY <1>3, <1>4, <1>5, <1>8, <2>2, <2>3 DEF Enqueue, backend, OnlySettled
  <1>9. ASSUME NEW t \in Transfers, Retry(t) PROVE OnlySettled'
    <2>1. t \in TheSettled'
      BY <1>1, <1>9 DEF Retry, TheSettled, settled, queued
    <2>2. \A y \in Senders : request'[y].stage # "none" => request'[y].transfer \in TheSettled'
      BY <1>6, <1>9, <2>1, SentIsAsked DEF Retry, Senders
    <2>3. QED
      BY <1>2, <1>3, <1>4, <1>5, <1>9, <2>2 DEF Retry, backend, OnlySettled
  <1>10. ASSUME NEW t \in Transfers, Answered(t) PROVE OnlySettled'
    <2>1. \A y \in Senders : request'[y].stage # "none" => request'[y].transfer \in TheSettled'
      BY <1>6, <1>10 DEF Answered, Senders, NoRequest
    <2>2. \A o \in Transfers : Contains(queue', o) => o \in TheSettled'
      BY <1>1, <1>2, <1>10, AnsweredFacts, QueueShrinks DEF OnlySettled
    <2>3. QED
      BY <1>3, <1>4, <1>5, <1>10, <2>1, <2>2 DEF Answered, backend, OnlySettled
  <1>11. ASSUME NEW f \in Flushes, NEW left \in Seq(Transfers), sendNext(f, left),
                \A i \in DOMAIN left : left[i] \in TheSettled
         PROVE  /\ \A g \in Flushes : \A i \in DOMAIN flush'[g] : flush'[g][i] \in TheSettled'
                /\ \A y \in Senders : request'[y].stage # "none" => request'[y].transfer \in TheSettled'
    <2>1. \A i \in DOMAIN left : left[i] \in Transfers /\ left[i] \in TheSettled'
      BY <1>1, <1>11
    <2>2. \A g \in Flushes : flush'[g] = IF g = f THEN left ELSE flush[g]
      BY <1>11 DEF sendNext, RecordInv, Typed, FlushTyped
    <2>3. \A g \in Flushes : \A i \in DOMAIN flush[g] : flush[g][i] \in Transfers /\ flush[g][i] \in TheSettled'
      BY <1>1 DEF OnlySettled, RecordInv, Typed, FlushTyped
    <2>4. \A g \in Flushes : \A i \in DOMAIN flush'[g] : flush'[g][i] \in TheSettled'
      BY <2>1, <2>2, <2>3
    <2>5. \A y \in Senders : request'[y].stage # "none" => request'[y].transfer \in TheSettled'
      <3>1. CASE left = <<>>
        <4>1. request' = [request EXCEPT ![f] = NoRequest] /\ f \in Senders
          BY <1>11, <3>1 DEF sendNext, Senders
        <4>2. NoRequest.stage = "none"
          BY DEF NoRequest
        <4>3. QED
          BY <1>6, <4>1, <4>2
      <3>2. CASE left # <<>>
        <4>1. 1 \in DOMAIN left /\ Head(left) = left[1]
          BY <3>2
        <4>2. Head(left) \in Transfers /\ Head(left) \in TheSettled'
          BY <2>1, <4>1
        <4>3. request' = [request EXCEPT ![f] = sent(Head(left))] /\ f \in Senders
          BY <1>11, <3>2 DEF sendNext, Senders
        <4>4. QED
          BY <1>6, <4>2, <4>3, SentIsAsked
      <3>3. QED
        BY <3>1, <3>2
    <2>6. QED
      BY <2>4, <2>5
  <1>12. ASSUME NEW f \in Flushes, StartFlush(f) PROVE OnlySettled'
    <2>1. queue \in Seq(Transfers) /\ \A i \in DOMAIN queue : queue[i] \in TheSettled
      <3>1. queue \in Seq(Transfers)
        BY DEF RecordInv, Typed, QueueTyped
      <3>2. \A i \in DOMAIN queue : queue[i] \in Transfers /\ Contains(queue, queue[i])
        BY <3>1 DEF Contains
      <3>3. QED
        BY <3>1, <3>2 DEF OnlySettled
    <2>2. QED
      BY <1>2, <1>4, <1>5, <1>11, <1>12, <2>1 DEF StartFlush, backend, OnlySettled
  <1>13. ASSUME NEW f \in Flushes, Replayed(f) PROVE OnlySettled'
    <2>1. \A o \in Transfers : Contains(queue', o) => o \in TheSettled'
      BY <1>1, <1>2, <1>13, ReplayedFacts, QueueShrinks DEF OnlySettled
    <2>2. Tail(flush[f]) \in Seq(Transfers) /\ \A i \in DOMAIN Tail(flush[f]) : Tail(flush[f])[i] \in TheSettled
      <3>1. flush[f] \in Seq(Transfers) /\ flush[f] # <<>>
        BY <1>13, ReplayedFacts DEF RecordInv, Typed, FlushTyped
      <3>2. \A i \in DOMAIN Tail(flush[f]) : i + 1 \in DOMAIN flush[f] /\ Tail(flush[f])[i] = flush[f][i + 1]
        BY <3>1
      <3>3. QED
        BY <3>1, <3>2 DEF OnlySettled
    <2>3. QED
      BY <1>4, <1>5, <1>11, <1>13, <2>1, <2>2 DEF Replayed, backend, OnlySettled
  <1>14. ASSUME NEW x \in Senders, NEW answer, request' = answered(x, answer), request[x].stage # "none"
         PROVE  \A y \in Senders : request'[y].stage # "none" => request'[y].transfer \in TheSettled'
    <2>1. request[x].transfer \in Transfers /\ request[x].transfer \in TheSettled'
      BY <1>1, <1>14, RequestShapes DEF OnlySettled
    <2>2. QED
      BY <1>6, <1>14, <2>1 DEF answered
  <1>15. ASSUME NEW x \in Senders, Arrive(x) PROVE OnlySettled'
    <2>1. \A y \in Senders : request'[y].stage # "none" => request'[y].transfer \in TheSettled'
      <3>1. CASE request' = [request EXCEPT ![x].stage = "reading"]
        <4> DEFINE new == [request[x] EXCEPT !.stage = "reading"]
        <4>1. request' = [request EXCEPT ![x] = new]
          BY <3>1
        <4>2. request[x] \in Asked /\ request[x].transfer \in Transfers /\ request[x].transfer \in TheSettled'
          BY <1>1, <1>15, RequestShapes DEF Arrive, OnlySettled
        <4>3. new.transfer = request[x].transfer
          BY <4>2 DEF Asked
        <4> HIDE DEF new
        <4>4. QED
          BY <1>6, <4>1, <4>2, <4>3
      <3>2. CASE \E answer : request' = answered(x, answer)
        BY <1>14, <1>15, <3>2 DEF Arrive
      <3>3. QED
        BY <1>15, <3>1, <3>2 DEF Arrive
    <2>2. QED
      BY <1>2, <1>3, <1>4, <1>5, <1>15, <2>1 DEF Arrive, backend, walletVars, OnlySettled
  <1>16. ASSUME NEW t \in Transfers, UNCHANGED backend \/ applyTransfer(t), t \in TheSettled
         PROVE  \A o \in Transfers : isRecorded(o)' => o \in TheSettled'
    <2>1. recorded' = recorded \/ recorded' = Append(recorded, t)
      BY <1>16 DEF applyTransfer, backend
    <2>2. \A o \in Transfers : Contains(recorded', o) => Contains(recorded, o) \/ o = t
      BY <2>1, AppendContains DEF RecordInv, Typed, RecordTyped
    <2>3. QED
      BY <1>1, <1>16, <2>2 DEF OnlySettled, isRecorded
  <1>17. ASSUME NEW x \in Senders, recordTransfer(x) PROVE OnlySettled'
    <2>1. request[x].stage # "none" /\ request[x].transfer \in Transfers /\ request[x].transfer \in TheSettled
      BY <1>17, RequestShapes DEF recordTransfer, OnlySettled
    <2>2. \E answer : request' = answered(x, answer)
      BY <1>17 DEF recordTransfer
    <2>3. UNCHANGED backend \/ applyTransfer(request[x].transfer)
      BY <1>17 DEF recordTransfer
    <2>4. QED
      BY <1>2, <1>3, <1>5, <1>14, <1>16, <1>17, <2>1, <2>2, <2>3 DEF recordTransfer, walletVars, OnlySettled
  <1>18. ASSUME NEW r \in orphans, ServeOrphan(r) PROVE OnlySettled'
    <2>1. r.transfer \in Transfers /\ r.transfer \in TheSettled /\ (UNCHANGED backend \/ applyTransfer(r.transfer))
      BY <1>18 DEF ServeOrphan, OnlySettled, RecordInv, Typed, OrphansTyped
    <2>2. \A q \in orphans' : q.transfer \in TheSettled'
      BY <1>1, <1>18 DEF ServeOrphan, OnlySettled, RecordInv, Typed, OrphansTyped
    <2>3. QED
      BY <1>2, <1>3, <1>7, <1>16, <1>18, <2>1, <2>2 DEF ServeOrphan, walletVars, OnlySettled
  <1>19. ASSUME NEW x \in Senders, Drop(x) PROVE OnlySettled'
    <2>1. request[x].stage # "none" /\ request[x].transfer \in Transfers /\ request[x].transfer \in TheSettled'
      BY <1>1, <1>19, RequestShapes DEF Drop, OnlySettled
    <2>2. \A r \in orphans' : r.transfer \in TheSettled'
      BY <1>1, <1>19, <2>1 DEF Drop, orphaned, OnlySettled, RecordInv, Typed, OrphansTyped
    <2>3. QED
      BY <1>2, <1>3, <1>4, <1>14, <1>19, <2>1, <2>2 DEF Drop, backend, walletVars, OnlySettled
  <1>20. CASE Close
    <2>1. \A r \in orphans' : r \in orphans
            \/ \E x \in Senders : request[x].stage = "reading" /\ r.transfer = request[x].transfer
      BY <1>20 DEF Close
    <2>2. \A r \in orphans' : r.transfer \in TheSettled'
      BY <1>1, <2>1, RequestShapes DEF OnlySettled, RecordInv, Typed, OrphansTyped
    <2>3. /\ \A f \in Flushes : flush'[f] = <<>>
          /\ \A x \in Senders : request'[x].stage = "none"
      BY <1>20 DEF Close, NoRequest
    <2>4. QED
      BY <1>2, <1>4, <1>20, <2>2, <2>3 DEF Close, backend, OnlySettled
  <1>21. ASSUME UNCHANGED <<queue, flush, request, orphans, backend>> PROVE OnlySettled'
    BY <1>2, <1>3, <1>4, <1>5, <1>7, <1>21 DEF backend, OnlySettled
  <1>22. CASE MoveMoney \/ UNCHANGED vars
    BY <1>21, <1>22 DEF MoveMoney, vars
  <1>23. CASE (\E u \in Users \cup {Nobody} : SignIn(u)) \/ (\E u \in Users : Refresh(u))
    BY <1>21, <1>23 DEF SignIn, Refresh
  <1>24. QED
    BY <1>8, <1>9, <1>10, <1>12, <1>13, <1>15, <1>17, <1>18, <1>19, <1>20, <1>22, <1>23 DEF Next

-----------------------------------------------------------------------------
(***************************************************************************)
(* The balance of one user over each kind of step.                         *)
(***************************************************************************)
LEMMA MissingTransfers ==
  /\ \A u \in Users : \A kind : missing(u, kind) = {t \in TheSettled : t.user = u /\ t.kind = kind /\ ~isRecorded(t)}
  /\ \A t \in Transfers : t \in TheSettled <=> settled(t)
  BY DEF missing, TheSettled

LEMMA BooksStand ==
  ASSUME NEW u \in Users, Balanced(u),
         missing(u, "deposit")' = missing(u, "deposit"),
         missing(u, "withdraw")' = missing(u, "withdraw"),
         position'[u] = position[u], held'[u] = held[u]
  PROVE  Balanced(u)'
  BY DEF Balanced

LEMMA SettlingKeepsBalance ==
  ASSUME PositionTyped, OnlySettled, NEW t \in Transfers, Settles(t), NEW u \in Users, Balanced(u)
  PROVE  Balanced(u)'
  <1>1. /\ t.user \in Users /\ t.kind \in {"deposit", "withdraw"} /\ t.shares \in Nat
        /\ ~settled(t) /\ settled(t)' /\ ~isRecorded(t) /\ ~isRecorded(t)'
    BY TransfersAssumption, MissingTransfers DEF Settles, OnlySettled, backend, isRecorded
  <1>2. /\ position' = position /\ \A o \in Transfers : isRecorded(o)' <=> isRecorded(o)
        /\ \A o \in Transfers : o # t => (settled(o)' <=> settled(o))
    BY DEF Settles, backend, isRecorded
  <1>3. ASSUME NEW kind, ~(t.user = u /\ t.kind = kind) PROVE missing(u, kind)' = missing(u, kind)
    BY <1>2, <1>3 DEF missing
  <1>4. ASSUME NEW kind, t.user = u, t.kind = kind
        PROVE  missing(u, kind)' = missing(u, kind) \cup {t} /\ t \notin missing(u, kind)
    BY <1>1, <1>2, <1>4 DEF missing
  <1>5. CASE t.user # u
    <2>1. held'[u] = held[u]
      BY <1>5 DEF Settles, PositionTyped
    <2>2. QED
      BY <1>2, <1>3, <1>5, <2>1, BooksStand
  <1> DEFINE in == missing(u, "deposit")
             out == missing(u, "withdraw")
  <1>6. /\ position[u].shares \in Nat /\ held[u] \in Int
        /\ IsFiniteSet(Units(in)) /\ IsFiniteSet(Units(out))
        /\ Cardinality(Units(in)) \in Nat /\ Cardinality(Units(out)) \in Nat
        /\ position[u].shares + Cardinality(Units(in)) >= held[u] + Cardinality(Units(out))
    <2>1. IsFiniteSet(Units(in)) /\ IsFiniteSet(Units(out))
      BY DEF Balanced
    <2>2. Cardinality(Units(in)) \in Nat /\ Cardinality(Units(out)) \in Nat
      BY <2>1, FS_CardinalityType
    <2>3. QED
      BY <2>1, <2>2 DEF Balanced, PositionTyped
  <1>7. CASE t.user = u /\ t.kind = "deposit"
    <2>1. in' = in \cup {t} /\ t \notin in /\ out' = out
      BY <1>3, <1>4, <1>7
    <2>2. held'[u] = held[u] + t.shares
      BY <1>7 DEF Settles, PositionTyped, isDeposit
    <2>3. /\ IsFiniteSet(Units(in \cup {t}))
          /\ Cardinality(Units(in \cup {t})) = Cardinality(Units(in)) + t.shares
      BY <1>1, <1>6, <2>1, UnitsOfOneMore
    <2>4. position'[u].shares + Cardinality(Units(in \cup {t})) >= held'[u] + Cardinality(Units(out))
      BY <1>1, <1>2, <1>6, <2>2, <2>3
    <2>5. QED
      BY <1>6, <2>1, <2>3, <2>4 DEF Balanced
  <1>8. CASE t.user = u /\ t.kind = "withdraw"
    <2>1. out' = out \cup {t} /\ t \notin out /\ in' = in
      BY <1>3, <1>4, <1>8
    <2>2. held'[u] = held[u] - t.shares
      BY <1>8 DEF Settles, PositionTyped, isDeposit
    <2>3. /\ IsFiniteSet(Units(out \cup {t}))
          /\ Cardinality(Units(out \cup {t})) = Cardinality(Units(out)) + t.shares
      BY <1>1, <1>6, <2>1, UnitsOfOneMore
    <2>4. position'[u].shares + Cardinality(Units(in)) >= held'[u] + Cardinality(Units(out \cup {t}))
      BY <1>1, <1>2, <1>6, <2>2, <2>3
    <2>5. QED
      BY <1>6, <2>1, <2>3, <2>4 DEF Balanced
  <1>9. QED
    BY <1>1, <1>5, <1>7, <1>8

LEMMA FilingKeepsBalance ==
  ASSUME RecordInv, PositionTyped, OnlySettled, OnlySettled', NEW t \in Transfers, Files(t),
         NEW u \in Users, Balanced(u)
  PROVE  Balanced(u)'
  <1>1. t.user \in Users /\ t.kind \in {"deposit", "withdraw"} /\ t.shares \in Nat
    BY TransfersAssumption
  <1>2. /\ held' = held /\ \A o \in Transfers : settled(o)' <=> settled(o)
    BY DEF Files
  <1>3. CASE UNCHANGED backend
    <2>1. position' = position /\ \A o \in Transfers : isRecorded(o)' <=> isRecorded(o)
      BY <1>3 DEF backend, isRecorded
    <2>2. \A kind : missing(u, kind)' = missing(u, kind)
      BY <1>2, <2>1 DEF missing
    <2>3. QED
      BY <1>2, <2>1, <2>2, BooksStand
  <1>4. CASE ~isRecorded(t) /\ recorded' = Append(recorded, t)
             /\ position' = [position EXCEPT ![t.user] = after(@, t)]
    <2>1. \A o \in Transfers : isRecorded(o)' <=> (isRecorded(o) \/ o = t)
      BY <1>4, AppendContains DEF RecordInv, Typed, RecordTyped, isRecorded
    <2>2. settled(t)
      <3>1. t \in TheSettled'
        BY <2>1 DEF OnlySettled
      <3>2. QED
        BY <1>2, <3>1 DEF TheSettled
    <2>3. ASSUME NEW kind, ~(t.user = u /\ t.kind = kind) PROVE missing(u, kind)' = missing(u, kind)
      BY <1>2, <2>1, <2>3 DEF missing
    <2>4. ASSUME NEW kind, t.user = u, t.kind = kind
          PROVE  missing(u, kind)' = missing(u, kind) \ {t} /\ t \in missing(u, kind)
      BY <1>2, <1>4, <2>1, <2>2, <2>4 DEF missing
    <2>5. CASE t.user # u
      <3>1. position'[u] = position[u]
        BY <1>4, <2>5 DEF PositionTyped
      <3>2. QED
        BY <1>2, <2>3, <2>5, <3>1, BooksStand
    <2> DEFINE in == missing(u, "deposit")
               out == missing(u, "withdraw")
    <2>6. /\ position[u].shares \in Nat /\ held[u] \in Int
          /\ IsFiniteSet(Units(in)) /\ IsFiniteSet(Units(out))
          /\ Cardinality(Units(in)) \in Nat /\ Cardinality(Units(out)) \in Nat
          /\ position[u].shares + Cardinality(Units(in)) >= held[u] + Cardinality(Units(out))
      <3>1. IsFiniteSet(Units(in)) /\ IsFiniteSet(Units(out))
        BY DEF Balanced
      <3>2. Cardinality(Units(in)) \in Nat /\ Cardinality(Units(out)) \in Nat
        BY <3>1, FS_CardinalityType
      <3>3. QED
        BY <3>1, <3>2 DEF Balanced, PositionTyped
    <2>7. t.user = u => position'[u] = after(position[u], t)
      BY <1>4 DEF PositionTyped
    <2>8. CASE t.user = u /\ t.kind = "deposit"
      <3>1. in' = in \ {t} /\ t \in in /\ out' = out
        BY <2>3, <2>4, <2>8
      <3>2. position'[u].shares = position[u].shares + t.shares
        BY <2>7, <2>8 DEF after
      <3>3. /\ IsFiniteSet(Units(in \ {t}))
            /\ Cardinality(Units(in)) = Cardinality(Units(in \ {t})) + t.shares
            /\ Cardinality(Units(in \ {t})) \in Nat
        BY <1>1, <2>6, <3>1, UnitsOfOneLess
      <3>4. position'[u].shares + Cardinality(Units(in \ {t})) >= held'[u] + Cardinality(Units(out))
        BY <1>1, <1>2, <2>6, <3>2, <3>3
      <3>5. QED
        BY <2>6, <3>1, <3>3, <3>4 DEF Balanced
    <2>9. CASE t.user = u /\ t.kind = "withdraw"
      <3>1. out' = out \ {t} /\ t \in out /\ in' = in
        BY <2>3, <2>4, <2>9
      <3>2. position'[u].shares >= position[u].shares - t.shares /\ position'[u].shares \in Nat
        BY <1>1, <2>6, <2>7, <2>9 DEF after
      <3>3. /\ IsFiniteSet(Units(out \ {t}))
            /\ Cardinality(Units(out)) = Cardinality(Units(out \ {t})) + t.shares
            /\ Cardinality(Units(out \ {t})) \in Nat
        BY <1>1, <2>6, <3>1, UnitsOfOneLess
      <3>4. position'[u].shares + Cardinality(Units(in)) >= held'[u] + Cardinality(Units(out \ {t}))
        BY <1>1, <1>2, <2>6, <3>2, <3>3
      <3>5. QED
        BY <2>6, <3>1, <3>3, <3>4 DEF Balanced
    <2>10. QED
      BY <1>1, <2>5, <2>8, <2>9
  <1>5. QED
    BY <1>3, <1>4 DEF Files, applyTransfer, alreadyRecorded, isRecorded

LEMMA StepKeepsBalance ==
  ASSUME RecordInv, PositionTyped, OnlySettled, OnlySettled', [Next]_vars,
         NEW u \in Users, Balanced(u)
  PROVE  Balanced(u)'
  <1>1. CASE Neither
    <2>1. position' = position /\ held' = held /\ \A kind : missing(u, kind)' = missing(u, kind)
      BY <1>1 DEF Neither, backend, missing, isRecorded
    <2>2. QED
      BY <2>1, BooksStand
  <1>2. QED
    BY <1>1, ThreeKindsOfStep, SettlingKeepsBalance, FilingKeepsBalance

LEMMA StepKeepsPositionTyped ==
  ASSUME RecordInv, PositionTyped, [Next]_vars
  PROVE  PositionTyped'
  <1>1. ASSUME NEW t \in Transfers, Settles(t) PROVE PositionTyped'
    <2>1. held' \in [Users -> Int]
      BY <1>1, TransfersAssumption DEF Settles, PositionTyped
    <2>2. QED
      BY <1>1, <2>1 DEF Settles, PositionTyped, backend
  <1>2. ASSUME NEW t \in Transfers, Files(t) PROVE PositionTyped'
    <2>1. ASSUME NEW p \in [shares : Nat, basis : Int] PROVE after(p, t) \in [shares : Nat, basis : Int]
      <3>1. p.shares \in Nat /\ p.basis \in Int /\ t.shares \in Nat /\ t.assets \in Nat
        BY TransfersAssumption
      <3>2. basisAfterRedemption(p.basis, p.shares, t.shares) \in Int
        <4>1. CASE p.basis <= 0 \/ p.shares <= 0 \/ t.shares >= p.shares
          BY <4>1 DEF basisAfterRedemption
        <4>2. CASE p.basis > 0 /\ p.shares > 0 /\ t.shares < p.shares
          <5>1. (p.basis * t.shares) \in Int
            BY <3>1
          <5>2. (p.basis * t.shares) \div p.shares \in Int
            BY <3>1, <4>2, <5>1
          <5>3. QED
            BY <3>1, <4>2, <5>2 DEF basisAfterRedemption
        <4>3. QED
          BY <3>1, <4>1, <4>2
      <3>3. QED
        BY <3>1, <3>2 DEF after
    <2>2. position' \in [Users -> [shares : Nat, basis : Int]]
      <3>1. CASE UNCHANGED backend
        BY <3>1 DEF PositionTyped, backend
      <3>2. CASE position' = [position EXCEPT ![t.user] = after(@, t)]
        BY <2>1, <3>2, TransfersAssumption DEF PositionTyped
      <3>3. QED
        BY <1>2, <3>1, <3>2 DEF Files, applyTransfer
    <2>3. QED
      BY <1>2, <2>2 DEF Files, PositionTyped
  <1>3. CASE Neither
    BY <1>3 DEF Neither, PositionTyped, backend
  <1>4. QED
    BY <1>1, <1>2, <1>3, ThreeKindsOfStep

LEMMA PositionStarts == Init => PositionInv
  <1> SUFFICES ASSUME Init PROVE PositionInv
    OBVIOUS
  <1>1. PositionTyped
    BY DEF Init, WalletInit, PositionTyped, NoPosition
  <1>2. TheSettled = {} /\ \A u \in Users : \A kind : missing(u, kind) = {}
    BY DEF Init, WalletInit, TheSettled, missing, settled, queued
  <1>3. \A t : ~Contains(<<>>, t)
    BY DEF Contains
  <1>4. OnlySettled
    BY <1>3 DEF Init, OnlySettled, NoRequest, isRecorded
  <1>5. Units({}) = {}
    BY DEF Units
  <1>6. ASSUME NEW u \in Users PROVE Balanced(u)
    <2>1. position[u].shares = 0 /\ held[u] = 0
      BY DEF Init, WalletInit, NoPosition
    <2>2. IsFiniteSet({}) /\ Cardinality({}) = 0
      BY FS_EmptySet
    <2>3. missing(u, "deposit") = {} /\ missing(u, "withdraw") = {}
      BY <1>2
    <2>4. 0 + 0 >= 0 + 0
      OBVIOUS
    <2>5. QED
      BY <1>5, <2>1, <2>2, <2>3, <2>4 DEF Balanced
  <1>7. QED
    BY <1>1, <1>4, <1>6 DEF PositionInv

(***************************************************************************)
(* Once every transfer of a user is on file, in whatever order they got    *)
(* there, the position states no fewer shares than the chain says they     *)
(* hold: the clamp at zero only errs one way (strategies.ts).              *)
(***************************************************************************)
THEOREM PositionsCoverTheHoldings == Spec => []PositionNeverBelowTheChain
  <1>1. RecordInv /\ RecordInv' /\ PositionInv /\ [Next]_vars => PositionInv'
    <2> SUFFICES ASSUME RecordInv, RecordInv', PositionInv, [Next]_vars PROVE PositionInv'
      OBVIOUS
    <2>1. OnlySettled'
      BY StepKeepsOnlySettled DEF PositionInv
    <2>2. PositionTyped'
      BY StepKeepsPositionTyped DEF PositionInv
    <2>3. \A u \in Users : Balanced(u)'
      BY <2>1, StepKeepsBalance DEF PositionInv
    <2>4. QED
      BY <2>1, <2>2, <2>3 DEF PositionInv
  <1>2. PositionInv => PositionNeverBelowTheChain
    <2> SUFFICES ASSUME PositionInv, NEW u \in Users, caughtUp(u) PROVE position[u].shares >= held[u]
      BY DEF PositionNeverBelowTheChain
    <2>1. \A kind : missing(u, kind) = {}
      BY DEF caughtUp, missing, settled
    <2>2. Units({}) = {} /\ Cardinality({}) = 0
      BY FS_EmptySet DEF Units
    <2>3. position[u].shares + 0 >= held[u] + 0
      BY <2>1, <2>2 DEF PositionInv, Balanced
    <2>4. QED
      BY <2>3 DEF PositionInv, PositionTyped
  <1>3. QED
    BY <1>1, <1>2, PositionStarts, RecordInvariant, PTL DEF Spec

=============================================================================
