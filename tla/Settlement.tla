----------------------------- MODULE Settlement -----------------------------
(***************************************************************************)
(* frontend/src/lib/settlement.ts and the recording routes of              *)
(* backend/src/routes/strategies.ts: a transfer the chain has settled is   *)
(* written down by the backend, however often it takes.                    *)
(*                                                                         *)
(* The browser keeps a queue in local storage, shared by its tabs and by   *)
(* whoever signs in.  A sender (the call that follows a transfer, or a     *)
(* flush of the queue) has one request out at a time; a request that is    *)
(* cut off may have reached the backend all the same, and then goes on     *)
(* there with nobody waiting for its answer.                               *)
(***************************************************************************)
EXTENDS Wallet, Positions

CONSTANT Flushes   \* flushes that may run at once

ASSUME FlushesAssumption == Flushes \cap Transfers = {}

VARIABLES
  queue,      \* attesta.transfers.unrecorded
  flush,      \* flushUnrecorded: what is left of the snapshot it took
  request,    \* each sender's request
  orphans,    \* requests the backend still serves for nobody
  recorded,   \* position_events, oldest first
  position    \* positions, by user

page == <<conditions, chain, shown, signedIn>>
backend == <<recorded, position>>
vars == <<walletVars, queue, flush, request, orphans, backend>>

Senders == Transfers \cup Flushes
Answers == {"ok", "unreachable", "401", "403", "409"}
NoRequest == [stage |-> "none"]

Init ==
  /\ WalletInit
  /\ queue = <<>>
  /\ flush = [f \in Flushes |-> <<>>]
  /\ request = [x \in Senders |-> NoRequest]
  /\ orphans = {}
  /\ recorded = <<>>
  /\ position = [u \in Users |-> NoPosition]

sent(t) == [stage |-> "sent", transfer |-> t, user |-> signedIn]
answered(x, answer) ==
  [request EXCEPT ![x] = [stage |-> "answered", transfer |-> @.transfer, answer |-> answer]]

\* Variant: taking one entry off the queue takes off all.
withoutAny(t) == <<>>

\* A hash is queued once, so that taking it off takes one entry off.
without(t) == RemoveFirst(queue, t)
enqueued(t) == IF Contains(queue, t) THEN queue ELSE Append(queue, t)

-----------------------------------------------------------------------------
(***************************************************************************)
(* The sessions, and the page as it was last fetched.                      *)
(***************************************************************************)

MoveMoney == WalletStep /\ UNCHANGED <<queue, flush, request, orphans, backend>>

SignIn(u) ==
  /\ signedIn # u
  /\ signedIn' = u
  /\ UNCHANGED <<conditions, chain, shown, job, queue, flush, request, orphans, backend>>

Refresh(u) ==
  /\ shown[u] # position[u].shares
  /\ shown' = [shown EXCEPT ![u] = position[u].shares]
  /\ UNCHANGED <<conditions, chain, signedIn, job, queue, flush, request, orphans, backend>>

-----------------------------------------------------------------------------
(***************************************************************************)
(* The backend: refuse what is already recorded, read the receipt (an      *)
(* await), refuse somebody else's, and record in one database transaction  *)
(* that looks again before it writes.                                      *)
(***************************************************************************)

alreadyRecorded(t) == Contains(recorded, t)

\* Variant: recorded without a second look.
applyTransferBlindly(t) ==
  /\ recorded' = Append(recorded, t)
  /\ position' = [position EXCEPT ![t.user] = after(@, t)]

applyTransfer(t) ==
  IF alreadyRecorded(t) THEN UNCHANGED backend
  ELSE /\ recorded' = Append(recorded, t)
       /\ position' = [position EXCEPT ![t.user] = after(@, t)]

Arrive(x) ==
  LET r == request[x] IN
  /\ r.stage = "sent"
  /\ request' = IF r.user = Nobody THEN answered(x, "401")
                ELSE IF alreadyRecorded(r.transfer) THEN answered(x, "409")
                ELSE [request EXCEPT ![x].stage = "reading"]
  /\ UNCHANGED <<walletVars, queue, flush, orphans, backend>>

recordTransfer(x) ==
  LET r == request[x] IN
  /\ r.stage = "reading"
  /\ IF r.user # r.transfer.user
     THEN request' = answered(x, "403") /\ UNCHANGED backend
     ELSE /\ request' = answered(x, IF alreadyRecorded(r.transfer) THEN "409" ELSE "ok")
          /\ applyTransfer(r.transfer)
  /\ UNCHANGED <<walletVars, queue, flush, orphans>>

ServeOrphan(r) ==
  /\ orphans' = orphans \ {r}
  /\ IF r.user # r.transfer.user THEN UNCHANGED backend ELSE applyTransfer(r.transfer)
  /\ UNCHANGED <<walletVars, queue, flush, request>>

\* The connection breaks: on the way, while the backend works, or on the way
\* back.  A request the backend is working on goes on without its sender.
orphaned(x) ==
  IF request[x].stage = "reading"
  THEN orphans' = orphans \cup {[transfer |-> request[x].transfer, user |-> request[x].user]}
  ELSE UNCHANGED orphans

Drop(x) ==
  /\ "drop" \in Faults
  /\ request[x].stage \in {"sent", "reading", "answered"}
  /\ request[x].stage = "answered" => request[x].answer # "unreachable"
  /\ request' = answered(x, "unreachable")
  /\ orphaned(x)
  /\ UNCHANGED <<walletVars, queue, flush, backend>>

-----------------------------------------------------------------------------
(***************************************************************************)
(* recordSettledTransfer: queue the hash, then attempt after attempt while *)
(* the failure looks transient.                                            *)
(***************************************************************************)

\* Variants: an expired session is final, every failed retry means the first
\* attempt got there.
refused(answer) == answer \in {"401", "403"}
doneOnRetry(t, answer) == answer = "ok" \/ job[t].attempt > 0

finalRefusal(answer) == answer = "403"
done(t, answer) == answer = "ok" \/ (answer = "409" /\ job[t].attempt > 0)
mayRetry(t) == job[t].attempt < LastAttempt[t]

Enqueue(t) ==
  /\ job[t].pc = "mined"
  /\ queue' = enqueued(t)
  /\ job' = [job EXCEPT ![t].pc = "sending"]
  /\ request' = [request EXCEPT ![t] = sent(t)]
  /\ UNCHANGED <<page, flush, orphans, backend>>

\* The toast the form ends with: settled, settled and still to be written
\* down, or failed.
outcome(t, answer) ==
  IF done(t, answer) THEN "recorded"
  ELSE IF answer = "unreachable" THEN "unrecorded"
  ELSE "failed"

Answered(t) ==
  LET answer == request[t].answer
      again  == answer = "unreachable" /\ mayRetry(t)
  IN
  /\ job[t].pc = "sending"
  /\ request[t].stage = "answered"
  /\ job' = [job EXCEPT ![t] = IF again THEN [pc |-> "waiting", attempt |-> @.attempt + 1]
                               ELSE [@ EXCEPT !.pc = outcome(t, answer)]]
  /\ queue' = IF outcome(t, answer) = "recorded" \/ finalRefusal(answer) THEN without(t) ELSE queue
  /\ request' = [request EXCEPT ![t] = NoRequest]
  /\ UNCHANGED <<page, flush, orphans, backend>>

Retry(t) ==
  /\ job[t].pc = "waiting"
  /\ job' = [job EXCEPT ![t].pc = "sending"]
  /\ request' = [request EXCEPT ![t] = sent(t)]
  /\ UNCHANGED <<page, queue, flush, orphans, backend>>

(***************************************************************************)
(* flushUnrecorded: every entry of the queue as it was when the flush      *)
(* began, one at a time.                                                   *)
(***************************************************************************)
sendNext(f, left) ==
  /\ flush' = [flush EXCEPT ![f] = left]
  /\ request' = [request EXCEPT ![f] = IF left = <<>> THEN NoRequest ELSE sent(Head(left))]

StartFlush(f) ==
  /\ f \in conditions.flushes
  /\ flush[f] = <<>>
  /\ queue # <<>>
  /\ sendNext(f, queue)
  /\ UNCHANGED <<page, job, queue, orphans, backend>>

Replayed(f) ==
  /\ request[f].stage = "answered"
  /\ queue' = IF request[f].answer \in {"ok", "409"} \/ finalRefusal(request[f].answer)
              THEN without(Head(flush[f])) ELSE queue
  /\ sendNext(f, Tail(flush[f]))
  /\ UNCHANGED <<page, job, orphans, backend>>

\* A tab is closed: local storage stays, and so does what was signed.  One that
\* closes before the receipt comes back has queued nothing: nothing in the
\* browser can bring that transfer back.
closed(t) == CASE inFlight(t) -> "refused"
               [] job[t].pc = "mined" -> "lost"
               [] job[t].pc \in {"sending", "waiting"} -> "closed"
               [] OTHER -> job[t].pc

Close ==
  /\ "close" \in Faults
  /\ \/ \E t \in Transfers : closed(t) # job[t].pc
     \/ \E x \in Senders : request[x].stage # "none"
  /\ job' = [t \in Transfers |-> [job[t] EXCEPT !.pc = closed(t)]]
  /\ flush' = [f \in Flushes |-> <<>>]
  /\ orphans' = orphans \cup
       {[transfer |-> request[x].transfer, user |-> request[x].user]
          : x \in {y \in Senders : request[y].stage = "reading"}}
  /\ request' = [x \in Senders |-> NoRequest]
  /\ UNCHANGED <<page, queue, backend>>

-----------------------------------------------------------------------------
Next ==
  \/ MoveMoney
  \/ \E t \in Transfers : Enqueue(t) \/ Answered(t) \/ Retry(t)
  \/ \E f \in Flushes : StartFlush(f) \/ Replayed(f)
  \/ \E x \in Senders : Arrive(x) \/ recordTransfer(x) \/ Drop(x)
  \/ \E r \in orphans : ServeOrphan(r)
  \/ \E u \in Users \cup {Nobody} : SignIn(u)
  \/ \E u \in Users : Refresh(u)
  \/ Close

Spec == Init /\ [][Next]_vars

\* In the end somebody is signed in for good, with a tab left open that flushes
\* the queue again and again, on a network that has stopped failing.
Calm == <>[](signedIn # Nobody) /\ <>[][~Close /\ \A x \in Senders : ~Drop(x)]_vars

FairSpec ==
  /\ Spec
  /\ Calm
  /\ \A t \in Transfers : WF_vars(Enqueue(t)) /\ WF_vars(Answered(t)) /\ WF_vars(Retry(t))
  /\ \A f \in Flushes : WF_vars(StartFlush(f)) /\ WF_vars(Replayed(f))
  /\ \A x \in Senders : WF_vars(Arrive(x)) /\ WF_vars(recordTransfer(x))

-----------------------------------------------------------------------------
(***************************************************************************)
(* What the investor is owed: a transfer that settled is on file, once,    *)
(* and is never reported as anything else.                                 *)
(***************************************************************************)
isRecorded(t) == Contains(recorded, t)
queued == {"sending", "waiting", "closed", "recorded", "unrecorded", "failed"}

(***************************************************************************)
(* A hash is recorded once, however many tabs, retries and abandoned       *)
(* requests present it at the same time; and what the investor is told was *)
(* recorded is on file, also when the answer that says so is a 409 to a    *)
(* retry.                                                                  *)
(***************************************************************************)
RecordedAsTold ==
  /\ \A i, j \in DOMAIN recorded : recorded[i] = recorded[j] => i = j
  /\ \A t \in Transfers : job[t].pc = "recorded" => isRecorded(t)

(***************************************************************************)
(* No settled transfer is lost: until it is on file it is in the queue,    *)
(* whatever tab closed and whatever answer was dropped.                    *)
(***************************************************************************)
NeverForgotten ==
  \A t \in Transfers : job[t].pc \in queued => isRecorded(t) \/ Contains(queue, t)

(***************************************************************************)
(* The clamp only ever errs one way: once every transfer of a user is on   *)
(* file, in whatever order they got there, the position states at least    *)
(* the shares the chain says they hold.                                    *)
(***************************************************************************)
caughtUp(u) == \A t \in Transfers : t.user = u /\ job[t].pc \in {"mined", "lost"} \cup queued => isRecorded(t)

PositionNeverBelowTheChain ==
  \A u \in Users : caughtUp(u) => position[u].shares >= held[u]

(***************************************************************************)
(* A transfer the tab lived to queue is on file in the end, where a page   *)
(* that flushes the queue is opened again and again.                       *)
(***************************************************************************)
eventuallyRecorded ==
  conditions.flushes # {} =>
    <>[](\A t \in Transfers : job[t].pc \in queued => isRecorded(t))

(***************************************************************************)
(* An allocation whose balances were found sufficient goes through to the  *)
(* vault, both writes of it, unless a call fails or another transfer of    *)
(* the wallet is under way: what was read still suffices when it is spent. *)
(***************************************************************************)
undisturbed == Faults \cap {"write", "quote", "overlap", "close"} = {}

checkedGoesThrough ==
  undisturbed => \A t \in Transfers :
    job[t].pc \in {"approving", "writing"} /\ isDeposit(t) => job'[t].pc # "refused"

\* Both ends of a transfer that was begun: into the vault, and onto the file.
TransfersGetThrough == [][checkedGoesThrough]_vars /\ eventuallyRecorded

-----------------------------------------------------------------------------
(***************************************************************************)
(* settlement.ts: "a hash that still will not record is left in the queue  *)
(* for flushUnrecorded to replay", and on final refusals: "None of those   *)
(* change on a replay, so the hash is dropped."  Every transfer here is    *)
(* genuine and a replay by its sender would record it, so none is dropped. *)
(***************************************************************************)
DroppedOnlyForGood ==
  \A t \in Transfers :
    job[t].pc \in {"unrecorded", "failed", "closed"} => isRecorded(t) \/ Contains(queue, t)

=============================================================================
