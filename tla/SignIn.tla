-------------------------------- MODULE SignIn --------------------------------
(***************************************************************************)
(* frontend/src/components/AuthProvider.tsx with the signer of             *)
(* lib/wallet.ts, the token of lib/api.ts and the frame AppShell.tsx draws *)
(* round every page: one tab that signs in through Privy, over the server  *)
(* of Sessions.                                                            *)
(*                                                                         *)
(* React runs an effect after a render in which one of its dependencies    *)
(* changed: due holds the effects that are to run.  The exchange with the  *)
(* server (a proof) runs on whatever the page does meanwhile; only a       *)
(* reload stops it, and then the server still serves what was sent.        *)
(***************************************************************************)
EXTENDS Sessions

CONSTANTS
  NoWallet,
  MaxProofs,  \* proofs the tab starts in all
  MaxFaults,  \* things that go wrong in all
  MaxVisits,  \* sign-outs, reloads, links, renames and second deliveries in all
  Replays     \* requests that reach the server a second time

ASSUME NoWalletAssumption == NoWallet \notin Addresses
ASSUME MaxProofsAssumption == MaxProofs \in Nat /\ 1 .. MaxProofs \subseteq Requests
ASSUME ReplaysAssumption == Replays \subseteq Requests /\ Replays \cap 1 .. MaxProofs = {}

VARIABLES
  token,      \* attesta.session.token: an index of sessions, 0 for none
  kind,       \* attesta.wallet.kind is 'privy'
  active,     \* the signer of this page load
  hint,       \* the session-hint cookie says authenticated
  privy,      \* what usePrivy and useWallets report
  page,       \* AuthProvider's state, and the path shown
  refs,       \* and its refs
  due,        \* effects to run after this render
  restoring,  \* the token of a getMe in flight, 0 for none
  proof,      \* proofs in the order they were started; disowned is a history
              \* flag: the user signed out while it ran
  faults, visits

storage == <<token, kind, active, hint>>
react == <<page, refs, due>>
bounds == <<faults, visits>>
vars == <<server, storage, privy, react, restoring, proof, bounds>>

Effects == {"route", "resume", "complete"}
Started == DOMAIN proof
InFlight == {p \in Started : proof[p].stage \in {"challenging", "signing", "verifying"}}

NoPrivySession ==
  [ready |-> FALSE, authenticated |-> FALSE, wallet |-> NoWallet, modal |-> FALSE,
   leaving |-> FALSE]
LoadedPage == [status |-> "loading", user |-> NoWallet, phase |-> "idle", path |-> "/"]
PublicPaths == {"/", "/login"}
Paths == PublicPaths \cup {"/portfolio"}
LoadedRefs == [interactive |-> FALSE, requestedWallet |-> FALSE, proving |-> FALSE]

Init ==
  /\ ServerInit
  /\ token = 0 /\ kind = FALSE /\ active = NoWallet /\ hint = FALSE
  /\ privy = NoPrivySession
  /\ page = [LoadedPage EXCEPT !.status = "anonymous"]
  /\ refs = LoadedRefs
  /\ due = Effects
  /\ restoring = 0
  /\ proof = <<>>
  /\ faults = 0 /\ visits = 0

GoesWrong == faults < MaxFaults /\ faults' = faults + 1
signedOut == [page EXCEPT !.status = "anonymous", !.user = NoWallet, !.phase = "idle"]

Visit == visits < MaxVisits /\ visits' = visits + 1

-----------------------------------------------------------------------------
(***************************************************************************)
(* Rendering: what each effect depends on, and which are due next.         *)
(***************************************************************************)

dependencies(e) ==
  CASE e = "route"    -> <<page.status, page.path>>
    [] e = "resume"   -> <<page.phase, privy.ready, privy.authenticated>>
    [] e = "complete" -> <<page.phase, privy.ready, privy.authenticated, privy.wallet>>

\* Effects run in the order they are declared, a child's before its parent's.
mayRun(e) ==
  /\ e \in due
  /\ e = "resume" => "route" \notin due
  /\ e = "complete" => due = {"complete"}

Render(ran) == due' = (due \ ran) \cup {e \in Effects : dependencies(e)' # dependencies(e)}

-----------------------------------------------------------------------------
(***************************************************************************)
(* Where the visitor is: a private path needs a session.  The shell draws  *)
(* what the cookie says until the session is known, and then keeps the     *)
(* cookie in step.                                                         *)
(***************************************************************************)

\* Variant: nobody is sent away from a page that is private.
leavePrivate == page

redirected ==
  IF page.status = "anonymous" /\ page.path \notin PublicPaths
  THEN [page EXCEPT !.path = "/login"]
  ELSE IF page.status = "authenticated" /\ page.path = "/login"
  THEN [page EXCEPT !.path = "/"]
  ELSE page

Route ==
  /\ mayRun("route")
  /\ page' = redirected
  /\ hint' = IF page.status = "loading" THEN hint ELSE page.status = "authenticated"
  /\ UNCHANGED <<server, token, kind, active, privy, refs, restoring, proof, bounds>>
  /\ Render({"route"})

frame ==
  IF page.path = "/login" THEN "login"
  ELSE IF page.status = "authenticated" \/ (page.status = "loading" /\ hint) THEN "shell"
  ELSE IF page.path = "/" THEN "landing" ELSE "held"

\* A link of the sidebar.
Navigate ==
  /\ frame = "shell"
  /\ Visit
  /\ \E path \in Paths \ {"/login"} : page' = [page EXCEPT !.path = path]
  /\ UNCHANGED <<server, storage, privy, refs, restoring, proof, faults>>
  /\ Render({})

-----------------------------------------------------------------------------
(***************************************************************************)
(* Privy.  Its modal, its storage and its wallets are its own.             *)
(***************************************************************************)

\* Its provider has booted, with the session it remembers, if any; an outside
\* wallet may have been switched to another account meanwhile.
PrivyReady ==
  /\ ~privy.ready
  /\ \E w \in IF privy.wallet = NoWallet THEN {NoWallet} ELSE Addresses :
       privy' = [privy EXCEPT !.ready = TRUE, !.wallet = w]
  /\ UNCHANGED <<server, storage, page, refs, restoring, proof, bounds>>
  /\ Render({})

\* The modal ends with somebody logged in, with or without a wallet yet,
\* whatever the page has done since it opened; or it never does.
PrivyLogsIn ==
  /\ privy.ready /\ privy.modal
  /\ \E w \in Addresses \cup {NoWallet} :
       privy' = [privy EXCEPT !.authenticated = TRUE, !.wallet = w, !.modal = FALSE]
  /\ UNCHANGED <<server, storage, page, refs, restoring, proof, bounds>>
  /\ Render({})

\* createWallet succeeds, or the wallets list catches up by itself.
WalletArrives ==
  /\ privy.authenticated /\ privy.wallet = NoWallet
  /\ \E w \in Addresses : privy' = [privy EXCEPT !.wallet = w]
  /\ UNCHANGED <<server, storage, page, refs, restoring, proof, bounds>>
  /\ Render({})

PrivyEnds ==
  /\ privy.authenticated
  /\ privy' = [NoPrivySession EXCEPT !.ready = privy.ready]
  /\ UNCHANGED <<server, storage, page, refs, restoring, proof, visits>>
  /\ Render({})

\* logout answers, or fails and is only logged.
LogsOut == privy.leaving /\ PrivyEnds /\ UNCHANGED faults

LogoutFails ==
  /\ privy.leaving
  /\ GoesWrong
  /\ privy' = [privy EXCEPT !.leaving = FALSE]
  /\ UNCHANGED <<server, storage, react, restoring, proof, visits>>

\* The session Privy remembers has run out.
PrivyRunsOut == PrivyEnds /\ GoesWrong

-----------------------------------------------------------------------------
(***************************************************************************)
(* Restoring a session on load.                                            *)
(***************************************************************************)

\* A page load and its first effect.  Requests of the last page go unanswered.
Reload ==
  /\ Visit
  /\ active' = NoWallet
  /\ privy' = [privy EXCEPT !.ready = FALSE, !.modal = FALSE]
  /\ refs' = LoadedRefs
  /\ proof' = [p \in Started |-> IF p \in InFlight \/ proof[p].stage = "funding"
                                    THEN [proof[p] EXCEPT !.stage = "gone"] ELSE proof[p]]
  /\ due' = Effects
  /\ \E path \in Paths :
       IF token # 0 /\ kind
       THEN /\ page' = [LoadedPage EXCEPT !.path = path, !.phase = "awaiting"]
            /\ restoring' = token
            /\ UNCHANGED token
       ELSE /\ page' = [LoadedPage EXCEPT !.path = path, !.status = "anonymous"]
            /\ restoring' = 0
            /\ token' = 0
  /\ UNCHANGED <<server, kind, hint, faults>>

\* getMe answers.  The signer it would be compared with was read at load,
\* when there is none.
Restored ==
  /\ restoring # 0
  /\ page' = [page EXCEPT !.user = resolveSession(restoring), !.status = "authenticated"]
  /\ restoring' = 0
  /\ UNCHANGED <<server, storage, privy, refs, proof, bounds>>
  /\ Render({})

\* It fails; a 401 (the database was replaced) also drops the token.
RestoringFails ==
  /\ restoring # 0
  /\ GoesWrong
  /\ token' \in {token, 0}
  /\ page' = [page EXCEPT !.user = NoWallet, !.status = "anonymous"]
  /\ restoring' = 0
  /\ UNCHANGED <<server, kind, active, hint, privy, refs, proof, visits>>
  /\ Render({})

-----------------------------------------------------------------------------
(***************************************************************************)
(* Signing in and out.                                                     *)
(***************************************************************************)

signInWithPrivyWallet ==
  /\ page.status # "authenticated" /\ page.phase = "idle"
  /\ refs' = [refs EXCEPT !.interactive = TRUE]
  /\ page' = [page EXCEPT !.phase = "awaiting"]
  /\ privy' = [privy EXCEPT !.modal = ~privy.authenticated]
  /\ UNCHANGED <<server, storage, restoring, proof, bounds>>
  /\ Render({})

\* Privy is authenticated although no session is held: an OAuth return.
Resume ==
  /\ mayRun("resume")
  /\ IF /\ page.phase = "idle" /\ token = 0
        /\ privy.ready /\ privy.authenticated
     THEN /\ refs' = [refs EXCEPT !.interactive = TRUE]
          /\ page' = [page EXCEPT !.phase = "awaiting"]
     ELSE UNCHANGED <<refs, page>>
  /\ UNCHANGED <<server, storage, privy, restoring, proof, bounds>>
  /\ Render({"resume"})

\* On a reload a Privy without a session ends ours; in the modal it is waited for.
withoutPrivySession ==
  /\ IF refs.interactive THEN UNCHANGED <<storage, page>>
     ELSE /\ token' = 0 /\ kind' = FALSE /\ active' = NoWallet
          /\ page' = signedOut
  /\ UNCHANGED <<hint, refs, proof>>

newProof ==
  [wallet |-> privy.wallet, stage |-> "challenging", nonce |-> 0, disowned |-> FALSE,
   interactive |-> refs.interactive]

\* Variant: a second proof is started beside the first.
ProveBeside ==
  /\ Len(proof) < MaxProofs
  /\ refs' = [refs EXCEPT !.proving = TRUE]
  /\ page' = [page EXCEPT !.phase = "signing"]
  /\ active' = privy.wallet /\ kind' = TRUE
  /\ proof' = Append(proof, newProof)
  /\ UNCHANGED <<token, hint>>

Prove ==
  IF refs.proving THEN UNCHANGED <<storage, page, refs, proof>>
  ELSE /\ Len(proof) < MaxProofs
       /\ refs' = [refs EXCEPT !.proving = TRUE]
       /\ page' = [page EXCEPT !.phase = "signing"]
       /\ active' = privy.wallet /\ kind' = TRUE
       /\ proof' = Append(proof, newProof)
       /\ UNCHANGED <<token, hint>>

requestWallet ==
  /\ refs' = [refs EXCEPT !.requestedWallet = TRUE]
  /\ UNCHANGED <<storage, page, proof>>

Complete ==
  /\ mayRun("complete")
  /\ \/ /\ page.phase # "awaiting" \/ ~privy.ready
        /\ UNCHANGED <<storage, page, refs, proof>>
     \/ /\ page.phase = "awaiting" /\ privy.ready
        /\ \/ ~privy.authenticated /\ withoutPrivySession
           \/ privy.authenticated /\ privy.wallet = NoWallet /\ requestWallet
           \/ privy.authenticated /\ privy.wallet # NoWallet /\ Prove
  /\ UNCHANGED <<server, privy, restoring, bounds>>
  /\ Render({"complete"})

\* Three minutes in one phase.
TimesOut ==
  /\ page.phase # "idle"
  /\ GoesWrong
  /\ page' = [page EXCEPT !.phase = "idle",
                          !.status = IF @ = "loading" THEN "anonymous" ELSE @]
  /\ UNCHANGED <<server, storage, privy, refs, restoring, proof, visits>>
  /\ Render({})

\* A button of the shell, which is there before the session is known; a getMe
\* in flight still answers.
signOut ==
  /\ frame = "shell"
  /\ Visit
  /\ token' = 0 /\ kind' = FALSE /\ active' = NoWallet
  /\ page' = [signedOut EXCEPT !.path = "/"]
  /\ refs' = LoadedRefs
  /\ privy' = [privy EXCEPT !.leaving = kind]
  /\ proof' = [p \in Started |-> IF p \in InFlight THEN [proof[p] EXCEPT !.disowned = TRUE]
                                                   ELSE proof[p]]
  /\ UNCHANGED <<server, hint, restoring, faults>>
  /\ Render({})

-----------------------------------------------------------------------------
(***************************************************************************)
(* A proof: ask for a nonce, sign it, hand the signature back.             *)
(***************************************************************************)

to(p, stage) == proof' = [proof EXCEPT ![p].stage = stage]

Challenged(p) ==
  /\ proof[p].stage = "challenging"
  /\ createChallenge(proof[p].wallet)
  /\ proof' = [proof EXCEPT ![p].stage = "signing", ![p].nonce = Len(challenge) + 1]
  /\ UNCHANGED <<users, sessions, verify, storage, privy, react, restoring, bounds>>

signatureOf(p) == [signer |-> proof[p].wallet, nonce |-> proof[p].nonce]

Sign(p) ==
  /\ proof[p].stage = "signing"
  /\ Verify(p, proof[p].wallet, signatureOf(p))
  /\ to(p, "verifying")
  /\ UNCHANGED <<challenge, users, sessions, storage, privy, react, restoring, bounds>>

\* The session is kept.
Land(p) ==
  /\ proof[p].stage = "verifying"
  /\ verify[p].stage = "answered" /\ verify[p].session # 0
  /\ token' = verify[p].session
  /\ page' = [page EXCEPT !.status = "authenticated", !.user = proof[p].wallet,
                          !.phase = "idle"]
  /\ refs' = [refs EXCEPT !.requestedWallet = FALSE, !.proving = FALSE]
  /\ to(p, IF proof[p].interactive THEN "funding" ELSE "landed")
  /\ UNCHANGED <<server, kind, active, hint, privy, restoring, bounds>>
  /\ Render({})

\* After a sign-in that somebody asked for, the faucet; it answers or fails.
Funded(p) ==
  /\ proof[p].stage = "funding"
  /\ page' = [page EXCEPT !.path = "/"]
  /\ to(p, "landed")
  /\ UNCHANGED <<server, storage, privy, refs, restoring, bounds>>
  /\ Render({})

\* Variant: a failed proof leaves its guard up.
FailKeepingGuard(p) ==
  /\ token' = 0 /\ kind' = FALSE /\ active' = NoWallet
  /\ page' = signedOut
  /\ refs' = [refs EXCEPT !.requestedWallet = FALSE]
  /\ to(p, "failed")
  /\ Render({})

\* Variant: a failed proof leaves the token of the session before it.
FailKeepingStorage(p) ==
  /\ page' = signedOut
  /\ refs' = [refs EXCEPT !.requestedWallet = FALSE, !.proving = FALSE]
  /\ to(p, "failed")
  /\ UNCHANGED <<token, kind, active>>
  /\ Render({})

\* The catch of the exchange.
Fail(p) ==
  /\ token' = 0 /\ kind' = FALSE /\ active' = NoWallet
  /\ page' = signedOut
  /\ refs' = [refs EXCEPT !.requestedWallet = FALSE, !.proving = FALSE]
  /\ to(p, "failed")
  /\ Render({})

\* The wallet will not sign, the server refuses, or a request or answer is lost.
Refused(p) ==
  /\ proof[p].stage = "verifying"
  /\ verify[p].stage = "answered" /\ verify[p].session = 0
  /\ UNCHANGED <<server, hint, privy, restoring, bounds>>
  /\ Fail(p)

CutOff(p) ==
  /\ p \in InFlight
  /\ GoesWrong
  /\ UNCHANGED <<server, hint, privy, restoring, visits>>
  /\ Fail(p)

-----------------------------------------------------------------------------
(***************************************************************************)
(* The server's own steps, a request delivered twice, and renaming.        *)
(***************************************************************************)

browser == <<storage, privy, react, restoring, proof>>

Replay(r) ==
  /\ \E p \in Started :
       /\ verify[p] # Idle
       /\ Verify(r, verify[p].signature.signer, verify[p].signature)
  /\ Visit
  /\ UNCHANGED <<challenge, users, sessions, browser, faults>>

Time(n) == Ageing(n) /\ GoesWrong /\ UNCHANGED <<browser, visits>>

Rename(name) ==
  /\ token # 0
  /\ Visit
  /\ setUsername(resolveSession(token), name)
  /\ UNCHANGED <<browser, faults>>

Serve(r) == (TryChallenge(r) \/ EnterSession(r)) /\ UNCHANGED <<browser, bounds>>

Effect == Route \/ Resume \/ Complete
Exchange(p) == Challenged(p) \/ Sign(p) \/ Land(p) \/ Refused(p) \/ Funded(p)

Next ==
  \/ PrivyReady \/ PrivyLogsIn \/ WalletArrives
  \/ LogsOut \/ LogoutFails \/ PrivyRunsOut
  \/ Reload \/ Restored \/ RestoringFails
  \/ signInWithPrivyWallet \/ signOut \/ TimesOut \/ Navigate
  \/ Effect
  \/ \E p \in Started : Exchange(p) \/ CutOff(p)
  \/ \E r \in Replays : Replay(r)
  \/ \E r \in Requests : Serve(r)
  \/ \E n \in Nonces : Time(n)
  \/ \E name \in Names : Rename(name)

Spec == Init /\ [][Next]_vars

(***************************************************************************)
(* Effects run, the server and Privy answer, and the wallet asked for is   *)
(* handed over.  Nobody has to click.                                      *)
(***************************************************************************)
FairSpec ==
  /\ Spec
  /\ WF_vars(Route) /\ WF_vars(Resume) /\ WF_vars(Complete)
  /\ WF_vars(PrivyReady) /\ WF_vars(Restored)
  /\ WF_vars(refs.requestedWallet /\ WalletArrives)
  /\ \A p \in 1 .. MaxProofs :
       /\ WF_vars(p \in Started /\ Exchange(p))
       /\ WF_vars(Serve(p))

=============================================================================
