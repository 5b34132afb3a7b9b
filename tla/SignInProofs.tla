----------------------------- MODULE SignInProofs -----------------------------
(***************************************************************************)
(* Proofs about signing in, for any addresses and names, and however many  *)
(* nonces, exchanges, replays, visits and faults there are.                *)
(***************************************************************************)
EXTENDS SignInProperties, FiniteSetTheorems, TLAPS

-----------------------------------------------------------------------------
(***************************************************************************)
(* Types.                                                                  *)
(***************************************************************************)
Exchanging == {"challenging", "signing", "verifying"}
Ended == {"funding", "landed", "failed"}
Wallets == Addresses \cup {NoWallet}

Proofs == [wallet : Addresses, stage : Exchanging \cup Ended \cup {"gone"},
           nonce : 0 .. MaxNonces, disowned : BOOLEAN, interactive : BOOLEAN]
Phases == {"idle", "awaiting", "signing"}
Pages == [status : {"loading", "authenticated", "anonymous"}, user : Wallets, phase : Phases,
          path : Paths]
Privies == [ready : BOOLEAN, authenticated : BOOLEAN, wallet : Wallets, modal : BOOLEAN, leaving : BOOLEAN]
Refs == [interactive : BOOLEAN, requestedWallet : BOOLEAN, proving : BOOLEAN]

ChallengesTyped == challenge \in Seq(Challenges) /\ Len(challenge) <= MaxNonces
UsersTyped == users \in [Addresses -> Names \cup {NoName}]
SessionsTyped == sessions \in Seq([user : Addresses, nonce : Nat])
VerifyTyped ==
  /\ verify = [r \in Requests |-> verify[r]]
  /\ \A r \in Requests : verify[r].stage \in {"idle", "trying", "proved", "answered"}
ProofTyped == proof \in Seq(Proofs) /\ Len(proof) <= MaxProofs
TokenTyped == token \in 0 .. Len(sessions) /\ restoring \in 0 .. Len(sessions)
SignerTyped == kind \in BOOLEAN /\ active \in Wallets
PrivyTyped == privy \in Privies
PageTyped == page \in Pages /\ hint \in BOOLEAN
RefsTyped == refs \in Refs /\ due \subseteq Effects

Typed ==
  /\ ChallengesTyped /\ UsersTyped /\ SessionsTyped /\ VerifyTyped /\ ProofTyped
  /\ TokenTyped /\ SignerTyped /\ PrivyTyped /\ PageTyped /\ RefsTyped

-----------------------------------------------------------------------------
(***************************************************************************)
(* What is true of a verification in hand: the signature is one the tab    *)
(* made, its nonce was issued to its signer, and it is refused no sooner   *)
(* than that nonce is spent.                                               *)
(***************************************************************************)
spent(n) == challenge[n].consumed \/ challenge[n].age # "live"

Presented(r) ==
  LET s == verify[r].signature IN
  /\ s \in Signatures
  /\ s.nonce \in Nonces
  /\ challenge[s.nonce].address = s.signer
  /\ signed(s.signer, s.nonce)

Tries(r) ==
  /\ verify[r].address = verify[r].signature.signer
  /\ verify[r].left \subseteq Nonces
  /\ verify[r].signature.nonce \in verify[r].left \/ spent(verify[r].signature.nonce)

HasProved(r) ==
  /\ verify[r].address = verify[r].signature.signer
  /\ verify[r].nonce = verify[r].signature.nonce
  /\ challenge[verify[r].nonce].consumed

HasAnswered(r) ==
  /\ verify[r].session \in 0 .. Len(sessions)
  /\ verify[r].session = 0 => spent(verify[r].signature.nonce)
  /\ verify[r].session # 0 => sessions[verify[r].session].user = verify[r].signature.signer

InHand(r) ==
  /\ verify[r].stage = "idle" => verify[r] = Idle
  /\ verify[r].stage # "idle" => Presented(r)
  /\ verify[r].stage = "trying" => Tries(r)
  /\ verify[r].stage = "proved" => HasProved(r)
  /\ verify[r].stage = "answered" => HasAnswered(r)

VerifyInv == \A r \in Requests : InHand(r)

\* A nonce is in one hand: a request that has proved it, or a session.
OneHand ==
  /\ \A r, q \in Requests :
       verify[r].stage = "proved" /\ verify[q].stage = "proved" /\ verify[r].nonce = verify[q].nonce
         => r = q
  /\ \A r \in Requests, i \in DOMAIN sessions :
       verify[r].stage = "proved" => sessions[i].nonce # verify[r].nonce
  /\ \A i, j \in DOMAIN sessions : sessions[i].nonce = sessions[j].nonce => i = j

Bought ==
  \A i \in DOMAIN sessions :
    /\ sessions[i].nonce \in Nonces
    /\ challenge[sessions[i].nonce].consumed
    /\ challenge[sessions[i].nonce].address = sessions[i].user
    /\ signed(sessions[i].user, sessions[i].nonce)

\* An exchange in hand signs the nonce it was given, and waits for its own request.
ExchangeInv ==
  \A p \in Started :
    /\ proof[p].stage = "challenging" => proof[p].nonce = 0
    /\ proof[p].stage \in {"signing", "verifying"} =>
         /\ proof[p].nonce \in Nonces
         /\ challenge[proof[p].nonce].address = proof[p].wallet
    /\ proof[p].stage = "verifying" =>
         /\ verify[p].stage # "idle"
         /\ verify[p].signature = signatureOf(p)

ServerInv == VerifyInv /\ OneHand /\ Bought /\ ExchangeInv

-----------------------------------------------------------------------------
(***************************************************************************)
(* What is true of the tab.                                                *)
(***************************************************************************)
own == {p \in InFlight : ~proof[p].disowned}
letGo == {p \in Started : proof[p].disowned /\ proof[p].stage \in Ended}

GuardInv ==
  letGo = {} => /\ \A p, q \in own : p = q
                /\ own # {} => refs.proving

NoneDisowned == \A p \in Started : ~proof[p].disowned

SignerInv ==
  NoneDisowned =>
    /\ \A p \in InFlight : active = proof[p].wallet
    /\ page.phase = "awaiting" /\ ~refs.interactive => InFlight = {}
    /\ InFlight = {} /\ token # 0 /\ active # NoWallet => sessions[token].user = active

TabInv == GuardInv /\ SignerInv

Inv == Typed /\ ServerInv /\ TabInv

-----------------------------------------------------------------------------
(***************************************************************************)
(* The types are kept.                                                     *)
(***************************************************************************)
LEMMA RenderKeepsEffects ==
  ASSUME due \subseteq Effects, NEW ran, Render(ran)
  PROVE  due' \subseteq Effects
  BY DEF Render

LEMMA AgesAre == ToSet(Ages) = {"live", "expired", "stale", "purged"}
  BY DEF ToSet, Ages

LEMMA NewProofTyped ==
  ASSUME PrivyTyped, RefsTyped, privy.wallet # NoWallet
  PROVE  newProof \in Proofs
  <1>1. /\ privy.wallet \in Addresses /\ refs.interactive \in BOOLEAN
        /\ 0 \in 0 .. MaxNonces
    BY MaxNoncesAssumption DEF PrivyTyped, Privies, RefsTyped, Refs, Wallets
  <1>2. QED
    BY <1>1 DEF newProof, Proofs, Exchanging

LEMMA Elements ==
  ASSUME NEW S, NEW s \in Seq(S)
  PROVE  Len(s) \in Nat /\ DOMAIN s = 1 .. Len(s) /\ \A k \in 1 .. Len(s) : s[k] \in S
  OBVIOUS

LEMMA Appended ==
  ASSUME NEW S, NEW s \in Seq(S), NEW e \in S
  PROVE  /\ Append(s, e) \in Seq(S) /\ Len(Append(s, e)) = Len(s) + 1
         /\ \A k \in 1 .. Len(s) : Append(s, e)[k] = s[k]
         /\ Append(s, e)[Len(s) + 1] = e
  OBVIOUS

LEMMA Listed ==
  ASSUME NEW S, NEW n \in Nat, NEW f \in [1 .. n -> S]
  PROVE  f \in Seq(S) /\ Len(f) = n
  OBVIOUS

LEMMA StartedIs ==
  ASSUME ProofTyped
  PROVE  /\ Len(proof) \in Nat /\ Started = 1 .. Len(proof) /\ Started \subseteq Requests
         /\ \A p \in Started : proof[p] \in Proofs
         /\ proof \in [Started -> Proofs]
  BY MaxProofsAssumption DEF ProofTyped, Started

\* The exchanges are as many as before, some of them changed.
LEMMA ProofsTyped ==
  ASSUME ProofTyped, NEW f, proof' = [q \in Started |-> f[q]], \A q \in Started : f[q] \in Proofs
  PROVE  ProofTyped' /\ Started' = Started
  <1>1. proof' \in [1 .. Len(proof) -> Proofs]
    BY StartedIs
  <1>2. proof' \in Seq(Proofs) /\ Len(proof') = Len(proof)
    BY <1>1, Listed, StartedIs
  <1>3. QED
    BY <1>1, <1>2, StartedIs DEF ProofTyped, Started

LEMMA ToTyped ==
  ASSUME ProofTyped, NEW p \in Started, NEW s \in Exchanging \cup Ended \cup {"gone"}, to(p, s)
  PROVE  /\ ProofTyped' /\ Started' = Started
         /\ proof'[p] = [proof[p] EXCEPT !.stage = s]
         /\ \A q \in Started \ {p} : proof'[q] = proof[q]
  <1> DEFINE f == [q \in Started |-> IF q = p THEN [proof[p] EXCEPT !.stage = s] ELSE proof[q]]
  <1>1. proof' = f
    BY StartedIs DEF to
  <1>2. proof[p] \in Proofs
    BY StartedIs
  <1>3. [proof[p] EXCEPT !.stage = s] \in Proofs
    BY <1>2 DEF Proofs
  <1>4. \A q \in Started : f[q] \in Proofs
    BY <1>3, StartedIs
  <1>5. proof' = [q \in Started |-> f[q]]
    BY <1>1
  <1> HIDE DEF f
  <1>6. ProofTyped' /\ Started' = Started
    BY <1>4, <1>5, ProofsTyped
  <1>7. QED
    BY <1>1, <1>6 DEF f

ServerTyped == ChallengesTyped /\ UsersTyped /\ SessionsTyped /\ VerifyTyped

LEMMA ServerStays ==
  ASSUME ServerTyped, UNCHANGED server
  PROVE  ServerTyped'
  BY DEF ServerTyped, server, ChallengesTyped, UsersTyped, SessionsTyped, VerifyTyped

LEMMA NoWalletTyped ==
  /\ NoWallet \in Wallets /\ \A a \in Addresses : a \in Wallets
  /\ \A w \in Wallets : w = NoWallet \/ w \in Addresses
  /\ \A path \in Paths : path \in {"/", "/login", "/portfolio"}
  /\ "/" \in Paths /\ "/login" \in Paths
  BY DEF Wallets, Paths, PublicPaths

LEMMA SessionIs ==
  ASSUME SessionsTyped
  PROVE  /\ Len(sessions) \in Nat /\ DOMAIN sessions = 1 .. Len(sessions)
         /\ \A k \in 1 .. Len(sessions) : sessions[k].user \in Addresses /\ sessions[k].nonce \in Nat
  <1>1. /\ Len(sessions) \in Nat /\ DOMAIN sessions = 1 .. Len(sessions)
        /\ \A k \in 1 .. Len(sessions) : sessions[k] \in [user : Addresses, nonce : Nat]
    BY Elements DEF SessionsTyped
  <1>2. QED
    BY <1>1

\* Privy changes by itself.
LEMMA PrivyTypes ==
  ASSUME Typed, PrivyReady \/ PrivyLogsIn \/ WalletArrives \/ LogsOut \/ LogoutFails \/ PrivyRunsOut
  PROVE  Typed'
  <1>1. UNCHANGED <<server, storage, page, refs, restoring, proof>> /\ due' \subseteq Effects
    BY RenderKeepsEffects
       DEF PrivyReady, PrivyLogsIn, WalletArrives, LogsOut, LogoutFails, PrivyRunsOut, PrivyEnds, react,
           Typed, RefsTyped
  <1>2. privy \in Privies
    BY DEF Typed, PrivyTyped
  <1>3. privy' \in Privies
    <2>1. CASE PrivyReady
      <3>1. PICK w \in Wallets : privy' = [privy EXCEPT !.ready = TRUE, !.wallet = w]
        BY <2>1, NoWalletTyped DEF PrivyReady
      <3>2. QED
        BY <1>2, <3>1 DEF Privies
    <2>2. CASE PrivyLogsIn
      <3>1. PICK w \in Wallets : privy' = [privy EXCEPT !.authenticated = TRUE, !.wallet = w, !.modal = FALSE]
        BY <2>2, NoWalletTyped DEF PrivyLogsIn
      <3>2. QED
        BY <1>2, <3>1 DEF Privies
    <2>3. CASE WalletArrives
      <3>1. PICK w \in Wallets : privy' = [privy EXCEPT !.wallet = w]
        BY <2>3, NoWalletTyped DEF WalletArrives
      <3>2. QED
        BY <1>2, <3>1 DEF Privies
    <2>4. CASE LogsOut \/ PrivyRunsOut
      BY <1>2, <2>4, NoWalletTyped DEF LogsOut, PrivyRunsOut, PrivyEnds, NoPrivySession, Privies
    <2>5. CASE LogoutFails
      BY <1>2, <2>5 DEF LogoutFails, Privies
    <2>6. QED
      BY <2>1, <2>2, <2>3, <2>4, <2>5
  <1>4. ServerTyped'
    BY <1>1, ServerStays DEF Typed, ServerTyped
  <1>5. QED
    BY <1>1, <1>3, <1>4
       DEF Typed, ServerTyped, ProofTyped, TokenTyped, SignerTyped, PrivyTyped, PageTyped, RefsTyped,
           server, storage

\* The page and its refs change, nothing else does.
LEMMA PageTypes ==
  ASSUME Typed, UNCHANGED <<server, token, kind, active, proof>>,
         Route \/ Navigate \/ Restored \/ signInWithPrivyWallet \/ Resume \/ TimesOut
  PROVE  Typed'
  <1>1. page \in Pages /\ refs \in Refs /\ hint \in BOOLEAN /\ privy \in Privies
    BY DEF Typed, PageTyped, RefsTyped, PrivyTyped
  <1>2. due' \subseteq Effects
    BY RenderKeepsEffects DEF Route, Navigate, Restored, signInWithPrivyWallet, Resume, TimesOut, Typed, RefsTyped
  <1>3. /\ page' \in Pages /\ refs' \in Refs /\ hint' \in BOOLEAN /\ privy' \in Privies
        /\ restoring' \in {restoring, 0}
    <2>1. CASE Route
      <3>1. redirected \in Pages
        BY <1>1, NoWalletTyped DEF redirected, Pages
      <3>2. QED
        BY <1>1, <2>1, <3>1 DEF Route
    <2>2. CASE Navigate
      BY <1>1, <2>2 DEF Navigate, Pages, storage
    <2>3. CASE Restored
      <3>1. sessions[restoring].user \in Wallets
        BY <2>3, NoWalletTyped, SessionIs DEF Restored, Typed, TokenTyped
      <3>2. QED
        BY <1>1, <2>3, <3>1 DEF Restored, resolveSession, Pages, storage
    <2>4. CASE signInWithPrivyWallet
      BY <1>1, <2>4 DEF signInWithPrivyWallet, Pages, Phases, Refs, Privies, storage
    <2>5. CASE Resume
      BY <1>1, <2>5 DEF Resume, Pages, Phases, Refs, storage
    <2>6. CASE TimesOut
      BY <1>1, <2>6 DEF TimesOut, Pages, Phases, storage
    <2>7. QED
      BY <2>1, <2>2, <2>3, <2>4, <2>5, <2>6
  <1>4. ServerTyped'
    BY ServerStays DEF Typed, ServerTyped
  <1>5. token' \in 0 .. Len(sessions') /\ restoring' \in 0 .. Len(sessions')
    BY <1>3 DEF Typed, TokenTyped, server, SessionsTyped
  <1>6. QED
    BY <1>2, <1>3, <1>4, <1>5
       DEF Typed, ServerTyped, ProofTyped, TokenTyped, SignerTyped, PrivyTyped, PageTyped, RefsTyped

\* A load, a sign-out, an answer to the getMe that did not come.
LEMMA LeavingTypes ==
  ASSUME Typed, Reload \/ signOut \/ RestoringFails
  PROVE  Typed'
  <1>1. page \in Pages /\ refs \in Refs /\ hint \in BOOLEAN /\ privy \in Privies /\ kind \in BOOLEAN
    BY DEF Typed, PageTyped, RefsTyped, PrivyTyped, SignerTyped
  <1>2. due' \subseteq Effects
    BY RenderKeepsEffects DEF Reload, signOut, RestoringFails, Typed, RefsTyped
  <1>3. /\ page' \in Pages /\ refs' \in Refs /\ hint' \in BOOLEAN /\ privy' \in Privies
        /\ kind' \in BOOLEAN /\ active' \in {active, NoWallet}
        /\ token' \in {token, 0} /\ restoring' \in {restoring, token, 0}
        /\ UNCHANGED server
    <2>1. CASE Reload
      <3>1. LoadedRefs \in Refs /\ [privy EXCEPT !.ready = FALSE, !.modal = FALSE] \in Privies
        BY <1>1 DEF LoadedRefs, Refs, Privies
      <3>2. \A path \in Paths : /\ [LoadedPage EXCEPT !.path = path, !.phase = "awaiting"] \in Pages
                                /\ [LoadedPage EXCEPT !.path = path, !.status = "anonymous"] \in Pages
        BY NoWalletTyped DEF LoadedPage, Pages, Phases
      <3>3. QED
        BY <1>1, <2>1, <3>1, <3>2 DEF Reload
    <2>2. CASE signOut
      <3>1. LoadedRefs \in Refs /\ [privy EXCEPT !.leaving = kind] \in Privies
        BY <1>1 DEF LoadedRefs, Refs, Privies
      <3>2. [signedOut EXCEPT !.path = "/"] \in Pages
        BY <1>1, NoWalletTyped DEF signedOut, Pages, Phases
      <3>3. QED
        BY <1>1, <2>2, <3>1, <3>2 DEF signOut
    <2>3. CASE RestoringFails
      <3>1. [page EXCEPT !.user = NoWallet, !.status = "anonymous"] \in Pages
        BY <1>1, NoWalletTyped DEF Pages
      <3>2. QED
        BY <1>1, <2>3, <3>1 DEF RestoringFails
    <2>4. QED
      BY <2>1, <2>2, <2>3
  <1>4. ProofTyped'
    <2>1. CASE Reload
      <3> DEFINE f == [p \in Started |-> IF p \in InFlight \/ proof[p].stage = "funding"
                                         THEN [proof[p] EXCEPT !.stage = "gone"] ELSE proof[p]]
      <3>1. proof' = [q \in Started |-> f[q]]
        BY <2>1 DEF Reload
      <3>2. \A q \in Started : [proof[q] EXCEPT !.stage = "gone"] \in Proofs /\ proof[q] \in Proofs
        BY StartedIs DEF Typed, Proofs
      <3>3. \A q \in Started : f[q] \in Proofs
        BY <3>2
      <3> HIDE DEF f
      <3>4. QED
        BY <3>1, <3>3, ProofsTyped DEF Typed
    <2>2. CASE signOut
      <3> DEFINE f == [p \in Started |-> IF p \in InFlight THEN [proof[p] EXCEPT !.disowned = TRUE]
                                                           ELSE proof[p]]
      <3>1. proof' = [q \in Started |-> f[q]]
        BY <2>2 DEF signOut
      <3>2. \A q \in Started : [proof[q] EXCEPT !.disowned = TRUE] \in Proofs /\ proof[q] \in Proofs
        BY StartedIs DEF Typed, Proofs
      <3>3. \A q \in Started : f[q] \in Proofs
        BY <3>2
      <3> HIDE DEF f
      <3>4. QED
        BY <3>1, <3>3, ProofsTyped DEF Typed
    <2>3. CASE RestoringFails
      BY <2>3 DEF RestoringFails, Typed, ProofTyped
    <2>4. QED
      BY <2>1, <2>2, <2>3
  <1>5. ServerTyped'
    BY <1>3, ServerStays DEF Typed, ServerTyped
  <1>6. token' \in 0 .. Len(sessions') /\ restoring' \in 0 .. Len(sessions')
    <2>1. Len(sessions) \in Nat /\ sessions' = sessions
      BY <1>3, SessionIs DEF Typed, server
    <2>2. QED
      BY <1>3, <2>1 DEF Typed, TokenTyped
  <1>7. active' \in Wallets
    BY <1>3, NoWalletTyped DEF Typed, SignerTyped
  <1>8. QED
    BY <1>2, <1>3, <1>4, <1>5, <1>6, <1>7
       DEF Typed, ServerTyped, TokenTyped, SignerTyped, PrivyTyped, PageTyped, RefsTyped

LEMMA ProveTypes ==
  ASSUME Typed, Complete
  PROVE  Typed'
  <1>1. page \in Pages /\ refs \in Refs /\ hint \in BOOLEAN /\ kind \in BOOLEAN /\ active \in Wallets
    BY DEF Typed, PageTyped, RefsTyped, PrivyTyped, SignerTyped
  <1>2. due' \subseteq Effects
    BY RenderKeepsEffects DEF Complete, Typed, RefsTyped
  <1>3. UNCHANGED server /\ privy' = privy /\ restoring' = restoring
    BY DEF Complete
  <1>4. CASE ~privy.authenticated /\ withoutPrivySession
    <2>1. signedOut \in Pages
      BY <1>1, NoWalletTyped DEF signedOut, Pages, Phases
    <2>2. /\ page' \in Pages /\ refs' = refs /\ hint' = hint /\ proof' = proof /\ kind' \in BOOLEAN
          /\ active' \in Wallets /\ token' \in {0, token}
      BY <1>1, <1>4, <2>1, NoWalletTyped DEF withoutPrivySession, storage
    <2>3. QED
      BY <1>1, <1>2, <1>3, <2>2, ServerStays, SessionIs
         DEF Typed, ServerTyped, ProofTyped, TokenTyped, SignerTyped, PrivyTyped, PageTyped, RefsTyped, server
  <1>5. CASE requestWallet
    <2>1. [refs EXCEPT !.requestedWallet = TRUE] \in Refs
      BY <1>1 DEF Refs
    <2>2. QED
      BY <1>1, <1>2, <1>3, <1>5, <2>1, ServerStays
         DEF requestWallet, Typed, ServerTyped, ProofTyped, TokenTyped, SignerTyped, PrivyTyped, PageTyped,
             RefsTyped, server, storage
  <1>6. CASE UNCHANGED <<storage, page, refs, proof>>
    BY <1>1, <1>2, <1>3, <1>6, ServerStays
       DEF Typed, ServerTyped, ProofTyped, TokenTyped, SignerTyped, PrivyTyped, PageTyped, RefsTyped,
           server, storage
  <1>7. CASE privy.wallet # NoWallet /\ ~refs.proving /\ Prove
    <2>1. newProof \in Proofs
      BY <1>7, NewProofTyped DEF Typed
    <2>2. proof' \in Seq(Proofs) /\ Len(proof') <= MaxProofs
      BY <1>7, <2>1, MaxProofsAssumption DEF Prove, Typed, ProofTyped
    <2>3. [refs EXCEPT !.proving = TRUE] \in Refs /\ [page EXCEPT !.phase = "signing"] \in Pages
      BY <1>1 DEF Refs, Pages, Phases
    <2>4. privy.wallet \in Wallets
      BY DEF Typed, PrivyTyped, Privies
    <2>5. QED
      BY <1>1, <1>2, <1>3, <1>7, <2>2, <2>3, <2>4, ServerStays
         DEF Prove, Typed, ServerTyped, ProofTyped, TokenTyped, SignerTyped, PrivyTyped, PageTyped, RefsTyped,
             server
  <1>8. QED
    BY <1>4, <1>5, <1>6, <1>7 DEF Complete, Prove

LEMMA NoncesAre ==
  ASSUME ChallengesTyped
  PROVE  /\ Len(challenge) \in Nat /\ Nonces = 1 .. Len(challenge) /\ Nonces \subseteq 1 .. MaxNonces
         /\ \A n \in Nonces : challenge[n] \in Challenges
  <1>1. /\ Len(challenge) \in Nat /\ DOMAIN challenge = 1 .. Len(challenge)
        /\ \A n \in 1 .. Len(challenge) : challenge[n] \in Challenges
    BY Elements DEF ChallengesTyped
  <1>2. QED
    BY <1>1, MaxNoncesAssumption DEF ChallengesTyped, Nonces

\* An exchange that comes to its end, or goes on.
LEMMA EndingTypes ==
  ASSUME Typed, ServerInv, NEW p \in Started, Land(p) \/ Funded(p) \/ Refused(p) \/ CutOff(p)
  PROVE  Typed'
  <1>1. page \in Pages /\ refs \in Refs /\ hint \in BOOLEAN /\ kind \in BOOLEAN /\ active \in Wallets
    BY DEF Typed, PageTyped, RefsTyped, PrivyTyped, SignerTyped
  <1>2. proof[p] \in Proofs /\ p \in Requests
    BY StartedIs DEF Typed
  <1>3. UNCHANGED <<server, privy, restoring, hint>> /\ due' \subseteq Effects
    BY RenderKeepsEffects DEF Land, Funded, Refused, CutOff, Fail, storage, Typed, RefsTyped
  <1>4. /\ page' \in Pages /\ refs' \in Refs /\ kind' \in BOOLEAN /\ active' \in Wallets
        /\ token' \in 0 .. Len(sessions)
    <2>1. token \in 0 .. Len(sessions) /\ 0 \in 0 .. Len(sessions)
      BY SessionIs DEF Typed, TokenTyped
    <2>2. CASE Land(p)
      <3>1. verify[p].session \in 0 .. Len(sessions)
        BY <1>2, <2>2 DEF Land, ServerInv, VerifyInv, InHand, HasAnswered
      <3>2. proof[p].wallet \in Wallets
        BY <1>2, NoWalletTyped DEF Proofs
      <3>3. [page EXCEPT !.status = "authenticated", !.user = proof[p].wallet, !.phase = "idle"] \in Pages
        BY <1>1, <3>2 DEF Pages, Phases
      <3>4. [refs EXCEPT !.requestedWallet = FALSE, !.proving = FALSE] \in Refs
        BY <1>1 DEF Refs
      <3>5. QED
        BY <1>1, <2>2, <3>1, <3>3, <3>4 DEF Land
    <2>3. CASE Funded(p)
      <3>1. [page EXCEPT !.path = "/"] \in Pages
        BY <1>1, NoWalletTyped DEF Pages
      <3>2. QED
        BY <1>1, <2>1, <2>3, <3>1 DEF Funded, storage
    <2>4. CASE Fail(p)
      <3>1. signedOut \in Pages
        BY <1>1, NoWalletTyped DEF signedOut, Pages, Phases
      <3>2. [refs EXCEPT !.requestedWallet = FALSE, !.proving = FALSE] \in Refs
        BY <1>1 DEF Refs
      <3>3. QED
        BY <1>1, <2>1, <2>4, <3>1, <3>2, NoWalletTyped DEF Fail
    <2>5. QED
      BY <2>2, <2>3, <2>4 DEF Refused, CutOff
  <1>5. ProofTyped'
    <2>1. PICK s \in Ended : to(p, s)
      BY DEF Land, Funded, Refused, CutOff, Fail, Ended
    <2>2. QED
      BY <2>1, ToTyped DEF Typed
  <1>6. QED
    BY <1>3, <1>4, <1>5, ServerStays
       DEF Typed, ServerTyped, TokenTyped, SignerTyped, PrivyTyped, PageTyped, RefsTyped, server

-----------------------------------------------------------------------------
(***************************************************************************)
(* A challenge once issued keeps its address, and once spent stays spent.  *)
(***************************************************************************)
KeepsChallenges ==
  \A n \in Nonces :
    /\ n \in Nonces' /\ challenge'[n].address = challenge[n].address
    /\ challenge[n].consumed => challenge'[n].consumed
    /\ spent(n) => spent(n)'

LEMMA SameChallenges ==
  ASSUME UNCHANGED challenge
  PROVE  KeepsChallenges
  BY DEF KeepsChallenges, Nonces, spent

LEMMA ChallengesChanged ==
  ASSUME ChallengesTyped, NEW f, challenge' = [n \in Nonces |-> f[n]], \A n \in Nonces : f[n] \in Challenges
  PROVE  ChallengesTyped' /\ Nonces' = Nonces
  <1>1. challenge' \in [1 .. Len(challenge) -> Challenges]
    BY NoncesAre
  <1>2. challenge' \in Seq(Challenges) /\ Len(challenge') = Len(challenge)
    BY <1>1, Listed, NoncesAre
  <1>3. QED
    BY <1>1, <1>2, NoncesAre DEF ChallengesTyped, Nonces

LEMMA Issued ==
  ASSUME ChallengesTyped, NEW a \in Addresses, createChallenge(a)
  PROVE  /\ ChallengesTyped' /\ KeepsChallenges
         /\ Len(challenge) + 1 \in Nonces' /\ Len(challenge) + 1 \in 1 .. MaxNonces
         /\ challenge'[Len(challenge) + 1].address = a
  <1> DEFINE kept == purgeStaleChallenges
             purge(c) == IF c.age = "stale" THEN [c EXCEPT !.age = "purged"] ELSE c
  <1>1. kept = [n \in 1 .. Len(challenge) |-> purge(challenge[n])]
    BY NoncesAre DEF purgeStaleChallenges
  <1>2. \A c \in Challenges : /\ purge(c) \in Challenges /\ purge(c).address = c.address
                              /\ purge(c).consumed = c.consumed
                              /\ c.age # "live" => purge(c).age # "live"
    BY AgesAre DEF Challenges
  <1> HIDE DEF purge
  <1>3. kept \in [1 .. Len(challenge) -> Challenges]
    BY <1>1, <1>2, NoncesAre
  <1>4. kept \in Seq(Challenges) /\ Len(kept) = Len(challenge)
    BY <1>3, Listed, NoncesAre
  <1>5. fresh(a) \in Challenges
    BY AgesAre DEF fresh, Challenges
  <1>6. challenge' = Append(kept, fresh(a)) /\ Len(challenge) < MaxNonces
    BY DEF createChallenge
  <1> HIDE DEF kept
  <1>7. /\ challenge' \in Seq(Challenges) /\ Len(challenge') = Len(challenge) + 1
        /\ \A n \in 1 .. Len(challenge) : challenge'[n] = kept[n]
        /\ challenge'[Len(challenge) + 1] = fresh(a)
    BY <1>4, <1>5, <1>6, Appended
  <1>8. Len(challenge') \in Nat /\ Nonces' = 1 .. Len(challenge')
    BY <1>7, Elements DEF Nonces
  <1>9. ChallengesTyped' /\ Len(challenge) + 1 \in Nonces' /\ Len(challenge) + 1 \in 1 .. MaxNonces
    BY <1>6, <1>7, <1>8, NoncesAre, MaxNoncesAssumption DEF ChallengesTyped
  <1>10. \A n \in Nonces : n \in Nonces' /\ challenge'[n] = purge(challenge[n]) /\ challenge[n] \in Challenges
    BY <1>1, <1>7, <1>8, NoncesAre
  <1>11. KeepsChallenges
    BY <1>2, <1>10 DEF KeepsChallenges, spent
  <1>12. QED
    BY <1>7, <1>9, <1>11 DEF fresh

LEMMA Aged ==
  ASSUME ChallengesTyped, NEW n \in Nonces, Ageing(n)
  PROVE  ChallengesTyped' /\ KeepsChallenges
  <1> DEFINE next == [live |-> "expired", expired |-> "stale"]
             f == [m \in Nonces |-> IF m = n THEN [challenge[n] EXCEPT !.age = next[challenge[n].age]]
                                   ELSE challenge[m]]
  <1>1. challenge[n].age \in {"live", "expired"}
    BY DEF Ageing
  <1>2. next[challenge[n].age] \in {"expired", "stale"}
    BY <1>1
  <1>3. challenge' = f
    BY NoncesAre DEF Ageing, Nonces
  <1> HIDE DEF next
  <1>4. \A m \in Nonces : challenge[m] \in Challenges
    BY NoncesAre
  <1>5. /\ f[n] \in Challenges /\ f[n].address = challenge[n].address
        /\ f[n].consumed = challenge[n].consumed /\ f[n].age # "live"
    BY <1>2, <1>4, AgesAre DEF Challenges
  <1>6. \A m \in Nonces : f[m] \in Challenges /\ (m # n => f[m] = challenge[m])
    BY <1>4, <1>5
  <1>7. challenge' = [m \in Nonces |-> f[m]]
    BY <1>3
  <1> HIDE DEF f
  <1>8. ChallengesTyped' /\ Nonces' = Nonces
    BY <1>6, <1>7, ChallengesChanged
  <1>9. QED
    BY <1>3, <1>5, <1>6, <1>8 DEF KeepsChallenges, spent

\* Closing a nonce.
LEMMA Consumed ==
  ASSUME ChallengesTyped, NEW n \in Nonces, challenge' = [challenge EXCEPT ![n].consumed = TRUE]
  PROVE  /\ ChallengesTyped' /\ KeepsChallenges
         /\ challenge'[n].consumed /\ \A m \in Nonces \ {n} : challenge'[m] = challenge[m]
  <1> DEFINE f == [m \in Nonces |-> IF m = n THEN [challenge[n] EXCEPT !.consumed = TRUE] ELSE challenge[m]]
  <1>1. challenge' = f
    BY DEF Nonces
  <1>2. \A m \in Nonces : challenge[m] \in Challenges
    BY NoncesAre
  <1>3. /\ f[n] \in Challenges /\ f[n].address = challenge[n].address
        /\ f[n].consumed /\ f[n].age = challenge[n].age
    BY <1>2 DEF Challenges
  <1>4. \A m \in Nonces : f[m] \in Challenges /\ (m # n => f[m] = challenge[m])
    BY <1>2, <1>3
  <1>5. challenge' = [m \in Nonces |-> f[m]]
    BY <1>1
  <1> HIDE DEF f
  <1>6. ChallengesTyped' /\ Nonces' = Nonces
    BY <1>4, <1>5, ChallengesChanged
  <1>7. QED
    BY <1>1, <1>3, <1>4, <1>6 DEF KeepsChallenges, spent

-----------------------------------------------------------------------------
(***************************************************************************)
(* What else no step takes back: a signature made, a request in hand, a    *)
(* session bought.                                                         *)
(***************************************************************************)
KeepsSignatures == \A a, n : n # 0 /\ signed(a, n) => signed(a, n)'

KeepsSessions ==
  /\ Len(sessions') >= Len(sessions)
  /\ \A i \in 1 .. Len(sessions) : sessions'[i] = sessions[i]

KeepsRequests ==
  \A r \in Requests : verify[r].stage # "idle" =>
    verify'[r].stage # "idle" /\ verify'[r].signature = verify[r].signature

\* No exchange has reached a new stage but the ones that end it.
ExchangesGoOn ==
  /\ \A p \in Started :
       /\ p \in Started' /\ proof'[p].wallet = proof[p].wallet /\ proof'[p].nonce = proof[p].nonce
       /\ proof'[p].stage \in Exchanging => proof'[p].stage = proof[p].stage
  /\ \A p \in Started' \ Started : proof'[p].stage = "challenging" /\ proof'[p].nonce = 0

LEMMA SignaturesStay ==
  ASSUME ExchangesGoOn
  PROVE  KeepsSignatures
  BY DEF ExchangesGoOn, KeepsSignatures, signed

LEMMA StillInHand ==
  ASSUME Typed, KeepsChallenges, KeepsSignatures, KeepsSessions, SessionsTyped',
         NEW r \in Requests, InHand(r), verify'[r] = verify[r]
  PROVE  InHand(r)'
  <1>1. ASSUME verify[r].stage # "idle" PROVE Presented(r)'
    <2>1. verify[r].signature.nonce # 0
      BY <1>1, NoncesAre DEF Typed, InHand, Presented
    <2>2. QED
      BY <1>1, <2>1 DEF InHand, Presented, KeepsChallenges, KeepsSignatures
  <1>2. ASSUME verify[r].stage = "trying" PROVE Tries(r)'
    <2>1. Tries(r) /\ Presented(r)
      BY <1>2 DEF InHand
    <2>2. verify[r].signature.nonce \in Nonces
      BY <2>1 DEF Presented
    <2>3. spent(verify[r].signature.nonce) => spent(verify[r].signature.nonce)'
      BY <2>2 DEF KeepsChallenges
    <2>4. \A n \in verify[r].left : n \in Nonces'
      BY <2>1 DEF KeepsChallenges, Tries
    <2>5. QED
      BY <2>1, <2>3, <2>4 DEF Tries, spent
  <1>3. ASSUME verify[r].stage = "proved" PROVE HasProved(r)'
    <2>1. HasProved(r) /\ Presented(r)
      BY <1>3 DEF InHand
    <2>2. verify[r].nonce \in Nonces
      BY <2>1 DEF Presented, HasProved
    <2>3. QED
      BY <2>1, <2>2 DEF HasProved, KeepsChallenges
  <1>4. ASSUME verify[r].stage = "answered" PROVE HasAnswered(r)'
    <2>1. HasAnswered(r) /\ Presented(r)
      BY <1>4 DEF InHand
    <2>2. spent(verify[r].signature.nonce) => spent(verify[r].signature.nonce)'
      BY <2>1 DEF KeepsChallenges, Presented
    <2>3. Len(sessions) \in Nat /\ Len(sessions') \in Nat
      BY SessionIs, Elements DEF Typed, SessionsTyped
    <2>4. verify[r].session \in 0 .. Len(sessions')
      BY <2>1, <2>3 DEF HasAnswered, KeepsSessions
    <2>5. verify[r].session # 0 => sessions'[verify[r].session] = sessions[verify[r].session]
      BY <2>1, <2>3 DEF HasAnswered, KeepsSessions
    <2>6. QED
      BY <2>1, <2>2, <2>4, <2>5 DEF HasAnswered, spent
  <1>5. QED
    BY <1>1, <1>2, <1>3, <1>4 DEF InHand

LEMMA StillBought ==
  ASSUME Typed, Bought, KeepsChallenges, KeepsSignatures, UNCHANGED sessions
  PROVE  Bought'
  <1>1. \A i \in DOMAIN sessions : sessions[i].nonce # 0
    BY NoncesAre DEF Bought, Typed
  <1>2. QED
    BY <1>1 DEF Bought, KeepsChallenges, KeepsSignatures

LEMMA StillExchanging ==
  ASSUME Typed, ExchangeInv, KeepsChallenges, KeepsRequests, ExchangesGoOn
  PROVE  ExchangeInv'
  <1>1. SUFFICES ASSUME NEW p \in Started'
                 PROVE  /\ proof'[p].stage = "challenging" => proof'[p].nonce = 0
                        /\ proof'[p].stage \in {"signing", "verifying"} =>
                             /\ proof'[p].nonce \in Nonces'
                             /\ challenge'[proof'[p].nonce].address = proof'[p].wallet
                        /\ proof'[p].stage = "verifying" =>
                             /\ verify'[p].stage # "idle"
                             /\ verify'[p].signature = signatureOf(p)'
    BY DEF ExchangeInv
  <1>2. CASE p \in Started
    <2>1. p \in Requests
      BY <1>2, StartedIs DEF Typed
    <2>2. signatureOf(p)' = signatureOf(p)
      BY <1>2 DEF signatureOf, ExchangesGoOn
    <2>3. QED
      BY <1>2, <2>1, <2>2 DEF ExchangeInv, ExchangesGoOn, KeepsRequests, KeepsChallenges, Exchanging
  <1>3. CASE p \notin Started
    BY <1>1, <1>3 DEF ExchangesGoOn
  <1>4. QED
    BY <1>2, <1>3

(***************************************************************************)
(* Steps of the tab and of Privy: nothing at the server moves.             *)
(***************************************************************************)
LEMMA TheTabAlone ==
  ASSUME Typed, Typed', ServerInv, UNCHANGED server, ExchangesGoOn
  PROVE  ServerInv'
  <1>1. /\ challenge' = challenge /\ verify' = verify /\ sessions' = sessions
    BY DEF server
  <1>2. KeepsChallenges /\ KeepsSignatures /\ KeepsRequests
    BY <1>1, SameChallenges, SignaturesStay DEF KeepsRequests
  <1>3. KeepsSessions /\ SessionsTyped'
    BY <1>1, SessionIs DEF KeepsSessions, Typed
  <1>4. VerifyInv'
    BY <1>1, <1>2, <1>3, StillInHand DEF VerifyInv, ServerInv
  <1>5. Bought'
    BY <1>1, <1>2, StillBought DEF ServerInv
  <1>6. OneHand'
    BY <1>1 DEF ServerInv, OneHand
  <1>7. ExchangeInv'
    BY <1>2, StillExchanging DEF ServerInv
  <1>8. QED
    BY <1>4, <1>5, <1>6, <1>7 DEF ServerInv

-----------------------------------------------------------------------------
(***************************************************************************)
(* Steps of the server.                                                    *)
(***************************************************************************)
LEMMA BrowserTypesStay ==
  ASSUME Typed, ServerTyped', ProofTyped', Len(sessions') >= Len(sessions),
         UNCHANGED <<storage, privy, react, restoring>>
  PROVE  Typed'
  <1>1. Len(sessions) \in Nat /\ Len(sessions') \in Nat
    BY SessionIs, Elements DEF Typed, ServerTyped, SessionsTyped
  <1>2. token' \in 0 .. Len(sessions') /\ restoring' \in 0 .. Len(sessions')
    BY <1>1 DEF Typed, TokenTyped, storage
  <1>3. QED
    BY <1>2 DEF Typed, ServerTyped, TokenTyped, SignerTyped, PrivyTyped, PageTyped, RefsTyped, storage, react

LEMMA OneRequest ==
  ASSUME VerifyTyped, NEW r \in Requests, NEW x, verify' = [verify EXCEPT ![r] = x],
         x.stage \in {"idle", "trying", "proved", "answered"}
  PROVE  VerifyTyped' /\ verify'[r] = x /\ \A q \in Requests \ {r} : verify'[q] = verify[q]
  BY DEF VerifyTyped

LEMMA OtherRequests ==
  ASSUME Typed, VerifyInv, KeepsChallenges, KeepsSignatures, KeepsSessions, SessionsTyped',
         NEW r \in Requests, \A q \in Requests \ {r} : verify'[q] = verify[q], InHand(r)'
  PROVE  VerifyInv'
  <1>1. \A q \in Requests \ {r} : InHand(q)'
    BY StillInHand DEF VerifyInv
  <1>2. QED
    BY <1>1 DEF VerifyInv

\* A signature over a nonce that was issued to its signer is handed in.
LEMMA HandedIn ==
  ASSUME Typed, VerifyInv, OneHand, NEW r \in Requests, NEW s \in Signatures, s.nonce \in Nonces,
         challenge[s.nonce].address = s.signer, signed(s.signer, s.nonce),
         Verify(r, s.signer, s), KeepsSignatures, UNCHANGED <<challenge, sessions>>
  PROVE  /\ VerifyTyped' /\ VerifyInv' /\ OneHand' /\ KeepsRequests
         /\ verify'[r].stage # "idle" /\ verify'[r].signature = s
  <1> DEFINE left == outstandingChallenges(s.signer)
             refused == [stage |-> "answered", signature |-> s, session |-> 0]
             tried == [stage |-> "trying", address |-> s.signer, signature |-> s, left |-> left]
             x == IF left = {} THEN refused ELSE tried
  <1>1. verify[r] = Idle /\ verify' = [verify EXCEPT ![r] = x]
    BY DEF Verify
  <1>2. /\ refused.stage = "answered" /\ refused.signature = s /\ refused.session = 0
        /\ tried.stage = "trying" /\ tried.signature = s /\ tried.address = s.signer /\ tried.left = left
    OBVIOUS
  <1>3. /\ left \subseteq Nonces
        /\ s.nonce \in left \/ spent(s.nonce)
    BY NoncesAre DEF outstandingChallenges, spent, Typed, Challenges
  <1> HIDE DEF refused, tried, left
  <1>4. VerifyTyped' /\ verify'[r] = x /\ \A q \in Requests \ {r} : verify'[q] = verify[q]
    BY <1>1, <1>2, OneRequest DEF Typed
  <1>5. verify[r].stage = "idle"
    BY <1>1 DEF Idle
  <1>6. /\ verify'[r].stage \in {"trying", "answered"} /\ verify'[r].signature = s
        /\ verify'[r].stage = "trying" => verify'[r].address = s.signer /\ verify'[r].left = left
        /\ verify'[r].stage = "answered" => left = {} /\ verify'[r].session = 0
    BY <1>2, <1>4
  <1> HIDE DEF x
  <1>7. s.nonce # 0
    BY NoncesAre DEF Typed
  <1>8. Presented(r)'
    BY <1>6, <1>7 DEF Presented, KeepsSignatures, Nonces
  <1>9. verify'[r].stage = "trying" => Tries(r)'
    BY <1>3, <1>6 DEF Tries, Nonces, spent
  <1>10. verify'[r].stage = "answered" => HasAnswered(r)'
    BY <1>3, <1>6, SessionIs DEF HasAnswered, spent, Typed
  <1>11. InHand(r)'
    BY <1>6, <1>8, <1>9, <1>10 DEF InHand
  <1>12. KeepsChallenges /\ KeepsSessions /\ SessionsTyped'
    BY SameChallenges, SessionIs DEF KeepsSessions, Typed, SessionsTyped
  <1>13. VerifyInv'
    BY <1>4, <1>11, <1>12, OtherRequests
  <1>14. OneHand'
    <2>1. \A q \in Requests : verify'[q].stage = "proved" => verify'[q] = verify[q]
      BY <1>4, <1>6
    <2>2. QED
      BY <2>1 DEF OneHand
  <1>15. KeepsRequests
    BY <1>4, <1>5, <1>6 DEF KeepsRequests
  <1>16. QED
    BY <1>4, <1>6, <1>13, <1>14, <1>15

LEMMA SignKeeps ==
  ASSUME Typed, ServerInv, NEW p \in Started, Sign(p)
  PROVE  Typed' /\ ServerInv'
  <1>1. /\ p \in Requests /\ proof[p] \in Proofs
        /\ proof[p].nonce \in Nonces /\ challenge[proof[p].nonce].address = proof[p].wallet
    BY StartedIs DEF Sign, ServerInv, ExchangeInv, Typed
  <1> DEFINE s == signatureOf(p)
  <1>2. s.signer = proof[p].wallet /\ s.nonce = proof[p].nonce
    BY DEF signatureOf
  <1>3. s \in Signatures
    BY <1>1, NoncesAre DEF signatureOf, Signatures, Proofs, Typed
  <1>4. signed(s.signer, s.nonce)
    BY <1>2 DEF signed
  <1>5. to(p, "verifying") /\ Verify(p, s.signer, s)
    BY <1>2 DEF Sign
  <1> HIDE DEF s
  <1>6. /\ UNCHANGED <<challenge, users, sessions, storage, privy, react, restoring>>
    BY DEF Sign
  <1>7. /\ ProofTyped' /\ Started' = Started
        /\ proof'[p] = [proof[p] EXCEPT !.stage = "verifying"]
        /\ \A q \in Started \ {p} : proof'[q] = proof[q]
    BY <1>5, ToTyped DEF Exchanging, Typed
  <1>8. /\ proof'[p].stage = "verifying" /\ proof'[p].wallet = proof[p].wallet
        /\ proof'[p].nonce = proof[p].nonce
    BY <1>1, <1>7 DEF Proofs
  <1>9. KeepsSignatures
    BY <1>7, <1>8 DEF KeepsSignatures, signed
  <1>10. /\ VerifyTyped' /\ VerifyInv' /\ OneHand' /\ KeepsRequests
         /\ verify'[p].stage # "idle" /\ verify'[p].signature = s
    BY <1>1, <1>2, <1>3, <1>4, <1>5, <1>6, <1>9, HandedIn DEF ServerInv
  <1>11. ServerTyped'
    BY <1>6, <1>10 DEF Typed, ServerTyped, ChallengesTyped, UsersTyped, SessionsTyped
  <1>12. Typed'
    BY <1>6, <1>7, <1>11, BrowserTypesStay, SessionIs DEF Typed
  <1>13. Bought'
    BY <1>6, <1>9, SameChallenges, StillBought DEF ServerInv
  <1>14. ExchangeInv'
    <2>1. signatureOf(p)' = s
      BY <1>8 DEF signatureOf, s
    <2>2. \A q \in Started \ {p} : q \in Requests /\ signatureOf(q)' = signatureOf(q)
      BY <1>7, StartedIs DEF signatureOf, Typed
    <2>3. challenge' = challenge /\ Nonces' = Nonces
      BY <1>6 DEF Nonces
    <2>4. ASSUME NEW q \in Started \ {p}
          PROVE  proof'[q].stage = "verifying" =>
                   verify'[q].stage # "idle" /\ verify'[q].signature = signatureOf(q)'
      BY <1>7, <1>10, <2>2 DEF ServerInv, ExchangeInv, KeepsRequests
    <2>5. ASSUME NEW q \in Started \ {p}
          PROVE  /\ proof'[q].stage = "challenging" => proof'[q].nonce = 0
                 /\ proof'[q].stage \in {"signing", "verifying"} =>
                      /\ proof'[q].nonce \in Nonces'
                      /\ challenge'[proof'[q].nonce].address = proof'[q].wallet
      BY <1>7, <2>3 DEF ServerInv, ExchangeInv
    <2>6. /\ proof'[p].stage = "verifying"
          /\ proof'[p].nonce \in Nonces'
          /\ challenge'[proof'[p].nonce].address = proof'[p].wallet
          /\ verify'[p].stage # "idle" /\ verify'[p].signature = signatureOf(p)'
      BY <1>1, <1>8, <1>10, <2>1, <2>3
    <2>7. QED
      BY <1>7, <2>4, <2>5, <2>6 DEF ExchangeInv
  <1>15. QED
    BY <1>10, <1>12, <1>13, <1>14 DEF ServerInv

LEMMA ReplayKeeps ==
  ASSUME Typed, ServerInv, NEW r \in Replays, Replay(r)
  PROVE  Typed' /\ ServerInv'
  <1>1. r \in Requests
    BY ReplaysAssumption
  <1>2. PICK p \in Started : /\ verify[p] # Idle
                             /\ Verify(r, verify[p].signature.signer, verify[p].signature)
    BY DEF Replay
  <1>3. p \in Requests /\ Presented(p)
    BY <1>2, StartedIs DEF Typed, ServerInv, VerifyInv, InHand
  <1>4. UNCHANGED <<challenge, users, sessions, storage, privy, react, restoring, proof>>
    BY DEF Replay, browser
  <1>5. ExchangesGoOn /\ KeepsSignatures
    <2>1. ExchangesGoOn
      BY <1>4 DEF ExchangesGoOn, Started
    <2>2. QED
      BY <2>1, SignaturesStay
  <1>6. VerifyTyped' /\ VerifyInv' /\ OneHand' /\ KeepsRequests
    BY <1>1, <1>2, <1>3, <1>4, <1>5, HandedIn DEF ServerInv, Presented
  <1>7. ServerTyped' /\ ProofTyped'
    BY <1>4, <1>6 DEF Typed, ServerTyped, ChallengesTyped, UsersTyped, SessionsTyped, ProofTyped
  <1>8. Typed'
    BY <1>4, <1>7, BrowserTypesStay, SessionIs DEF Typed
  <1>9. Bought'
    BY <1>4, <1>5, SameChallenges, StillBought DEF ServerInv
  <1>10. ExchangeInv'
    BY <1>4, <1>5, <1>6, SameChallenges, StillExchanging DEF ServerInv
  <1>11. QED
    BY <1>6, <1>8, <1>9, <1>10 DEF ServerInv

LEMMA ChallengedKeeps ==
  ASSUME Typed, ServerInv, NEW p \in Started, Challenged(p)
  PROVE  Typed' /\ ServerInv'
  <1> DEFINE n == Len(challenge) + 1
             f == [q \in Started |-> IF q = p THEN [proof[p] EXCEPT !.stage = "signing", !.nonce = n]
                                     ELSE proof[q]]
  <1>1. /\ p \in Requests /\ proof[p] \in Proofs /\ proof[p].stage = "challenging" /\ proof[p].nonce = 0
        /\ proof[p].wallet \in Addresses
    BY StartedIs DEF Challenged, ServerInv, ExchangeInv, Typed, Proofs
  <1>2. createChallenge(proof[p].wallet)
        /\ UNCHANGED <<users, sessions, verify, storage, privy, react, restoring>>
    BY DEF Challenged
  <1>3. /\ ChallengesTyped' /\ KeepsChallenges
        /\ n \in Nonces' /\ n \in 1 .. MaxNonces
        /\ challenge'[n].address = proof[p].wallet
    BY <1>1, <1>2, Issued DEF Typed
  <1>4. proof' = f
    BY StartedIs DEF Challenged, Typed
  <1> HIDE DEF n
  <1>5. \A q \in Started : f[q] \in Proofs
    <2>0. n \in 0 .. MaxNonces
      BY <1>3, MaxNoncesAssumption
    <2>1. [proof[p] EXCEPT !.stage = "signing", !.nonce = n] \in Proofs
      BY <1>1, <2>0 DEF Proofs, Exchanging
    <2>2. QED
      BY <2>1, StartedIs DEF Typed
  <1>6. /\ f[p].stage = "signing" /\ f[p].nonce = n /\ f[p].wallet = proof[p].wallet
        /\ \A q \in Started \ {p} : f[q] = proof[q]
    BY <1>1 DEF Proofs
  <1>7. proof' = [q \in Started |-> f[q]]
    BY <1>4
  <1> HIDE DEF f
  <1>8. ProofTyped' /\ Started' = Started
    BY <1>5, <1>7, ProofsTyped DEF Typed
  <1>9. KeepsSignatures
    BY <1>1, <1>4, <1>6, <1>8 DEF KeepsSignatures, signed
  <1>10. KeepsSessions /\ SessionsTyped' /\ VerifyTyped' /\ UsersTyped' /\ sessions' = sessions
         /\ verify' = verify
    BY <1>2, SessionIs DEF Typed, KeepsSessions, SessionsTyped, VerifyTyped, UsersTyped
  <1>11. VerifyInv'
    BY <1>3, <1>9, <1>10, StillInHand DEF ServerInv, VerifyInv
  <1>12. Bought' /\ OneHand'
    BY <1>3, <1>9, <1>10, StillBought DEF ServerInv, OneHand
  <1>13. Typed'
    BY <1>2, <1>3, <1>8, <1>10, BrowserTypesStay, SessionIs DEF ServerTyped, Typed
  <1>14. ExchangeInv'
    <2>1. ASSUME NEW q \in Started \ {p}
          PROVE  /\ proof'[q].stage = "challenging" => proof'[q].nonce = 0
                 /\ proof'[q].stage \in {"signing", "verifying"} =>
                      /\ proof'[q].nonce \in Nonces'
                      /\ challenge'[proof'[q].nonce].address = proof'[q].wallet
      BY <1>3, <1>4, <1>6 DEF ServerInv, ExchangeInv, KeepsChallenges
    <2>2. ASSUME NEW q \in Started \ {p}
          PROVE  proof'[q].stage = "verifying" =>
                   verify'[q].stage # "idle" /\ verify'[q].signature = signatureOf(q)'
      BY <1>4, <1>6, <1>10 DEF ServerInv, ExchangeInv, signatureOf
    <2>3. /\ proof'[p].stage = "signing" /\ proof'[p].nonce \in Nonces'
          /\ challenge'[proof'[p].nonce].address = proof'[p].wallet
      BY <1>3, <1>4, <1>6
    <2>4. QED
      BY <1>8, <2>1, <2>2, <2>3 DEF ExchangeInv
  <1>15. QED
    BY <1>11, <1>12, <1>13, <1>14 DEF ServerInv

\* The clock and a change of name.
LEMMA TimeAndNamesKeep ==
  ASSUME Typed, ServerInv, (\E n \in Nonces : Time(n)) \/ (\E name \in Names : Rename(name))
  PROVE  Typed' /\ ServerInv'
  <1>1. UNCHANGED <<sessions, verify, storage, privy, react, restoring, proof>>
    BY DEF Time, Ageing, Rename, setUsername, browser
  <1>2. ChallengesTyped' /\ KeepsChallenges
    <2>1. CASE \E n \in Nonces : Time(n)
      BY <2>1, Aged DEF Time, Typed
    <2>2. CASE \E name \in Names : Rename(name)
      BY <2>2, SameChallenges DEF Rename, setUsername, Typed, ChallengesTyped
    <2>3. QED
      BY <2>1, <2>2
  <1>3. UsersTyped'
    BY DEF Time, Ageing, Rename, setUsername, UsersTyped, Typed
  <1>4. KeepsSessions /\ SessionsTyped' /\ VerifyTyped' /\ ProofTyped'
    BY <1>1, SessionIs DEF Typed, KeepsSessions, SessionsTyped, VerifyTyped, ProofTyped
  <1>5. ExchangesGoOn /\ KeepsRequests
    BY <1>1 DEF ExchangesGoOn, Started, KeepsRequests
  <1>6. KeepsSignatures
    BY <1>5, SignaturesStay
  <1>7. VerifyInv'
    BY <1>1, <1>2, <1>4, <1>6, StillInHand DEF ServerInv, VerifyInv
  <1>8. Bought' /\ OneHand'
    BY <1>1, <1>2, <1>6, StillBought DEF ServerInv, OneHand
  <1>9. ExchangeInv'
    BY <1>2, <1>5, StillExchanging DEF ServerInv
  <1>10. Typed'
    BY <1>1, <1>2, <1>3, <1>4, BrowserTypesStay, SessionIs DEF ServerTyped, Typed
  <1>11. QED
    BY <1>7, <1>8, <1>9, <1>10 DEF ServerInv

\* A turn of the loop over the outstanding nonces.
LEMMA TryKeeps ==
  ASSUME Typed, ServerInv, NEW r \in Requests, TryChallenge(r), UNCHANGED <<browser, bounds>>
  PROVE  Typed' /\ ServerInv'
  <1> DEFINE v == verify[r]
             s == verify[r].signature
  <1>1. /\ v.stage = "trying" /\ Presented(r) /\ Tries(r)
    BY DEF TryChallenge, ServerInv, VerifyInv, InHand
  <1>2. s \in Signatures /\ s.nonce \in Nonces /\ v.left \subseteq Nonces
    BY <1>1 DEF Presented, Tries
  <1>3. /\ UNCHANGED <<users, sessions, proof>> /\ UNCHANGED <<storage, privy, react, restoring>>
    BY DEF TryChallenge, browser
  <1>4. ExchangesGoOn /\ KeepsSessions /\ SessionsTyped' /\ UsersTyped' /\ ProofTyped'
    BY <1>3, SessionIs
       DEF ExchangesGoOn, Started, KeepsSessions, Typed, SessionsTyped, UsersTyped, ProofTyped
  <1>5. KeepsSignatures
    BY <1>4, SignaturesStay
  <1>6. SUFFICES ASSUME /\ KeepsChallenges /\ ChallengesTyped'
                        /\ VerifyTyped' /\ InHand(r)' /\ OneHand' /\ KeepsRequests
                        /\ \A q \in Requests \ {r} : verify'[q] = verify[q]
                 PROVE  Typed' /\ ServerInv'
    <2>1. PICK n \in v.left :
            IF recovers(s, n, v.address) /\ mayConsume(n)
            THEN /\ challenge' = [challenge EXCEPT ![n].consumed = TRUE]
                 /\ verify' = [verify EXCEPT ![r] = [stage |-> "proved", signature |-> @.signature,
                                                    address |-> @.address, nonce |-> n]]
            ELSE /\ verify' = IF v.left # {n} THEN [verify EXCEPT ![r].left = @ \ {n}]
                              ELSE [verify EXCEPT ![r] =
                                [stage |-> "answered", signature |-> @.signature, session |-> 0]]
                 /\ UNCHANGED challenge
      BY DEF TryChallenge
    <2>2. n \in Nonces
      BY <1>2, <2>1
    <2>3. CASE recovers(s, n, v.address) /\ mayConsume(n)
      <3> DEFINE x == [stage |-> "proved", signature |-> s, address |-> v.address, nonce |-> n]
      <3>1. verify' = [verify EXCEPT ![r] = x] /\ challenge' = [challenge EXCEPT ![n].consumed = TRUE]
        BY <2>1, <2>3 DEF Typed, VerifyTyped
      <3>2. x.stage = "proved" /\ x.signature = s /\ x.address = v.address /\ x.nonce = n
        OBVIOUS
      <3> HIDE DEF x
      <3>3. VerifyTyped' /\ verify'[r] = x /\ \A q \in Requests \ {r} : verify'[q] = verify[q]
        BY <3>1, <3>2, OneRequest DEF Typed
      <3>4. /\ ChallengesTyped' /\ KeepsChallenges /\ challenge'[n].consumed
        BY <2>2, <3>1, Consumed DEF Typed
      <3>5. s.nonce = n /\ ~challenge[n].consumed /\ v.address = s.signer
        BY <1>1, <2>3 DEF recovers, mayConsume, Tries
      <3>6. s.nonce # 0 /\ s.nonce \in Nonces'
        BY <1>2, <3>4, NoncesAre DEF Typed, KeepsChallenges
      <3>7. Presented(r)'
        BY <1>1, <1>5, <3>2, <3>3, <3>4, <3>6 DEF Presented, KeepsSignatures, KeepsChallenges
      <3>8. HasProved(r)'
        BY <3>2, <3>3, <3>4, <3>5 DEF HasProved
      <3>9. InHand(r)'
        BY <3>2, <3>3, <3>7, <3>8 DEF InHand
      <3>10. \A q \in Requests : verify[q].stage = "proved" => verify[q].nonce # n
        BY <3>5 DEF ServerInv, VerifyInv, InHand, HasProved
      <3>11. \A i \in DOMAIN sessions : sessions[i].nonce # n
        BY <3>5 DEF ServerInv, Bought
      <3>12. OneHand'
        <4>1. \A q, t \in Requests :
                verify'[q].stage = "proved" /\ verify'[t].stage = "proved" /\ verify'[q].nonce = verify'[t].nonce
                  => q = t
          BY <3>2, <3>3, <3>10 DEF ServerInv, OneHand
        <4>2. \A q \in Requests, i \in DOMAIN sessions' :
                verify'[q].stage = "proved" => sessions'[i].nonce # verify'[q].nonce
          BY <1>3, <3>2, <3>3, <3>11 DEF ServerInv, OneHand
        <4>3. QED
          BY <1>3, <4>1, <4>2 DEF ServerInv, OneHand
      <3>13. KeepsRequests
        BY <3>2, <3>3 DEF KeepsRequests
      <3>14. QED
        BY <1>6, <3>3, <3>4, <3>9, <3>12, <3>13
    <2>4. CASE ~(recovers(s, n, v.address) /\ mayConsume(n))
      <3> DEFINE going == [v EXCEPT !.left = @ \ {n}]
                 refused == [stage |-> "answered", signature |-> s, session |-> 0]
                 x == IF v.left # {n} THEN going ELSE refused
      <3>1. verify' = [verify EXCEPT ![r] = x] /\ challenge' = challenge
        <4>1. CASE v.left # {n}
          BY <2>1, <2>4, <4>1
        <4>2. CASE v.left = {n}
          BY <2>1, <2>4, <4>2
        <4>3. QED
          BY <4>1, <4>2
      <3>2. /\ refused.stage = "answered" /\ refused.signature = s /\ refused.session = 0
        OBVIOUS
      <3>3. going.stage = "trying" /\ going.signature = s /\ going.address = v.address
        BY <1>1
      <3>4. x.stage = "trying" => v.left # {n}
        BY <3>2
      <3>5. n = s.nonce => spent(n)
        BY <1>1, <1>2, <2>4, NoncesAre, AgesAre DEF recovers, mayConsume, Tries, spent
      <3>6. \A m \in going.left : m \in v.left
        OBVIOUS
      <3>7. s.nonce \in v.left \ {n} \/ spent(s.nonce)
        BY <1>1, <3>5 DEF Tries
      <3>8. going.left = v.left \ {n} \/ going.left = v.left
        OBVIOUS
      <3>9. s.nonce \in going.left \/ spent(s.nonce)
        BY <3>7, <3>8
      <3>10. v.left = {n} => spent(s.nonce)
        BY <3>7
      <3> HIDE DEF going, refused
      <3>11. x.stage \in {"trying", "answered"} /\ x.signature = s
        BY <3>2, <3>3
      <3>12. VerifyTyped' /\ verify'[r] = x /\ \A q \in Requests \ {r} : verify'[q] = verify[q]
        BY <3>1, <3>11, OneRequest DEF Typed
      <3>13. KeepsChallenges /\ ChallengesTyped' /\ Nonces' = Nonces
        BY <3>1, SameChallenges DEF Typed, ChallengesTyped, Nonces
      <3>14. Presented(r)'
        BY <1>1, <1>3, <3>1, <3>11, <3>12, <3>13 DEF Presented, signed, Started
      <3>15. verify'[r].stage = "trying" => Tries(r)'
        <4>1. SUFFICES ASSUME v.left # {n} PROVE Tries(r)'
          BY <3>4, <3>12
        <4>2. verify'[r] = going
          BY <3>12, <4>1
        <4>3. verify'[r].address = verify'[r].signature.signer
          BY <1>1, <3>3, <4>2 DEF Tries
        <4>4. verify'[r].left \subseteq Nonces'
          BY <1>2, <3>6, <3>13, <4>2
        <4>5. s.nonce \in verify'[r].left \/ spent(s.nonce)'
          BY <3>1, <3>3, <3>9, <4>2 DEF spent
        <4>6. QED
          BY <3>3, <4>2, <4>3, <4>4, <4>5 DEF Tries, spent
      <3>16. verify'[r].stage = "answered" => HasAnswered(r)'
        <4>1. SUFFICES ASSUME v.left = {n} PROVE HasAnswered(r)'
          BY <3>3, <3>12
        <4>2. verify'[r] = refused
          BY <3>12, <4>1
        <4>3. 0 \in 0 .. Len(sessions')
          BY <1>3, SessionIs DEF Typed
        <4>4. QED
          BY <3>1, <3>2, <3>10, <4>1, <4>2, <4>3 DEF HasAnswered, spent
      <3>17. InHand(r)'
        BY <3>11, <3>12, <3>14, <3>15, <3>16 DEF InHand
      <3>18. OneHand'
        <4>1. \A q \in Requests : verify'[q].stage = "proved" => verify'[q] = verify[q]
          BY <3>11, <3>12
        <4>2. QED
          BY <1>3, <4>1 DEF ServerInv, OneHand
      <3>19. KeepsRequests
        BY <3>11, <3>12 DEF KeepsRequests
      <3>20. QED
        BY <1>6, <3>12, <3>13, <3>17, <3>18, <3>19
    <2>5. QED
      BY <2>3, <2>4
  <1>7. VerifyInv'
    BY <1>4, <1>5, <1>6, OtherRequests DEF ServerInv
  <1>8. Bought' /\ ExchangeInv'
    BY <1>3, <1>4, <1>5, <1>6, StillBought, StillExchanging DEF ServerInv
  <1>9. Typed'
    BY <1>3, <1>4, <1>6, BrowserTypesStay, SessionIs DEF ServerTyped, Typed
  <1>10. QED
    BY <1>6, <1>7, <1>8, <1>9 DEF ServerInv

\* The account and the session; or a name that is taken.
LEMMA EnterKeeps ==
  ASSUME Typed, ServerInv, NEW r \in Requests, EnterSession(r), UNCHANGED <<browser, bounds>>
  PROVE  Typed' /\ ServerInv'
  <1> DEFINE v == verify[r]
             s == verify[r].signature
             k == Len(sessions) + 1
             refused == [stage |-> "answered", signature |-> s, session |-> 0]
             admitted == [stage |-> "answered", signature |-> s, session |-> k]
             bought == [user |-> v.address, nonce |-> v.nonce]
  <1>1. v.stage = "proved" /\ Presented(r) /\ HasProved(r)
    BY DEF EnterSession, ServerInv, VerifyInv, InHand
  <1>2. /\ s \in Signatures /\ s.nonce \in Nonces /\ v.nonce = s.nonce /\ v.address = s.signer
        /\ v.address \in Addresses /\ challenge[s.nonce].consumed
        /\ challenge[s.nonce].address = s.signer /\ signed(s.signer, s.nonce)
    BY <1>1 DEF Presented, HasProved, Signatures
  <1>3. UNCHANGED <<challenge, proof>> /\ UNCHANGED <<storage, privy, react, restoring>>
    BY DEF EnterSession, browser
  <1>4. /\ ChallengesTyped' /\ KeepsChallenges /\ ProofTyped' /\ ExchangesGoOn /\ Nonces' = Nonces
    BY <1>3, SameChallenges DEF Typed, ChallengesTyped, ProofTyped, ExchangesGoOn, Started, Nonces
  <1>5. KeepsSignatures
    BY <1>4, SignaturesStay
  <1>8. SUFFICES ASSUME /\ VerifyTyped' /\ UsersTyped' /\ SessionsTyped' /\ KeepsSessions
                        /\ \A q \in Requests \ {r} : verify'[q] = verify[q]
                        /\ verify'[r].stage = "answered" /\ verify'[r].signature = s
                        /\ HasAnswered(r)' /\ OneHand' /\ Bought'
                 PROVE  Typed' /\ ServerInv'
    <2>1. CASE users[v.address] = NoName /\ taken(shortAddress[v.address])
      <3>1. verify' = [verify EXCEPT ![r] = refused] /\ UNCHANGED <<users, sessions>>
        BY <2>1 DEF EnterSession
      <3>2. refused.stage = "answered" /\ refused.signature = s /\ refused.session = 0
        OBVIOUS
      <3> HIDE DEF refused
      <3>3. VerifyTyped' /\ verify'[r] = refused /\ \A q \in Requests \ {r} : verify'[q] = verify[q]
        BY <3>1, <3>2, OneRequest DEF Typed
      <3>4. UsersTyped' /\ SessionsTyped' /\ KeepsSessions /\ 0 \in 0 .. Len(sessions')
        BY <3>1, SessionIs DEF Typed, UsersTyped, SessionsTyped, KeepsSessions
      <3>5. HasAnswered(r)'
        BY <1>2, <1>3, <3>2, <3>3, <3>4 DEF HasAnswered, spent
      <3>6. OneHand'
        <4>1. \A q \in Requests : verify'[q].stage = "proved" => verify'[q] = verify[q]
          BY <3>2, <3>3
        <4>2. QED
          BY <3>1, <4>1 DEF ServerInv, OneHand
      <3>7. Bought'
        BY <1>4, <1>5, <3>1, StillBought DEF ServerInv
      <3>8. QED
        BY <1>8, <3>2, <3>3, <3>4, <3>5, <3>6, <3>7
    <2>2. CASE ~(users[v.address] = NoName /\ taken(shortAddress[v.address]))
      <3>1. /\ verify' = [verify EXCEPT ![r] = admitted]
            /\ users' = [users EXCEPT ![v.address] = IF @ = NoName THEN shortAddress[v.address] ELSE @]
            /\ sessions' = Append(sessions, bought)
        BY <2>2 DEF EnterSession
      <3>2. /\ admitted.stage = "answered" /\ admitted.signature = s /\ admitted.session = k
            /\ bought.user = v.address /\ bought.nonce = v.nonce
        OBVIOUS
      <3>3. bought \in [user : Addresses, nonce : Nat]
        BY <1>2, NoncesAre DEF Typed
      <3> HIDE DEF admitted, bought
      <3>4. VerifyTyped' /\ verify'[r] = admitted /\ \A q \in Requests \ {r} : verify'[q] = verify[q]
        BY <3>1, <3>2, OneRequest DEF Typed
      <3>5. UsersTyped'
        BY <1>2, <3>1, ShortAddressAssumption DEF Typed, UsersTyped
      <3>6. /\ SessionsTyped' /\ Len(sessions') = k /\ sessions'[k] = bought
            /\ \A i \in 1 .. Len(sessions) : sessions'[i] = sessions[i]
        BY <3>1, <3>3, Appended DEF Typed, SessionsTyped
      <3>7. /\ Len(sessions) \in Nat /\ DOMAIN sessions = 1 .. Len(sessions)
            /\ DOMAIN sessions' = 1 .. k
        BY <3>6, SessionIs, Elements DEF Typed, SessionsTyped
      <3>8. KeepsSessions /\ k \in 0 .. Len(sessions')
        BY <3>6, <3>7 DEF KeepsSessions
      <3>9. HasAnswered(r)'
        BY <1>2, <3>2, <3>4, <3>6, <3>7, <3>8 DEF HasAnswered
      <3>10. \A i \in 1 .. k : i \in DOMAIN sessions \/ i = k
        BY <3>7
      <3>11. \A i \in DOMAIN sessions : sessions[i].nonce # v.nonce
        BY <1>1 DEF ServerInv, OneHand
      <3>12. OneHand'
        <4>1. \A q \in Requests : verify'[q].stage = "proved" => q # r /\ verify'[q] = verify[q]
          BY <3>2, <3>4
        <4>2. \A q \in Requests : q # r /\ verify[q].stage = "proved" => verify[q].nonce # v.nonce
          BY <1>1 DEF ServerInv, OneHand
        <4>3. ASSUME NEW q \in Requests, NEW i \in 1 .. k, verify'[q].stage = "proved"
              PROVE  sessions'[i].nonce # verify'[q].nonce
          <5>1. CASE i = k
            BY <3>2, <3>6, <4>1, <4>2, <4>3, <5>1
          <5>2. CASE i \in DOMAIN sessions
            BY <3>6, <3>7, <4>1, <4>3, <5>2 DEF ServerInv, OneHand
          <5>3. QED
            BY <3>10, <5>1, <5>2
        <4>4. ASSUME NEW i \in 1 .. k, NEW j \in 1 .. k, sessions'[i].nonce = sessions'[j].nonce
              PROVE  i = j
          <5>1. CASE i \in DOMAIN sessions /\ j \in DOMAIN sessions
            BY <3>6, <3>7, <4>4, <5>1 DEF ServerInv, OneHand
          <5>2. CASE i = k /\ j \in DOMAIN sessions
            BY <3>2, <3>6, <3>7, <3>11, <4>4, <5>2
          <5>3. CASE j = k /\ i \in DOMAIN sessions
            BY <3>2, <3>6, <3>7, <3>11, <4>4, <5>3
          <5>4. QED
            BY <3>10, <5>1, <5>2, <5>3
        <4>5. QED
          BY <3>7, <4>1, <4>3, <4>4 DEF ServerInv, OneHand
      <3>13. Bought'
        <4>1. Started' = Started /\ proof' = proof
          BY <1>3 DEF Started
        <4>2. ASSUME NEW i \in 1 .. k
              PROVE  /\ sessions'[i].nonce \in Nonces'
                     /\ challenge'[sessions'[i].nonce].consumed
                     /\ challenge'[sessions'[i].nonce].address = sessions'[i].user
                     /\ signed(sessions[i].user, sessions[i].nonce)'
          <5>1. CASE i = k
            <6>1. sessions'[i].nonce = s.nonce /\ sessions'[i].user = s.signer
              BY <1>2, <3>2, <3>6, <5>1
            <6>2. signed(sessions[i].user, sessions[i].nonce)'
              BY <1>2, <4>1, <6>1 DEF signed
            <6>3. QED
              BY <1>2, <1>3, <1>4, <6>1, <6>2
          <5>2. CASE i \in DOMAIN sessions
            <6>1. sessions'[i] = sessions[i]
              BY <3>6, <3>7, <5>2
            <6>2. signed(sessions[i].user, sessions[i].nonce)'
              BY <4>1, <5>2, <6>1 DEF signed, ServerInv, Bought
            <6>3. QED
              BY <1>3, <1>4, <5>2, <6>1, <6>2 DEF ServerInv, Bought
          <5>3. QED
            BY <3>10, <5>1, <5>2
        <4>3. QED
          BY <3>7, <4>2 DEF Bought
      <3>14. QED
        BY <1>8, <3>2, <3>4, <3>5, <3>6, <3>8, <3>9, <3>12, <3>13
    <2>3. QED
      BY <2>1, <2>2
  <1>9. Presented(r)'
    BY <1>2, <1>3, <1>4, <1>8 DEF Presented, signed, Started
  <1>10. InHand(r)'
    BY <1>8, <1>9 DEF InHand
  <1>11. VerifyInv'
    BY <1>4, <1>5, <1>8, <1>10, OtherRequests DEF ServerInv
  <1>12. KeepsRequests
    BY <1>8 DEF KeepsRequests
  <1>13. ExchangeInv'
    BY <1>4, <1>12, StillExchanging DEF ServerInv
  <1>14. Typed'
    BY <1>3, <1>4, <1>8, BrowserTypesStay DEF ServerTyped, KeepsSessions
  <1>15. QED
    BY <1>8, <1>11, <1>13, <1>14 DEF ServerInv

-----------------------------------------------------------------------------
(***************************************************************************)
(* Steps of the tab: which exchanges are in flight, and who signs.         *)
(***************************************************************************)
\* The exchanges are as they were, but for what they wait for.
SameExchanges ==
  /\ Started' = Started /\ InFlight' = InFlight /\ letGo' = letGo
  /\ \A p \in Started : /\ proof'[p].wallet = proof[p].wallet
                        /\ proof'[p].disowned = proof[p].disowned

LEMMA SameProofs ==
  ASSUME UNCHANGED proof
  PROVE  SameExchanges
  BY DEF SameExchanges, Started, InFlight, letGo

LEMMA NothingBegun ==
  ASSUME Typed, TabInv, SameExchanges, KeepsSessions,
         refs'.proving = refs.proving, active' = active, token' \in {token, 0},
         page'.phase = "awaiting" /\ ~refs'.interactive => page.phase = "awaiting" /\ ~refs.interactive
  PROVE  TabInv'
  <1>1. own' = own
    BY DEF own, SameExchanges, InFlight
  <1>2. NoneDisowned' <=> NoneDisowned
    BY DEF NoneDisowned, SameExchanges
  <1>3. GuardInv'
    BY <1>1 DEF GuardInv, TabInv, SameExchanges
  <1>4. token' # 0 => token' = token /\ sessions'[token'] = sessions[token]
    BY SessionIs DEF Typed, TokenTyped, KeepsSessions
  <1>5. SignerInv'
    <2>1. SUFFICES ASSUME NoneDisowned
                   PROVE  /\ \A p \in InFlight' : active' = proof'[p].wallet
                          /\ page'.phase = "awaiting" /\ ~refs'.interactive => InFlight' = {}
                          /\ InFlight' = {} /\ token' # 0 /\ active' # NoWallet
                               => sessions'[token'].user = active'
      BY <1>2 DEF SignerInv
    <2>2. \A p \in InFlight' : active' = proof'[p].wallet
      BY <2>1 DEF SameExchanges, InFlight, TabInv, SignerInv
    <2>3. QED
      BY <1>4, <2>1, <2>2 DEF SameExchanges, TabInv, SignerInv
  <1>6. QED
    BY <1>3, <1>5 DEF TabInv

\* An exchange that is over: what was its own leaves nobody at it.
LEMMA Over ==
  ASSUME Typed, TabInv, NEW p \in InFlight, NEW s \in Ended, to(p, s)
  PROVE  /\ Started' = Started /\ InFlight' = InFlight \ {p}
         /\ NoneDisowned' => NoneDisowned
         /\ letGo' = {} => letGo = {} /\ own' = {}
         /\ NoneDisowned => InFlight = {p} /\ InFlight' = {}
  <1>1. p \in Started /\ proof[p] \in Proofs /\ s \in Exchanging \cup Ended \cup {"gone"}
    BY StartedIs DEF InFlight, Typed
  <1>2. /\ Started' = Started
        /\ proof'[p] = [proof[p] EXCEPT !.stage = s]
        /\ \A q \in Started \ {p} : proof'[q] = proof[q]
    BY <1>1, ToTyped DEF Typed
  <1>3. proof'[p].stage = s /\ proof'[p].disowned = proof[p].disowned
    BY <1>1, <1>2 DEF Proofs
  <1>4. s \notin Exchanging
    BY DEF Exchanging, Ended
  <1>5. InFlight' = InFlight \ {p}
    BY <1>1, <1>2, <1>3, <1>4 DEF InFlight, Exchanging
  <1>6. NoneDisowned' => NoneDisowned
    BY <1>1, <1>2, <1>3 DEF NoneDisowned
  <1>7. ASSUME letGo' = {} PROVE letGo = {} /\ own' = {}
    <2>1. ~proof[p].disowned
      BY <1>1, <1>2, <1>3, <1>7 DEF letGo
    <2>2. letGo = {}
      BY <1>2, <1>3, <1>7, <2>1 DEF letGo
    <2>3. own = {p}
      BY <2>1, <2>2 DEF own, TabInv, GuardInv
    <2>4. own' = {}
      BY <1>2, <1>3, <1>5, <2>3 DEF own, InFlight
    <2>5. QED
      BY <2>2, <2>4
  <1>8. ASSUME NoneDisowned PROVE InFlight = {p} /\ InFlight' = {}
    <2>1. letGo = {} /\ own = InFlight
      BY <1>8 DEF letGo, NoneDisowned, own, InFlight
    <2>2. QED
      BY <1>5, <2>1 DEF TabInv, GuardInv
  <1>9. QED
    BY <1>2, <1>5, <1>6, <1>7, <1>8

LEMMA LandKeeps ==
  ASSUME Typed, ServerInv, TabInv, NEW p \in Started, Land(p)
  PROVE  TabInv'
  <1>1. p \in InFlight /\ p \in Requests /\ proof[p] \in Proofs
    BY StartedIs DEF Land, InFlight, Typed
  <1>2. PICK s \in Ended : to(p, s)
    BY DEF Land, Ended
  <1>3. GuardInv'
    BY <1>1, <1>2, Over DEF GuardInv
  <1>4. SignerInv'
    <2>1. SUFFICES ASSUME NoneDisowned
                   PROVE  SignerInv'
      BY <1>1, <1>2, Over DEF SignerInv
    <2>2. InFlight' = {} /\ active = proof[p].wallet
      BY <1>1, <1>2, <2>1, Over DEF TabInv, SignerInv
    <2>3. sessions[verify[p].session].user = verify[p].signature.signer
      BY <1>1 DEF Land, ServerInv, VerifyInv, InHand, HasAnswered
    <2>4. verify[p].signature.signer = proof[p].wallet
      <3>1. verify[p].signature = signatureOf(p)
        BY DEF Land, ServerInv, ExchangeInv
      <3>2. QED
        BY <3>1 DEF signatureOf
    <2>5. sessions'[token'].user = active'
      BY <2>2, <2>3, <2>4 DEF Land, server
    <2>6. QED
      BY <2>2, <2>5 DEF SignerInv
  <1>5. QED
    BY <1>3, <1>4 DEF TabInv

LEMMA FailKeeps ==
  ASSUME Typed, TabInv, NEW p \in InFlight, Fail(p)
  PROVE  TabInv'
  <1>1. PICK s \in Ended : to(p, s)
    BY DEF Fail, Ended
  <1>2. GuardInv'
    BY <1>1, Over DEF GuardInv
  <1>3. SignerInv'
    BY <1>1, Over DEF SignerInv, Fail
  <1>4. QED
    BY <1>2, <1>3 DEF TabInv

LEMMA ReloadKeeps ==
  ASSUME Typed, TabInv, Reload
  PROVE  TabInv'
  <1> DEFINE f == [p \in Started |-> IF p \in InFlight \/ proof[p].stage = "funding"
                                     THEN [proof[p] EXCEPT !.stage = "gone"] ELSE proof[p]]
  <1>1. proof' = f
    BY DEF Reload
  <1>2. Started' = Started
    BY <1>1 DEF Started
  <1>3. \A p \in Started : [proof[p] EXCEPT !.stage = "gone"].stage = "gone"
    BY StartedIs DEF Typed, Proofs
  <1>4. InFlight' = {}
    BY <1>1, <1>2, <1>3 DEF InFlight
  <1>5. QED
    BY <1>4 DEF TabInv, GuardInv, SignerInv, own, Reload

LEMMA SignOutKeeps ==
  ASSUME Typed, TabInv, signOut
  PROVE  TabInv'
  <1> DEFINE f == [p \in Started |-> IF p \in InFlight THEN [proof[p] EXCEPT !.disowned = TRUE]
                                                       ELSE proof[p]]
  <1>1. proof' = f
    BY DEF signOut
  <1>2. Started' = Started
    BY <1>1 DEF Started
  <1>3. \A p \in Started : /\ [proof[p] EXCEPT !.disowned = TRUE].disowned
                           /\ [proof[p] EXCEPT !.disowned = TRUE].stage = proof[p].stage
    BY StartedIs DEF Typed, Proofs
  <1>4. \A p \in InFlight' : proof'[p].disowned
    BY <1>1, <1>2, <1>3 DEF InFlight
  <1>5. own' = {}
    BY <1>4 DEF own, InFlight
  <1>6. NoneDisowned' => InFlight' = {}
    BY <1>4 DEF NoneDisowned, InFlight
  <1>7. active' = NoWallet
    BY DEF signOut
  <1>8. QED
    BY <1>5, <1>6, <1>7 DEF TabInv, GuardInv, SignerInv

LEMMA CompleteKeeps ==
  ASSUME Typed, TabInv, Complete
  PROVE  TabInv'
  <1>1. KeepsSessions
    BY SessionIs DEF KeepsSessions, Complete, server, Typed
  <1>2. CASE UNCHANGED <<storage, page, refs, proof>>
    BY <1>1, <1>2, SameProofs, NothingBegun DEF storage
  <1>3. CASE requestWallet
    <2>1. refs'.proving = refs.proving /\ refs'.interactive = refs.interactive
      BY <1>3 DEF requestWallet, Typed, RefsTyped, Refs
    <2>2. QED
      BY <1>1, <1>3, <2>1, SameProofs, NothingBegun DEF requestWallet, storage
  <1>4. CASE withoutPrivySession /\ ~refs.interactive
    <2>1. active' = NoWallet /\ refs' = refs /\ proof' = proof /\ page'.phase # "awaiting"
      <3>1. signedOut.phase = "idle"
        BY DEF signedOut, Typed, PageTyped, Pages
      <3>2. QED
        BY <1>4, <3>1 DEF withoutPrivySession
    <2>2. own' = own /\ letGo' = letGo /\ InFlight' = InFlight /\ Started' = Started
      BY <2>1 DEF own, letGo, InFlight, Started
    <2>3. GuardInv'
      BY <2>1, <2>2 DEF TabInv, GuardInv
    <2>4. NoneDisowned' => NoneDisowned
      BY <2>1, <2>2 DEF NoneDisowned
    <2>5. page.phase = "awaiting" \/ UNCHANGED <<storage, page, refs, proof>>
      BY DEF Complete
    <2>6. CASE page.phase = "awaiting"
      <3>1. NoneDisowned => InFlight = {}
        BY <1>4, <2>6 DEF TabInv, SignerInv
      <3>2. SignerInv'
        BY <2>1, <2>2, <2>4, <3>1 DEF SignerInv
      <3>3. QED
        BY <2>3, <3>2 DEF TabInv
    <2>7. QED
      BY <1>2, <2>5, <2>6
  <1>5. CASE withoutPrivySession /\ refs.interactive
    BY <1>1, <1>5, SameProofs, NothingBegun DEF withoutPrivySession, storage
  <1>6. CASE privy.wallet # NoWallet /\ ~refs.proving /\ Prove
    <2> DEFINE n == Len(proof) + 1
    <2>1. newProof \in Proofs /\ proof' = Append(proof, newProof)
      BY <1>6, NewProofTyped DEF Prove, Typed
    <2>2. /\ newProof.stage = "challenging" /\ newProof.wallet = privy.wallet /\ ~newProof.disowned
      BY DEF newProof
    <2>3. /\ Len(proof) \in Nat /\ Started = 1 .. Len(proof)
          /\ Started' = 1 .. n /\ proof'[n] = newProof
          /\ \A p \in Started : proof'[p] = proof[p]
      <3>1. /\ Append(proof, newProof) \in Seq(Proofs) /\ Len(Append(proof, newProof)) = Len(proof) + 1
            /\ \A k \in 1 .. Len(proof) : Append(proof, newProof)[k] = proof[k]
            /\ Append(proof, newProof)[Len(proof) + 1] = newProof
        BY <2>1, Appended DEF Typed, ProofTyped
      <3>2. DOMAIN Append(proof, newProof) = 1 .. Len(Append(proof, newProof))
        BY <3>1, Elements
      <3>3. QED
        BY <2>1, <3>1, <3>2, StartedIs DEF Typed, Started
    <2> HIDE DEF n
    <2>4. \A p \in Started' : p \in Started \/ p = n
      BY <2>3 DEF n
    <2>5. n \in Started' /\ Started \subseteq Started'
      BY <2>3 DEF n
    <2>6. InFlight' = InFlight \cup {n}
      BY <2>2, <2>3, <2>4, <2>5 DEF InFlight
    <2>7. letGo' = {} => letGo = {}
      BY <2>3, <2>5 DEF letGo
    <2>8. own' = own \cup {n}
      BY <2>2, <2>3, <2>6 DEF own, InFlight
    <2>9. letGo = {} => own = {}
      BY <1>6 DEF TabInv, GuardInv
    <2>10. refs'.proving /\ page'.phase = "signing" /\ active' = privy.wallet
      BY <1>6 DEF Prove, Typed, RefsTyped, Refs, PageTyped, Pages
    <2>11. GuardInv'
      BY <2>7, <2>8, <2>9, <2>10 DEF GuardInv
    <2>12. NoneDisowned' => NoneDisowned /\ letGo = {} /\ InFlight = own
      BY <2>3, <2>5 DEF NoneDisowned, letGo, own, InFlight
    <2>13. SignerInv'
      BY <2>2, <2>3, <2>6, <2>9, <2>10, <2>12 DEF SignerInv
    <2>14. QED
      BY <2>11, <2>13 DEF TabInv
  <1>7. QED
    BY <1>2, <1>3, <1>4, <1>5, <1>6 DEF Complete, Prove

LEMMA QuietlyKeeps ==
  ASSUME Typed, TabInv,
         \/ PrivyReady \/ PrivyLogsIn \/ WalletArrives \/ LogsOut \/ LogoutFails \/ PrivyRunsOut
         \/ Restored \/ RestoringFails \/ signInWithPrivyWallet \/ TimesOut \/ Navigate
         \/ Route \/ Resume
  PROVE  TabInv' /\ ExchangesGoOn /\ UNCHANGED server
  <1>1. UNCHANGED <<server, proof, active>> /\ token' \in {token, 0}
    BY DEF PrivyReady, PrivyLogsIn, WalletArrives, LogsOut, LogoutFails, PrivyRunsOut, PrivyEnds, Restored,
           RestoringFails, signInWithPrivyWallet, TimesOut, Navigate, Route, Resume, storage
  <1>2. refs'.proving = refs.proving
    <2>1. refs \in Refs
      BY DEF Typed, RefsTyped
    <2>2. refs' = refs \/ refs' = [refs EXCEPT !.interactive = TRUE]
      BY DEF PrivyReady, PrivyLogsIn, WalletArrives, LogsOut, LogoutFails, PrivyRunsOut, PrivyEnds, Restored,
             RestoringFails, signInWithPrivyWallet, TimesOut, Navigate, Route, Resume, react
    <2>3. QED
      BY <2>1, <2>2 DEF Refs
  <1>3. page'.phase = "awaiting" /\ ~refs'.interactive => page.phase = "awaiting" /\ ~refs.interactive
    <2>1. page \in Pages /\ refs \in Refs
      BY DEF Typed, RefsTyped, PageTyped
    <2>2. CASE signInWithPrivyWallet \/ Resume
      BY <2>1, <2>2 DEF signInWithPrivyWallet, Resume, Refs
    <2>3. CASE Route
      <3>1. redirected.phase = page.phase
        BY <2>1 DEF redirected, Pages
      <3>2. QED
        BY <2>3, <3>1 DEF Route
    <2>4. CASE TimesOut \/ Navigate
      BY <2>1, <2>4 DEF TimesOut, Navigate, Pages
    <2>5. CASE Restored \/ RestoringFails
      BY <2>1, <2>5 DEF Restored, RestoringFails, Pages
    <2>6. CASE PrivyReady \/ PrivyLogsIn \/ WalletArrives \/ LogsOut \/ LogoutFails \/ PrivyRunsOut
      BY <2>6 DEF PrivyReady, PrivyLogsIn, WalletArrives, LogsOut, LogoutFails, PrivyRunsOut, PrivyEnds, react
    <2>7. QED
      BY <2>2, <2>3, <2>4, <2>5, <2>6
  <1>4. KeepsSessions
    BY <1>1, SessionIs DEF KeepsSessions, server, Typed
  <1>5. TabInv'
    BY <1>1, <1>2, <1>3, <1>4, SameProofs, NothingBegun
  <1>6. ExchangesGoOn
    BY <1>1 DEF ExchangesGoOn, Started
  <1>7. QED
    BY <1>1, <1>5, <1>6

\* A step of the server or of time leaves the browser alone.
LEMMA BrowserAlone ==
  ASSUME Typed, TabInv, KeepsSessions, UNCHANGED browser
  PROVE  TabInv'
  BY SameProofs, NothingBegun DEF browser, storage, react

LEMMA ExchangesEnd ==
  ASSUME Typed, Reload \/ signOut \/ Complete \/ \E p \in Started : Land(p) \/ Funded(p) \/ Refused(p) \/ CutOff(p)
  PROVE  ExchangesGoOn
  <1>0. \A p \in Started : proof[p] \in Proofs
    BY StartedIs DEF Typed
  <1>1. CASE Reload
    <2>1. \A p \in Started : LET gone == [proof[p] EXCEPT !.stage = "gone"] IN
            gone.stage = "gone" /\ gone.wallet = proof[p].wallet /\ gone.nonce = proof[p].nonce
      BY <1>0 DEF Proofs
    <2>2. \A p \in Started : proof'[p] = proof[p] \/ proof'[p] = [proof[p] EXCEPT !.stage = "gone"]
      BY <1>1 DEF Reload
    <2>3. Started' = Started
      BY <1>1 DEF Reload, Started
    <2>4. QED
      BY <2>1, <2>2, <2>3 DEF ExchangesGoOn, Exchanging
  <1>2. CASE signOut
    <2>1. \A p \in Started : LET left == [proof[p] EXCEPT !.disowned = TRUE] IN
            left.stage = proof[p].stage /\ left.wallet = proof[p].wallet /\ left.nonce = proof[p].nonce
      BY <1>0 DEF Proofs
    <2>2. \A p \in Started : proof'[p] = proof[p] \/ proof'[p] = [proof[p] EXCEPT !.disowned = TRUE]
      BY <1>2 DEF signOut
    <2>3. Started' = Started
      BY <1>2 DEF signOut, Started
    <2>4. QED
      BY <2>1, <2>2, <2>3 DEF ExchangesGoOn
  <1>3. CASE Complete
    <2>1. CASE proof' = proof
      BY <2>1 DEF ExchangesGoOn, Started
    <2>2. CASE privy.wallet # NoWallet /\ Prove /\ ~refs.proving
      <3>1. newProof \in Proofs /\ proof' = Append(proof, newProof)
        BY <2>2, NewProofTyped DEF Prove, Typed
      <3>2. newProof.stage = "challenging" /\ newProof.nonce = 0
        BY DEF newProof
      <3>3. /\ Append(proof, newProof) \in Seq(Proofs) /\ Len(Append(proof, newProof)) = Len(proof) + 1
            /\ \A k \in 1 .. Len(proof) : Append(proof, newProof)[k] = proof[k]
            /\ Append(proof, newProof)[Len(proof) + 1] = newProof
        BY <3>1, Appended DEF Typed, ProofTyped
      <3>4. /\ Len(proof) \in Nat /\ Started = 1 .. Len(proof) /\ Started' = 1 .. (Len(proof) + 1)
        BY <3>1, <3>3, StartedIs, Elements DEF Typed, Started
      <3>5. QED
        BY <3>1, <3>2, <3>3, <3>4 DEF ExchangesGoOn
    <2>3. QED
      BY <1>3, <2>1, <2>2 DEF Complete, withoutPrivySession, requestWallet, Prove
  <1>4. CASE \E p \in Started : Land(p) \/ Funded(p) \/ Refused(p) \/ CutOff(p)
    <2>1. PICK p \in Started, s \in Ended : to(p, s)
      BY <1>4 DEF Land, Funded, Refused, CutOff, Fail, Ended
    <2>2. /\ Started' = Started /\ proof'[p] = [proof[p] EXCEPT !.stage = s]
          /\ \A q \in Started \ {p} : proof'[q] = proof[q]
      BY <2>1, ToTyped DEF Typed
    <2>3. proof'[p].stage = s /\ proof'[p].wallet = proof[p].wallet /\ proof'[p].nonce = proof[p].nonce
      BY <1>0, <2>1, <2>2 DEF Proofs
    <2>4. s \notin Exchanging
      BY <2>1 DEF Ended, Exchanging
    <2>5. QED
      BY <2>2, <2>3, <2>4 DEF ExchangesGoOn
  <1>5. QED
    BY <1>1, <1>2, <1>3, <1>4

\* The steps of an exchange that leave it in flight, or past flight.
LEMMA GoesOnKeeps ==
  ASSUME Typed, ServerInv, TabInv, NEW p \in Started, Challenged(p) \/ Sign(p) \/ Funded(p)
  PROVE  TabInv'
  <1>1. proof[p] \in Proofs /\ KeepsSessions /\ token' = token /\ active' = active /\ refs' = refs
    BY StartedIs, SessionIs DEF Challenged, Sign, Funded, Typed, KeepsSessions, server, storage, react
  <1>2. page'.phase = page.phase
    BY DEF Challenged, Sign, Funded, react, Typed, PageTyped, Pages
  <1>3. SameExchanges
    <2>1. /\ Started' = Started /\ \A q \in Started \ {p} : proof'[q] = proof[q]
          /\ proof'[p].wallet = proof[p].wallet /\ proof'[p].disowned = proof[p].disowned
          /\ \/ proof[p].stage \in Exchanging /\ proof'[p].stage \in Exchanging
             \/ proof[p].stage \in Ended /\ proof'[p].stage \in Ended
      <3>1. CASE Challenged(p)
        <4> DEFINE x == [proof[p] EXCEPT !.stage = "signing", !.nonce = Len(challenge) + 1]
        <4>1. proof' = [q \in Started |-> IF q = p THEN x ELSE proof[q]]
          BY <3>1, StartedIs DEF Challenged, Typed
        <4>2. x.stage = "signing" /\ x.wallet = proof[p].wallet /\ x.disowned = proof[p].disowned
          BY <1>1 DEF Proofs
        <4> HIDE DEF x
        <4>3. QED
          BY <3>1, <4>1, <4>2 DEF Challenged, Started, Exchanging
      <3>2. ASSUME NEW s \in {"verifying", "landed"}, to(p, s)
            PROVE  /\ Started' = Started /\ \A q \in Started \ {p} : proof'[q] = proof[q]
                   /\ proof'[p].wallet = proof[p].wallet /\ proof'[p].disowned = proof[p].disowned
                   /\ proof'[p].stage = s
        <4>1. s \in Exchanging \cup Ended \cup {"gone"}
          BY DEF Exchanging, Ended
        <4>2. /\ Started' = Started /\ proof'[p] = [proof[p] EXCEPT !.stage = s]
              /\ \A q \in Started \ {p} : proof'[q] = proof[q]
          BY <3>2, <4>1, ToTyped DEF Typed
        <4>3. QED
          BY <1>1, <4>2 DEF Proofs
      <3>3. CASE Sign(p)
        <4>1. proof[p].stage = "signing" /\ to(p, "verifying")
          BY <3>3 DEF Sign
        <4>2. QED
          BY <3>2, <4>1 DEF Exchanging
      <3>4. CASE Funded(p)
        <4>1. proof[p].stage = "funding" /\ to(p, "landed")
          BY <3>4 DEF Funded
        <4>2. QED
          BY <3>2, <4>1 DEF Ended
      <3>5. QED
        BY <3>1, <3>3, <3>4
    <2>2. Exchanging \cap Ended = {}
      BY DEF Exchanging, Ended
    <2>3. InFlight' = InFlight /\ letGo' = letGo
      BY <2>1, <2>2 DEF InFlight, letGo, Exchanging
    <2>4. QED
      BY <2>1, <2>3 DEF SameExchanges
  <1>4. QED
    BY <1>1, <1>2, <1>3, NothingBegun

-----------------------------------------------------------------------------
(***************************************************************************)
(* The invariant, and what it comes to.                                    *)
(***************************************************************************)
LEMMA InvHoldsAtFirst == Init => Inv
  <1> SUFFICES ASSUME Init PROVE Inv
    OBVIOUS
  <1> USE DEF Init
  <1>1. /\ challenge = <<>> /\ sessions = <<>> /\ verify = [r \in Requests |-> Idle] /\ proof = <<>>
        /\ users = [a \in Addresses |-> NoName]
    BY DEF ServerInit
  <1>2. Len(challenge) = 0 /\ Len(sessions) = 0 /\ Len(proof) = 0
    BY <1>1
  <1>3. Started = {} /\ InFlight = {} /\ DOMAIN sessions = {}
    BY <1>1 DEF Started, InFlight
  <1>4. ChallengesTyped /\ UsersTyped /\ SessionsTyped /\ ProofTyped
    BY <1>1, <1>2, MaxNoncesAssumption, MaxProofsAssumption
       DEF ChallengesTyped, UsersTyped, SessionsTyped, ProofTyped
  <1>5. VerifyTyped
    BY <1>1 DEF VerifyTyped, Idle
  <1>6. TokenTyped /\ SignerTyped /\ PrivyTyped /\ RefsTyped
    <2>1. token = 0 /\ restoring = 0 /\ kind = FALSE /\ active = NoWallet
      OBVIOUS
    <2>2. TokenTyped
      <3>1. 0 \in 0 .. Len(sessions)
        BY <1>2
      <3>2. QED
        BY <2>1, <3>1 DEF TokenTyped
    <2>3. SignerTyped
      BY <2>1, NoWalletTyped DEF SignerTyped
    <2>4. PrivyTyped
      BY NoWalletTyped DEF PrivyTyped, Privies, NoPrivySession
    <2>5. RefsTyped
      BY DEF RefsTyped, Refs, LoadedRefs
    <2>6. QED
      BY <2>2, <2>3, <2>4, <2>5
  <1>7. PageTyped
    BY NoWalletTyped DEF PageTyped, Pages, Phases, LoadedPage
  <1>8. VerifyInv
    BY <1>1 DEF VerifyInv, InHand, Idle
  <1>9. OneHand /\ Bought /\ ExchangeInv
    BY <1>1, <1>3 DEF OneHand, Idle, Bought, ExchangeInv
  <1>10. TabInv
    BY <1>3 DEF TabInv, GuardInv, own, SignerInv
  <1>11. QED
    BY <1>4, <1>5, <1>6, <1>7, <1>8, <1>9, <1>10 DEF Inv, Typed, ServerInv

LEMMA InvIsKept == Inv /\ [Next]_vars => Inv'
  <1> SUFFICES ASSUME Inv, [Next]_vars PROVE Inv'
    OBVIOUS
  <1>0. Typed /\ ServerInv /\ TabInv
    BY DEF Inv
  <1>1. CASE UNCHANGED vars
    <2>1. UNCHANGED server /\ UNCHANGED browser
      BY <1>1 DEF vars, browser
    <2>2. Typed'
      BY <1>0, <2>1, ServerStays
         DEF Typed, ServerTyped, ProofTyped, TokenTyped, SignerTyped, PrivyTyped, PageTyped, RefsTyped,
             server, browser, storage, react
    <2>3. KeepsSessions /\ ExchangesGoOn
      BY <1>0, <2>1, SessionIs DEF KeepsSessions, Typed, server, browser, ExchangesGoOn, Started
    <2>4. QED
      BY <1>0, <2>1, <2>2, <2>3, TheTabAlone, BrowserAlone DEF Inv
  <1>2. CASE \/ PrivyReady \/ PrivyLogsIn \/ WalletArrives \/ LogsOut \/ LogoutFails \/ PrivyRunsOut
    BY <1>0, <1>2, PrivyTypes, QuietlyKeeps, TheTabAlone DEF Inv
  <1>3. CASE Route \/ Navigate \/ Restored \/ signInWithPrivyWallet \/ Resume \/ TimesOut
    <2>1. UNCHANGED <<server, token, kind, active, proof>>
      BY <1>3 DEF Route, Navigate, Restored, signInWithPrivyWallet, Resume, TimesOut, storage
    <2>2. Typed'
      BY <1>0, <1>3, <2>1, PageTypes
    <2>3. QED
      BY <1>0, <1>3, <2>2, QuietlyKeeps, TheTabAlone DEF Inv
  <1>4. CASE RestoringFails
    BY <1>0, <1>4, LeavingTypes, QuietlyKeeps, TheTabAlone DEF Inv
  <1>5. CASE Reload \/ signOut
    <2>1. UNCHANGED server
      BY <1>5 DEF Reload, signOut
    <2>2. Typed' /\ ExchangesGoOn /\ TabInv'
      BY <1>0, <1>5, LeavingTypes, ExchangesEnd, ReloadKeeps, SignOutKeeps
    <2>3. QED
      BY <1>0, <2>1, <2>2, TheTabAlone DEF Inv
  <1>6. CASE Complete
    <2>1. UNCHANGED server
      BY <1>6 DEF Complete
    <2>2. Typed' /\ ExchangesGoOn /\ TabInv'
      BY <1>0, <1>6, ProveTypes, ExchangesEnd, CompleteKeeps
    <2>3. QED
      BY <1>0, <2>1, <2>2, TheTabAlone DEF Inv
  <1>7. ASSUME NEW p \in Started, Land(p) \/ Funded(p) \/ Refused(p) \/ CutOff(p) PROVE Inv'
    <2>1. UNCHANGED server
      BY <1>7 DEF Land, Funded, Refused, CutOff
    <2>2. Typed' /\ ExchangesGoOn
      BY <1>0, <1>7, EndingTypes, ExchangesEnd
    <2>3. (Refused(p) \/ CutOff(p)) => p \in InFlight /\ Fail(p)
      BY <1>7 DEF Refused, CutOff, InFlight
    <2>4. TabInv'
      BY <1>0, <1>7, <2>3, LandKeeps, FailKeeps, GoesOnKeeps
    <2>5. QED
      BY <1>0, <2>1, <2>2, <2>4, TheTabAlone DEF Inv
  <1>8. ASSUME NEW p \in Started, Challenged(p) \/ Sign(p) PROVE Inv'
    BY <1>0, <1>8, ChallengedKeeps, SignKeeps, GoesOnKeeps DEF Inv
  <1>9. ASSUME NEW r \in Replays, Replay(r) PROVE Inv'
    <2>1. KeepsSessions /\ UNCHANGED browser
      BY <1>0, <1>9, SessionIs DEF Replay, KeepsSessions, Typed
    <2>2. QED
      BY <1>0, <1>9, <2>1, ReplayKeeps, BrowserAlone DEF Inv
  <1>10. ASSUME NEW r \in Requests, Serve(r) PROVE Inv'
    <2>1. UNCHANGED <<browser, bounds>> /\ (TryChallenge(r) \/ EnterSession(r))
      BY <1>10 DEF Serve
    <2>2. Typed' /\ ServerInv'
      BY <1>0, <2>1, TryKeeps, EnterKeeps
    <2>3. KeepsSessions
      <3>1. sessions' = sessions \/ \E x : sessions' = Append(sessions, x)
        BY <2>1 DEF TryChallenge, EnterSession
      <3>2. sessions \in Seq([user : Addresses, nonce : Nat]) /\ sessions' \in Seq([user : Addresses, nonce : Nat])
        BY <1>0, <2>2 DEF Typed, SessionsTyped
      <3>3. CASE sessions' = sessions
        BY <1>0, <3>3, SessionIs DEF KeepsSessions, Typed
      <3>4. CASE \E x : sessions' = Append(sessions, x)
        BY <3>2, <3>4 DEF KeepsSessions
      <3>5. QED
        BY <3>1, <3>3, <3>4
    <2>4. QED
      BY <1>0, <2>1, <2>2, <2>3, BrowserAlone DEF Inv
  <1>11. CASE (\E n \in Nonces : Time(n)) \/ (\E name \in Names : Rename(name))
    <2>1. KeepsSessions /\ UNCHANGED browser
      BY <1>0, <1>11, SessionIs DEF Time, Ageing, Rename, setUsername, KeepsSessions, Typed
    <2>2. QED
      BY <1>0, <1>11, <2>1, TimeAndNamesKeep, BrowserAlone DEF Inv
  <1>12. QED
    BY <1>1, <1>2, <1>3, <1>4, <1>5, <1>6, <1>7, <1>8, <1>9, <1>10, <1>11 DEF Next, Effect, Exchange

LEMMA InvAlways == Spec => []Inv
  BY InvHoldsAtFirst, InvIsKept, PTL DEF Spec

(***************************************************************************)
(* However many requests present signatures, however often and however     *)
(* they interleave: a nonce buys one session, for the wallet that signed   *)
(* it, and a signature is refused for nothing but a nonce that is spent or *)
(* has run out.                                                            *)
(***************************************************************************)
THEOREM ANonceBuysOneSession == Spec => []NonceBuysOneSession
  <1>1. Inv => NonceBuysOneSession
    <2> SUFFICES ASSUME Inv PROVE NonceBuysOneSession
      OBVIOUS
    <2>1. sessionsAreBought
      BY DEF Inv, ServerInv, Bought, OneHand, sessionsAreBought
    <2>2. refusedForAReason
      BY DEF Inv, ServerInv, VerifyInv, InHand, HasAnswered, spent, refusedForAReason
    <2>3. QED
      BY <2>1, <2>2 DEF NonceBuysOneSession
  <1>2. QED
    BY <1>1, InvAlways, PTL

LEMMA TypesHold == Inv => TypeOK
  <1> SUFFICES ASSUME Inv PROVE TypeOK
    OBVIOUS
  <1>0. Typed /\ ServerInv
    BY DEF Inv
  <1>1. sessions \in Seq([user : Addresses, nonce : Nonces])
    <2>1. \A k \in 1 .. Len(sessions) : sessions[k] \in [user : Addresses, nonce : Nat] /\ sessions[k].nonce \in Nonces
      BY <1>0, Elements DEF Typed, SessionsTyped, ServerInv, Bought
    <2>2. \A k \in 1 .. Len(sessions) : sessions[k] \in [user : Addresses, nonce : Nonces]
      BY <2>1
    <2>3. sessions \in [1 .. Len(sessions) -> [user : Addresses, nonce : Nonces]] /\ Len(sessions) \in Nat
      <3>1. sessions = [k \in 1 .. Len(sessions) |-> sessions[k]] /\ Len(sessions) \in Nat
        BY <1>0 DEF Typed, SessionsTyped
      <3>2. QED
        BY <2>2, <3>1
    <2>4. QED
      BY <2>3, Listed
  <1>2. \A r \in Requests : verify[r].stage # "idle" => verify[r].signature \in Signatures
    BY <1>0 DEF ServerInv, VerifyInv, InHand, Presented
  <1>3. ASSUME NEW p \in Started
        PROVE  /\ proof[p].wallet \in Addresses /\ proof[p].nonce \in 0 .. MaxNonces
               /\ proof[p].stage \in {"challenging", "signing", "verifying", "funding", "landed", "failed", "gone"}
    <2>1. proof[p] \in Proofs
      BY <1>0, StartedIs DEF Typed
    <2>2. QED
      BY <2>1 DEF Proofs, Exchanging, Ended
  <1>4. QED
    BY <1>0, <1>1, <1>2, <1>3
       DEF TypeOK, Typed, ChallengesTyped, UsersTyped, VerifyTyped, TokenTyped, SignerTyped, PrivyTyped,
           Privies, PageTyped, Pages, Phases, RefsTyped, Refs, Wallets

(***************************************************************************)
(* Over any timeouts, reloads, sign-outs, changes of wallet and failures:  *)
(* one exchange runs at a time, and between exchanges the wallet that      *)
(* would sign is the one the session is for, unless the user signed out of *)
(* an exchange that then came to its end.                                  *)
(***************************************************************************)
THEOREM TheWalletFitsTheSession == Spec => []SignsForItsSession
  <1>1. Inv => SignsForItsSession
    <2> SUFFICES ASSUME Inv PROVE SignsForItsSession
      OBVIOUS
    <2>1. TypeOK
      BY TypesHold
    <2>2. oneProofAtATime
      <3>1. SUFFICES ASSUME letGo = {} PROVE Cardinality(own) <= 1
        BY DEF oneProofAtATime, letGo, own, Ended
      <3>2. \A p, q \in own : p = q
        BY <3>1 DEF Inv, TabInv, GuardInv
      <3>3. CASE own = {}
        BY <3>3, FS_EmptySet
      <3>4. CASE own # {}
        <4>1. PICK p \in own : own = {p}
          BY <3>2, <3>4
        <4>2. Cardinality({p}) = 1
          BY FS_Singleton
        <4>3. QED
          BY <4>1, <4>2
      <3>5. QED
        BY <3>3, <3>4
    <2>3. QED
      BY <2>1, <2>2 DEF SignsForItsSession, Inv, TabInv, SignerInv, NoneDisowned
  <1>2. QED
    BY <1>1, InvAlways, PTL

=============================================================================
