------------------------------- MODULE Sessions -------------------------------
(***************************************************************************)
(* backend/src/lib/session.ts and routes/auth.ts: an address signs a nonce *)
(* this server issued and is given a session.                              *)
(*                                                                         *)
(* A handler runs to its next await.  Verification awaits one signature    *)
(* recovery for each challenge it tries, so two requests interleave        *)
(* between any two challenges, and the list a request works through was    *)
(* read when it arrived.                                                   *)
(***************************************************************************)
EXTENDS Integers, Sequences, FiniteSets, SequencesExt

CONSTANTS
  Addresses,
  Names,
  shortAddress,  \* the display name a fresh account gets
  NoName,        \* no account
  Requests,      \* verifications that may be in hand
  MaxNonces      \* challenges issued in all

ASSUME ShortAddressAssumption == shortAddress \in [Addresses -> Names]
ASSUME NoNameAssumption == NoName \notin Names
ASSUME MaxNoncesAssumption == MaxNonces \in Nat

VARIABLES
  challenge,  \* auth_challenges, one for each nonce 1, 2, ...
  users,      \* users: each address's username
  sessions,   \* sessions: whose, and the nonce that bought it; a token is an index
  verify      \* POST /auth/verify in hand

server == <<challenge, users, sessions, verify>>

Nonces == DOMAIN challenge

\* expires_at lies ahead, behind, more than the retention behind; the row is gone.
Ages == <<"live", "expired", "stale", "purged">>

Challenges == [address : Addresses, age : ToSet(Ages), consumed : BOOLEAN]
Signatures == [signer : Addresses, nonce : 1 .. MaxNonces]
Idle == [stage |-> "idle"]

ServerInit ==
  /\ challenge = <<>>
  /\ users = [a \in Addresses |-> NoName]
  /\ sessions = <<>>
  /\ verify = [r \in Requests |-> Idle]

-----------------------------------------------------------------------------
(***************************************************************************)
(* Challenges.                                                             *)
(***************************************************************************)

purgeStaleChallenges ==
  [n \in Nonces |-> IF challenge[n].age = "stale"
                    THEN [challenge[n] EXCEPT !.age = "purged"]
                    ELSE challenge[n]]

fresh(a) == [address |-> a, age |-> "live", consumed |-> FALSE]

createChallenge(a) ==
  /\ Len(challenge) < MaxNonces
  /\ challenge' = Append(purgeStaleChallenges, fresh(a))

\* The clock: of two challenges the older is never the younger in age.
Ageing(n) ==
  LET next == [live |-> "expired", expired |-> "stale"] IN
  /\ challenge[n].age \in DOMAIN next
  /\ \A older \in 1 .. n - 1 : challenge[older].age # challenge[n].age
  /\ challenge' = [challenge EXCEPT ![n].age = next[@]]
  /\ UNCHANGED <<users, sessions, verify>>

\* Variant: only the newest challenge is tried.
newestOutstanding(a) ==
  LET open == {n \in Nonces : /\ challenge[n].address = a
                              /\ ~challenge[n].consumed
                              /\ challenge[n].age = "live"}
  IN  {n \in open : \A m \in open : m <= n}

outstandingChallenges(a) ==
  {n \in Nonces : /\ challenge[n].address = a
                  /\ ~challenge[n].consumed
                  /\ challenge[n].age = "live"}

\* Variant: a nonce is closed without looking whether it was closed already.
mayConsumeAgain(n) == challenge[n].age # "purged"

\* The predicate of the update: the row is there and still open.
mayConsume(n) == challenge[n].age # "purged" /\ ~challenge[n].consumed

-----------------------------------------------------------------------------
(***************************************************************************)
(* Verification.  A signature over another nonce recovers some other       *)
(* address, and so does one by another wallet.                             *)
(***************************************************************************)

\* Variant: whatever a signature recovers, it is taken for the claimed address.
recoversAnything(signature, n, a) == signature.signer = a

recovers(signature, n, a) == signature.nonce = n /\ signature.signer = a

Verify(r, a, signature) ==
  LET outstanding == outstandingChallenges(a) IN
  /\ verify[r] = Idle
  /\ verify' = [verify EXCEPT ![r] =
       IF outstanding = {}
       THEN [stage |-> "answered", signature |-> signature, session |-> 0]
       ELSE [stage |-> "trying", address |-> a, signature |-> signature, left |-> outstanding]]

\* One turn of the loop, newest first: the last that matches nothing is a 401.
TryChallenge(r) ==
  /\ verify[r].stage = "trying"
  /\ \E n \in verify[r].left :
       /\ \A older \in verify[r].left : older <= n
       /\ IF recovers(verify[r].signature, n, verify[r].address) /\ mayConsume(n)
          THEN /\ challenge' = [challenge EXCEPT ![n].consumed = TRUE]
               /\ verify' = [verify EXCEPT ![r] = [stage |-> "proved", signature |-> @.signature,
                                                  address |-> @.address, nonce |-> n]]
          ELSE /\ verify' = IF verify[r].left # {n} THEN [verify EXCEPT ![r].left = @ \ {n}]
                            ELSE [verify EXCEPT ![r] =
                              [stage |-> "answered", signature |-> @.signature, session |-> 0]]
               /\ UNCHANGED challenge
  /\ UNCHANGED <<users, sessions>>

taken(name) == \E a \in Addresses : users[a] = name

\* The account is found or created, then its session is written.  A display
\* name somebody else has makes the insert fail, and there is no row to re-read.
EnterSession(r) ==
  LET a == verify[r].address IN
  /\ verify[r].stage = "proved"
  /\ IF users[a] = NoName /\ taken(shortAddress[a])
     THEN /\ verify' = [verify EXCEPT ![r] =
               [stage |-> "answered", signature |-> @.signature, session |-> 0]]
          /\ UNCHANGED <<users, sessions>>
     ELSE /\ users' = [users EXCEPT ![a] = IF @ = NoName THEN shortAddress[a] ELSE @]
          /\ sessions' = Append(sessions, [user |-> a, nonce |-> verify[r].nonce])
          /\ verify' = [verify EXCEPT ![r] =
               [stage |-> "answered", signature |-> @.signature, session |-> Len(sessions) + 1]]
  /\ UNCHANGED challenge

\* The caller of a request that carries this token.
resolveSession(token) == sessions[token].user

setUsername(a, name) ==
  /\ users[a] # NoName
  /\ ~taken(name)
  /\ users' = [users EXCEPT ![a] = name]
  /\ UNCHANGED <<challenge, sessions, verify>>

=============================================================================
