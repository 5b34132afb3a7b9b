--------------------------- MODULE SignInProperties ---------------------------
(***************************************************************************)
(* What signing in promises, to the server and to the person in the tab.   *)
(***************************************************************************)
EXTENDS SignIn

TypeOK ==
  /\ challenge \in Seq(Challenges) /\ Len(challenge) <= MaxNonces
  /\ users \in [Addresses -> Names \cup {NoName}]
  /\ sessions \in Seq([user : Addresses, nonce : Nonces])
  /\ \A r \in Requests :
       /\ verify[r].stage \in {"idle", "trying", "proved", "answered"}
       /\ verify[r].stage # "idle" => verify[r].signature \in Signatures
  /\ token \in 0 .. Len(sessions) /\ restoring \in 0 .. Len(sessions)
  /\ kind \in BOOLEAN /\ active \in Addresses \cup {NoWallet}
  /\ privy \in [ready : BOOLEAN, authenticated : BOOLEAN,
                wallet : Addresses \cup {NoWallet}, modal : BOOLEAN, leaving : BOOLEAN]
  /\ page \in [status : {"loading", "authenticated", "anonymous"},
               user : Addresses \cup {NoWallet}, phase : {"idle", "awaiting", "signing"},
               path : Paths] /\ hint \in BOOLEAN
  /\ refs \in [interactive : BOOLEAN, requestedWallet : BOOLEAN, proving : BOOLEAN]
  /\ due \subseteq Effects
  /\ \A p \in Started :
       /\ proof[p].wallet \in Addresses /\ proof[p].nonce \in 0 .. MaxNonces
       /\ proof[p].stage \in {"challenging", "signing", "verifying", "funding", "landed", "failed", "gone"}

(***************************************************************************)
(* A nonce buys one session, and the session of the wallet that signed it, *)
(* however often and however close together a signature is presented.      *)
(***************************************************************************)
signed(a, n) == \E p \in Started : proof[p].wallet = a /\ proof[p].nonce = n

sessionsAreBought ==
  \A i, j \in DOMAIN sessions :
    /\ challenge[sessions[i].nonce].consumed
    /\ challenge[sessions[i].nonce].address = sessions[i].user
    /\ signed(sessions[i].user, sessions[i].nonce)
    /\ sessions[i].nonce = sessions[j].nonce => i = j

(***************************************************************************)
(* A signature is refused only if the nonce it signs is spent or has run   *)
(* out, or the name of a new account is taken: not because the browser     *)
(* asked for other challenges before or since.                             *)
(***************************************************************************)
refusedForAReason ==
  \A r \in Requests :
    verify[r].stage = "answered" /\ verify[r].session = 0 =>
      LET n == verify[r].signature.nonce
      IN  challenge[n].consumed \/ challenge[n].age # "live"

\* Both halves of what verifying a signature promises.
NonceBuysOneSession == sessionsAreBought /\ refusedForAReason

(***************************************************************************)
(* The refs see to it that one exchange runs at a time, over timeouts that *)
(* reset the phase and effects that run again.  One the user signed out of *)
(* may still be running beside it; once such a one has come to its end it  *)
(* has taken down the guard of the one after it, and nothing is promised.  *)
(***************************************************************************)
oneProofAtATime ==
  (\A p \in Started : proof[p].disowned => proof[p].stage \notin {"funding", "landed", "failed"})
    => Cardinality({p \in InFlight : ~proof[p].disowned}) <= 1

(***************************************************************************)
(* Between exchanges the wallet that would sign a transfer is the one the  *)
(* session is for, over reloads, a Privy that changes its wallet, proofs   *)
(* that fail and timeouts; unless the user signed out of a proof that then *)
(* landed.                                                                 *)
(***************************************************************************)
SignsForItsSession ==
  /\ TypeOK
  /\ oneProofAtATime
  /\ /\ InFlight = {} /\ \A p \in Started : ~proof[p].disowned
     /\ token # 0 /\ active # NoWallet
     => sessions[token].user = active

(***************************************************************************)
(* No visitor is left before the empty frame that stands for a redirect,   *)
(* whatever the cookie of the last visit said.                             *)
(***************************************************************************)
nobodyIsHeld == frame = "held" ~> frame # "held"

(***************************************************************************)
(* Whoever has finished Privy's modal ends up signed in, unless every      *)
(* proof that the tab may start has failed.                                *)
(***************************************************************************)
signInCompletes ==
  page.phase = "awaiting" /\ refs.interactive /\ privy.authenticated
    ~> \/ page.status = "authenticated"
       \/ ~privy.authenticated
       \/ Len(proof) = MaxProofs /\ InFlight = {}

\* Neither the modal nor the redirect is a dead end.
NobodyIsLeftWaiting == signInCompletes /\ nobodyIsHeld

=============================================================================
