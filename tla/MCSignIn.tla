------------------------------- MODULE MCSignIn -------------------------------
(***************************************************************************)
(* Two wallets whose short names differ; a request delivered twice.        *)
(***************************************************************************)
EXTENDS SignInProperties, TLC

CONSTANTS alice, bob, shortAlice, shortBob

MCAddresses == {alice, bob}
MCNames == {shortAlice, shortBob}
MCShortAddress == (alice :> shortAlice) @@ (bob :> shortBob)
MCRequests == 1 .. 3
MCReplays == {3}

=============================================================================
