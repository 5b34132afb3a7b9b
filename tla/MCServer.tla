------------------------------ MODULE MCServer ------------------------------
(***************************************************************************)
(* Three strategies on one slot, two cycles and one signal; two calls of   *)
(* tickOnce, from the command line or from anywhere.                       *)
(***************************************************************************)
EXTENDS Server, TLC

CONSTANTS s1, s2, s3, c1, c2

MCStrategies == {s1, s2, s3}
MCCallers == {c1, c2}
MCHosts == {"server", "cli", "library"}

=============================================================================
