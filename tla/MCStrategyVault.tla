--------------------------- MODULE MCStrategyVault ---------------------------
(***************************************************************************)
(* A vault of three investors and six units of USDC, and words so short    *)
(* that after a loss the next deposits and redemptions pass them: small    *)
(* enough to explore completely.                                           *)
(***************************************************************************)
EXTENDS StrategyVaultProperties, TLC

CONSTANTS alice, bob, carol

MCInvestors == {alice, bob, carol}
MCAmounts == 1 .. 4
MCDeltas == {-3, -1, 0, 1, 2}
MCEndowment == (alice :> 3) @@ (bob :> 2) @@ (carol :> 1)

=============================================================================
