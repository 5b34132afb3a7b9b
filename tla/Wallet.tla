------------------------------- MODULE Wallet -------------------------------
(***************************************************************************)
(* frontend/src/lib/wallet.ts and the forms that call it: how a transfer   *)
(* gets to the chain.  The form bounds what may be asked for by what the   *)
(* page last fetched; the wallet then reads gas and USDC, and only after   *)
(* that signs: an approval and a deposit, or a withdrawal, each waited     *)
(* for.  Nothing keeps the balances still between the reads and the        *)
(* writes: another tab spends from the same wallet.                        *)
(*                                                                         *)
(* The form's USDC figure may be missing, and then bounds nothing: it is   *)
(* left out.  All transfers are with one vault, at a fixed price.          *)
(***************************************************************************)
EXTENDS Integers, Sequences, FiniteSets, SequencesExt

CONSTANTS
  Users,
  Transfers,   \* records: user, kind, shares, assets
  Nobody,      \* no session, or an expired one
  Conditions,  \* what a run may be exposed to, see below
  MinGas,      \* the faucet tops up below it (gas is counted in writes)
  TopUp,
  Minted,
  MaxFunding   \* bound: a wallet is funded while it holds no more than this

ASSUME NobodyAssumption == Nobody \notin Users
ASSUME TransfersAssumption ==
  \A t \in Transfers : /\ t.user \in Users /\ t.kind \in {"deposit", "withdraw"}
                       /\ t.shares \in Nat /\ t.assets \in Nat
ASSUME ConditionsAssumption == \A c \in Conditions : c.usdc \in Nat /\ c.gas \in Nat
ASSUME AmountsAssumption == TopUp \in Nat /\ Minted \in Nat

VARIABLES
  conditions,  \* transfers, flushes, lastAttempt, usdc, gas, faults of this run
  held,        \* sharesOf on the chain
  usdc, gas,   \* the balances of each wallet
  allowance,   \* what the vault may take
  shown,       \* the shares each user's forms offer to redeem, as last fetched
  signedIn,    \* whose session token the browser holds
  job          \* each transfer's submit(), from the button to the toast

chain == <<held, usdc, gas, allowance>>
walletVars == <<conditions, chain, shown, signedIn, job>>

Faults == conditions.faults
LastAttempt == conditions.lastAttempt

WalletInit ==
  /\ conditions \in Conditions
  /\ held = [u \in Users |-> 0]
  /\ usdc = [u \in Users |-> conditions.usdc]
  /\ gas = [u \in Users |-> conditions.gas]
  /\ allowance = [u \in Users |-> 0]
  /\ shown = [u \in Users |-> 0]
  /\ signedIn \in Users \cup {Nobody}
  /\ job = [t \in Transfers |-> [pc |-> "none", attempt |-> 0]]

goes(t, pc) == job' = [job EXCEPT ![t].pc = pc]
isDeposit(t) == t.kind = "deposit"
inFlight(t) == job[t].pc \in {"checking", "approving", "writing"}

-----------------------------------------------------------------------------
(***************************************************************************)
(* The button and the first read: gas for every write of the flow.  A node *)
(* that quotes no fee lets any wallet through that is not empty.           *)
(***************************************************************************)

\* Variant: an allocation is priced as the deposit alone.
depositUnits(t) == 1

gasUnits(t) == IF isDeposit(t) THEN 2 ELSE 1

assertGas(t) == \/ gas[t.user] >= gasUnits(t)
                \/ "quote" \in Faults /\ gas[t.user] # 0

\* No more is redeemed than the page shows is held.
ready(t) == isDeposit(t) \/ t.shares <= shown[t.user]

Submit(t) ==
  /\ job[t].pc = "none"
  /\ t \in conditions.transfers
  /\ signedIn = t.user
  /\ ready(t)
  /\ "overlap" \notin Faults => \A o \in Transfers : o.user = t.user => ~inFlight(o)
  /\ assertGas(t)
  /\ goes(t, IF isDeposit(t) THEN "checking" ELSE "writing")
  /\ UNCHANGED <<conditions, chain, shown, signedIn>>

assertUsdc(t) ==
  /\ job[t].pc = "checking"
  /\ goes(t, IF usdc[t.user] >= t.assets THEN "approving" ELSE "refused")
  /\ UNCHANGED <<conditions, chain, shown, signedIn>>

-----------------------------------------------------------------------------
(***************************************************************************)
(* The writes.  Each is simulated before it is signed, so a revert is an   *)
(* error and no transaction; one that was mined may still fail for the     *)
(* caller, whose wait for the receipt ends early.                          *)
(***************************************************************************)
unheard(t, pc) == IF "write" \in Faults THEN goes(t, pc) ELSE FALSE

approves(t) == gas[t.user] > 0
Approve(t) ==
  /\ job[t].pc = "approving"
  /\ approves(t)
  /\ allowance' = [allowance EXCEPT ![t.user] = t.assets]
  /\ gas' = [gas EXCEPT ![t.user] = @ - 1]
  /\ goes(t, "writing") \/ unheard(t, "refused")
  /\ UNCHANGED <<conditions, held, usdc, shown, signedIn>>

\* The vault's own conditions, and the gas.
accepts(t) ==
  /\ gas[t.user] > 0
  /\ IF isDeposit(t) THEN usdc[t.user] >= t.assets /\ allowance[t.user] >= t.assets
     ELSE held[t.user] >= t.shares

Transfer(t) ==
  /\ job[t].pc = "writing"
  /\ accepts(t)
  /\ gas' = [gas EXCEPT ![t.user] = @ - 1]
  /\ IF isDeposit(t)
     THEN /\ held' = [held EXCEPT ![t.user] = @ + t.shares]
          /\ usdc' = [usdc EXCEPT ![t.user] = @ - t.assets]
          /\ allowance' = [allowance EXCEPT ![t.user] = @ - t.assets]
     ELSE /\ held' = [held EXCEPT ![t.user] = @ - t.shares]
          /\ usdc' = [usdc EXCEPT ![t.user] = @ + t.assets]
          /\ UNCHANGED allowance
  /\ goes(t, "mined") \/ unheard(t, "lost")
  /\ UNCHANGED <<conditions, shown, signedIn>>

Refused(t) ==
  /\ \/ job[t].pc = "approving" /\ ~approves(t)
     \/ job[t].pc = "writing" /\ ~accepts(t)
     \/ inFlight(t) /\ "write" \in Faults
  /\ goes(t, "refused")
  /\ UNCHANGED <<conditions, chain, shown, signedIn>>

(***************************************************************************)
(* POST /wallet/faucet: gas if the wallet is short of it, then USDC, two   *)
(* transactions of the backend; the second may fail after the first.       *)
(***************************************************************************)
ensureGas(u) == gas' = [gas EXCEPT ![u] = IF @ < MinGas THEN @ + TopUp ELSE @]

Faucet(u) ==
  /\ "faucet" \in Faults
  /\ signedIn = u
  /\ usdc[u] <= MaxFunding
  /\ ensureGas(u)
  /\ \/ usdc' = [usdc EXCEPT ![u] = @ + Minted]
     \/ UNCHANGED usdc
  /\ UNCHANGED <<conditions, held, allowance, shown, signedIn, job>>

WalletStep ==
  \/ \E t \in Transfers : Submit(t) \/ assertUsdc(t) \/ Approve(t) \/ Transfer(t) \/ Refused(t)
  \/ \E u \in Users : Faucet(u)

=============================================================================
