---------------------------- MODULE MCSettlement ----------------------------
(***************************************************************************)
(* A deposit and its redemption; two deposits and two redemptions, enough  *)
(* to redeem more than is on file; a wallet that has to be funded on the   *)
(* way; and a deposit of one person on a browser that a second one signs   *)
(* in to.  A write of gas is the unit of gas.                              *)
(***************************************************************************)
EXTENDS Settlement, TLC

CONSTANTS alice, bob, nobody, flush1

MCDeposit == [user |-> alice, kind |-> "deposit", shares |-> 2, assets |-> 5]
MCRedeem == [user |-> alice, kind |-> "withdraw", shares |-> 2, assets |-> 4]
MCSecond == [user |-> alice, kind |-> "deposit", shares |-> 1, assets |-> 3]
MCOther == [user |-> alice, kind |-> "withdraw", shares |-> 1, assets |-> 2]

MCOneUser == {alice}
MCTwoUsers == {alice, bob}
MCTransfers == {MCDeposit, MCSecond, MCRedeem, MCOther}
MCFlushes == {flush1}
attempts(retried) == [t \in Transfers |-> IF t \in retried THEN 1 ELSE 0]

MCUnreliable ==
  [transfers |-> {MCDeposit, MCRedeem}, flushes |-> {flush1}, lastAttempt |-> attempts({MCDeposit}),
   usdc |-> 5, gas |-> 3, faults |-> {"drop", "close"}]
MCReordered ==
  [transfers |-> MCTransfers, flushes |-> {}, lastAttempt |-> attempts({}),
   usdc |-> 8, gas |-> 6, faults |-> {}]
MCFunded ==
  [transfers |-> MCTransfers, flushes |-> {}, lastAttempt |-> attempts({}),
   usdc |-> 3, gas |-> 1, faults |-> {"faucet"}]
MCContended ==
  [transfers |-> {MCDeposit, MCSecond}, flushes |-> {}, lastAttempt |-> attempts({}),
   usdc |-> 6, gas |-> 3, faults |-> {"write", "quote", "overlap", "close"}]
MCShared ==
  [transfers |-> {MCDeposit}, flushes |-> {flush1}, lastAttempt |-> attempts({MCDeposit}),
   usdc |-> 5, gas |-> 2, faults |-> {}]

MCConditions == {MCUnreliable, MCReordered, MCFunded, MCContended}
MCOnlyShared == {MCShared}

=============================================================================
