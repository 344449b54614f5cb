---------------------------- MODULE AmountsProofs ---------------------------
(***************************************************************************)
(* The money of a bet for every stake, fee and coin: no exit of a locked   *)
(* bet is blocked by an amount, and who ends with what.                    *)
(***************************************************************************)
EXTENDS Amounts, TLAPS

Agreed == Committed \/ stage \in {"agreed", "funded", "armed"}

\* What the checks of fund_pot and setup leave true for the rest of the bet,
\* and what each party has been paid so far: the strengthening the proofs use.
AmountsInv ==
    /\ stage = "offered" => input["dealer"] >= Need("dealer")
    /\ Agreed => /\ u1 = U1Value(input["dealer"])
                 /\ CheckPark(u1)
                 /\ input["player"] >= Need("player")
    /\ Committed \/ stage = "armed" =>
          DealerSurplus >= 0 /\ DealerRefund >= 0 /\ SplitPayment(S - fee)
    /\ Committed => Relayed({u1, PlayerChange(input["player"])})
    /\ stage \in {"terms", "offered", "agreed", "funded", "armed"} =>
          paid["dealer"] = 0 /\ paid["player"] = 0
    /\ stage \in {"locked", "settled", "conceded", "reclaimed"} =>
          paid["player"] = PlayerChange(input["player"])
    /\ stage = "locked" => paid["dealer"] = 0
    /\ stage \in {"settled", "claimed"} => paid["dealer"] = DealerSurplus
    /\ stage = "refunded" => /\ paid["dealer"] = DealerRefund
                             /\ paid["player"] = PlayerChange(input["player"]) + stake
    /\ stage = "conceded" => paid["dealer"] = S + DealerSurplus
    /\ stage = "reclaimed" => paid["dealer"] = DealerSurplus + S - fee
    /\ stage = "claimed" => paid["player"] = PlayerChange(input["player"]) + S - fee

AllInv == AmountsTypeOK /\ AmountsInv

USE DEF Party, Stage

----------------------------------------------------------------------------
\* The first state satisfies the invariant.
LEMMA InitInv == Init => AllInv
  BY AmountsAssumption DEF Init, AllInv, AmountsTypeOK, AmountsInv, Committed, Agreed

\* Every operation of the bet preserves it.
LEMMA StepInv == AllInv /\ [Next]_vars => AllInv'
<1> SUFFICES ASSUME AllInv, [Next]_vars PROVE AllInv'
  OBVIOUS
<1> USE AmountsAssumption DEF AllInv, AmountsTypeOK, AmountsInv, Committed, Agreed
<1>1. CASE DealerSelect
  BY <1>1 DEF DealerSelect, Advance, Need, U1Value, PlayerChange, DealerSurplus, DealerRefund, S, Need, CheckPark, SplitPayment, Relayed
<1>2. CASE PlayerSelect
  BY <1>2 DEF PlayerSelect, Advance, Need, CheckPark, FundingAmountsOk, U1Value, PlayerChange, DealerSurplus, DealerRefund, S, Need, CheckPark, SplitPayment, Relayed
<1>3. CASE NoCoin
  BY <1>3 DEF NoCoin, Abort, Advance, U1Value, PlayerChange, DealerSurplus, DealerRefund, S, Need, CheckPark, SplitPayment, Relayed
<1>4. CASE PlayerRefuses
  BY <1>4 DEF PlayerRefuses, Abort, Advance, U1Value, PlayerChange, DealerSurplus, DealerRefund, S, Need, CheckPark, SplitPayment, Relayed
<1>5. CASE DealerVerify
  BY <1>5 DEF DealerVerify, Advance, U1Value, PlayerChange, DealerSurplus, DealerRefund, S, Need, CheckPark, SplitPayment, Relayed
<1>6. CASE Setup
  BY <1>6 DEF Setup, Advance, U1Value, PlayerChange, DealerSurplus, DealerRefund, S, Need, CheckPark, SplitPayment, Relayed
<1>7. CASE SetupFails
  BY <1>7 DEF SetupFails, Abort, Advance, U1Value, PlayerChange, DealerSurplus, DealerRefund, S, Need, CheckPark, SplitPayment, Relayed
<1>8. CASE Lock
  BY <1>8 DEF Lock, Advance, U1Value, PlayerChange, DealerSurplus, DealerRefund, S, Need, CheckPark, SplitPayment, Relayed
<1>9. CASE LockFails
  BY <1>9 DEF LockFails, Abort, Advance, U1Value, PlayerChange, DealerSurplus, DealerRefund, S, Need, CheckPark, SplitPayment, Relayed
<1>10. CASE Settle
  BY <1>10 DEF Settle, Advance, Pay, U1Value, PlayerChange, DealerSurplus, DealerRefund, S, Need, CheckPark, SplitPayment, Relayed
<1>11. CASE Concede
  BY <1>11 DEF Concede, Advance, Pay, U1Value, PlayerChange, DealerSurplus, DealerRefund, S, Need, CheckPark, SplitPayment, Relayed
<1>12. CASE Refund
  BY <1>12 DEF Refund, Advance, Pay, U1Value, PlayerChange, DealerSurplus, DealerRefund, S, Need, CheckPark, SplitPayment, Relayed
<1>13. CASE Take("player", "claimed")
  BY <1>13 DEF Take, Advance, Pay, U1Value, PlayerChange, DealerSurplus, DealerRefund, S, Need, CheckPark, SplitPayment, Relayed
<1>14. CASE Take("dealer", "reclaimed")
  BY <1>14 DEF Take, Advance, Pay, U1Value, PlayerChange, DealerSurplus, DealerRefund, S, Need, CheckPark, SplitPayment, Relayed
<1>15. CASE UNCHANGED vars
  BY <1>15 DEF vars, U1Value, PlayerChange, DealerSurplus, DealerRefund, S, Need, CheckPark, SplitPayment, Relayed
<1> QED BY <1>1, <1>2, <1>3, <1>4, <1>5, <1>6, <1>7, <1>8, <1>9, <1>10, <1>11, <1>12, <1>13, <1>14, <1>15 DEF Next

\* The invariant holds of every state of the bet.
LEMMA AlwaysInv == Spec => []AllInv
<1>1. Init => AllInv
  BY InitInv
<1>2. AllInv /\ [Next]_vars => AllInv'
  BY StepInv
<1> QED BY <1>1, <1>2, PTL DEF Spec

\* Splitting into thirds bounds the total from below.
LEMMA SplitBound == ASSUME NEW total \in Nat, SplitPayment(total) PROVE total >= 3 * Dust
  BY AmountsAssumption DEF SplitPayment

----------------------------------------------------------------------------
(* What the invariant implies.                                             *)

\* The amounts keep their types: no balance the parties compute is negative.
THEOREM AmountsTypeCorrect == Spec => []AmountsTypeOK
<1>1. AllInv => AmountsTypeOK
  BY DEF AllInv
<1> QED BY <1>1, AlwaysInv, PTL

\* Once the stakes are locked, the refund is relayed and a claim of O_K
\* splits, whatever was staked and whatever fee was agreed.
THEOREM ExitsNeverTooSmall == Spec => []NoExitTooSmall
<1>1. AllInv => NoExitTooSmall
  <2> SUFFICES ASSUME AllInv, Committed PROVE Relayed({DealerRefund, stake}) /\ SplitPayment(S - fee)
    BY DEF NoExitTooSmall
  <2> USE DEF AllInv, AmountsInv, AmountsTypeOK
  <2>1. /\ stake \in Nat /\ fee \in Nat /\ u1 \in Nat
        /\ SplitPayment(S - fee)
        /\ CheckPark(u1)
        /\ fee >= MinRelayFee
    BY DEF Committed, Agreed, Relayed
  <2>2. S - fee \in Nat /\ S - fee >= 3 * Dust
    <3>1. S - fee \in Nat
      BY <2>1 DEF SplitPayment, S
    <3> QED BY <3>1, <2>1, SplitBound
  <2>3. stake >= Dust /\ DealerRefund >= Dust
    BY <2>1, <2>2, AmountsAssumption DEF S, CheckPark, DealerRefund
  <2> QED BY <2>1, <2>3 DEF Relayed
<1> QED BY <1>1, AlwaysInv, PTL

\* Where four times the nodes' fee floor is above dust, the settlement and the
\* overlay are relayed as well.
THEOREM SettlementsRelayed == 4 * MinRelayFee >= Dust => (Spec => []SettlementRelayed)
<1> SUFFICES ASSUME 4 * MinRelayFee >= Dust PROVE Spec => []SettlementRelayed
  OBVIOUS
<1>1. AllInv => SettlementRelayed
  <2> SUFFICES ASSUME AllInv, Committed PROVE Relayed({S, DealerSurplus})
    BY DEF SettlementRelayed
  <2> USE DEF AllInv, AmountsInv, AmountsTypeOK
  <2>1. /\ stake \in Nat /\ fee \in Nat /\ u1 \in Nat
        /\ SplitPayment(S - fee)
        /\ CheckPark(u1)
        /\ fee >= MinRelayFee
    BY DEF Committed, Agreed, Relayed
  <2>2. S - fee \in Nat /\ S - fee >= 3 * Dust
    <3>1. S - fee \in Nat
      BY <2>1 DEF SplitPayment, S
    <3> QED BY <3>1, <2>1, SplitBound
  <2>3. S >= Dust /\ DealerSurplus >= Dust
    BY <2>1, <2>2, AmountsAssumption DEF S, CheckPark, DealerSurplus
  <2> QED BY <2>1, <2>3 DEF Relayed
<1> QED BY <1>1, AlwaysInv, PTL

\* Who ends with what: the loser pays exactly his stake, and the fees fall on
\* the dealer but for the last one.
THEOREM BalancesAddUp == Spec => []FinalBalances
<1>1. AllInv => FinalBalances
  BY AmountsAssumption
     DEF AllInv, AmountsInv, AmountsTypeOK, FinalBalances, Committed, Agreed, U1Value,
         PlayerChange, DealerSurplus, DealerRefund, S
<1> QED BY <1>1, AlwaysInv, PTL
============================================================================
