------------------------------ MODULE Amounts ------------------------------
(***************************************************************************)
(* The money of one bet, from the two selected inputs to the last payout:  *)
(* what fund_pot computes and checks (src/src/bet.rs), what the pre-signed *)
(* transactions pay (tx_graph of src/src/setup.rs), and how a claim is     *)
(* split (src/src/txgraph.rs).  Amounts are satoshis.  A node relays a     *)
(* transaction only if no output is dust and its fee is not below the      *)
(* node's floor; that rule is the node's, not the code's.                  *)
(***************************************************************************)
EXTENDS Integers

CONSTANTS
    Dust,          \* DUST: the least a taproot output may carry
    MinRelayFee,   \* the least fee the nodes relay
    Stakes, Fees,  \* stakes and fees a proposal may name
    Inputs         \* values of the wallets' coins

ASSUME AmountsAssumption ==
    /\ Dust \in Nat \ {0}
    /\ MinRelayFee \in Nat
    /\ Stakes \subseteq Nat \ {0}
    /\ Fees \subseteq Nat
    /\ Inputs \subseteq Nat

VARIABLES
    stage,   \* how far the bet has come
    stake,   \* ProposeTerms.stake_sats: both parties stake the same
    fee,     \* ProposeTerms.fee_sats, paid by every transaction
    input,   \* the coin each party brings
    u1,      \* the value of U1
    paid     \* what each party has got back

vars == <<stage, stake, fee, input, u1, paid>>

Party == {"dealer", "player"}

Stage == {"terms", "offered", "agreed", "funded", "armed", "locked", "settled",
          "refunded", "conceded", "claimed", "reclaimed", "aborted"}

----------------------------------------------------------------------------
(* The arithmetic of the code.                                             *)

\* The pot at risk, S = a + b.
S == stake + stake

\* select_input's argument, for each party.
Need(p) == IF p = "dealer" THEN stake + 6 * fee ELSE stake + fee

\* funding_amounts: the dealer's whole coin and the player's stake go into
\* U1, the dealer bears the fee, the rest of the player's coin is change.
U1Value(fA) == fA + stake - fee

\* Mutant: each party is charged for the funding.
PlayerChangeCharged(fB) == fB - stake - fee

PlayerChange(fB) == fB - stake

FundingAmountsOk(fA, fB) == U1Value(fA) >= 0 /\ PlayerChange(fB) >= 0

\* check_park: a surplus above five fees, and no two equal outputs.
CheckPark(value) ==
    /\ value >= S
    /\ value - S >= 5 * fee
    /\ value - S - fee # S

\* Mutant: the settlement keeps the whole reserve of five fees.
DealerSurplusLessReserve == u1 - S - 5 * fee

\* The surplus the settlement returns to the dealer, c_A_out.
DealerSurplus == u1 - S - fee

\* What the refund returns to the dealer, F_A_out.
DealerRefund == u1 - stake - fee

\* split_payment: a third is change, no part is dust, no two equal parts.
SplitPayment(total) ==
    /\ total >= 0
    /\ total \div 3 >= Dust
    /\ total - total \div 3 # total \div 3

\* The nodes relay a transaction with these outputs (external).
Relayed(outputs) == fee >= MinRelayFee /\ \A value \in outputs : value >= Dust

----------------------------------------------------------------------------
(* fund_pot.                                                               *)

Init ==
    /\ stage = "terms"
    /\ stake \in Stakes
    /\ fee \in Fees
    /\ input = [p \in Party |-> 0]
    /\ u1 = 0
    /\ paid = [p \in Party |-> 0]

Advance(here, there) == stage = here /\ stage' = there

\* An error before anything is broadcast: the coins stay in the wallets.
Abort(here) ==
    /\ Advance(here, "aborted")
    /\ UNCHANGED <<stake, fee, input, u1, paid>>

\* The dealer selects a coin and opens.
DealerSelect ==
    /\ Advance("terms", "offered")
    /\ \E coin \in Inputs : coin >= Need("dealer") /\ input' = [input EXCEPT !["dealer"] = coin]
    /\ UNCHANGED <<stake, fee, u1, paid>>

\* The player selects his, computes the amounts, checks them and builds TX1.
PlayerSelect ==
    /\ Advance("offered", "agreed")
    /\ \E coin \in Inputs :
          /\ coin >= Need("player")
          /\ FundingAmountsOk(input["dealer"], coin)
          /\ CheckPark(U1Value(input["dealer"]))
          /\ input' = [input EXCEPT !["player"] = coin]
    /\ u1' = U1Value(input["dealer"])
    /\ UNCHANGED <<stake, fee, paid>>

\* select_input finds no coin that large.
NoCoin == Abort("terms") \/ Abort("offered")

\* The amounts fail the player's checks.
PlayerRefuses ==
    /\ ~(FundingAmountsOk(input["dealer"], stake) /\ CheckPark(U1Value(input["dealer"])))
    /\ Abort("offered")

\* The dealer computes and checks the same amounts on what he was sent.
DealerVerify ==
    /\ Advance("agreed", "funded")
    /\ FundingAmountsOk(input["dealer"], input["player"])
    /\ CheckPark(U1Value(input["dealer"]))
    /\ UNCHANGED <<stake, fee, input, u1, paid>>

----------------------------------------------------------------------------
(* setup and broadcast_funding.                                            *)

\* Mutant: the reclaim is not built before the funding is broadcast.
SetupWithoutReclaim ==
    /\ Advance("funded", "armed")
    /\ DealerSurplus >= 0 /\ DealerRefund >= 0
    /\ UNCHANGED <<stake, fee, input, u1, paid>>

\* tx_graph, and the dealer's reclaim, which splits what a claim would.
Setup ==
    /\ Advance("funded", "armed")
    /\ DealerSurplus >= 0 /\ DealerRefund >= 0
    /\ SplitPayment(S - fee)
    /\ UNCHANGED <<stake, fee, input, u1, paid>>

SetupFails ==
    /\ ~(DealerSurplus >= 0 /\ DealerRefund >= 0 /\ SplitPayment(S - fee))
    /\ Abort("funded")

\* TX1 confirms, and the player has his change.
Lock ==
    /\ Advance("armed", "locked")
    /\ Relayed({u1, PlayerChange(input["player"])})
    /\ paid' = [paid EXCEPT !["player"] = @ + PlayerChange(input["player"])]
    /\ UNCHANGED <<stake, fee, input, u1>>

\* TX1 is not relayed: waiting for it ends with an error.
LockFails ==
    /\ ~Relayed({u1, PlayerChange(input["player"])})
    /\ Abort("armed")

----------------------------------------------------------------------------
(* The spends of U1 and of O_K.                                            *)

\* Mutant: the pot is taken from what the party gets.
PayLessPot(p, value) == paid' = [paid EXCEPT ![p] = @ + value - S]

Pay(p, value) == paid' = [paid EXCEPT ![p] = @ + value]

Settle ==
    /\ Advance("locked", "settled")
    /\ Relayed({S, DealerSurplus})
    /\ Pay("dealer", DealerSurplus)
    /\ UNCHANGED <<stake, fee, input, u1>>

\* build_coop_tx: both outputs are the dealer's.
Concede ==
    /\ Advance("locked", "conceded")
    /\ Relayed({S, DealerSurplus})
    /\ Pay("dealer", S + DealerSurplus)
    /\ UNCHANGED <<stake, fee, input, u1>>

Refund ==
    /\ Advance("locked", "refunded")
    /\ Relayed({DealerRefund, stake})
    /\ paid' = [paid EXCEPT !["dealer"] = @ + DealerRefund, !["player"] = @ + stake]
    /\ UNCHANGED <<stake, fee, input, u1>>

\* A two-output spend of O_K: the player's claim or the dealer's reclaim.
Take(p, there) ==
    /\ Advance("settled", there)
    /\ SplitPayment(S - fee)
    /\ Pay(p, S - fee)
    /\ UNCHANGED <<stake, fee, input, u1>>

Next ==
    \/ DealerSelect \/ PlayerSelect \/ NoCoin \/ PlayerRefuses \/ DealerVerify
    \/ Setup \/ SetupFails \/ Lock \/ LockFails
    \/ Settle \/ Concede \/ Refund
    \/ Take("player", "claimed") \/ Take("dealer", "reclaimed")

Spec == Init /\ [][Next]_vars

----------------------------------------------------------------------------
(* Properties.                                                             *)

AmountsTypeOK ==
    /\ stage \in Stage
    /\ stake \in Nat \ {0} /\ fee \in Nat
    /\ input \in [Party -> Nat]
    /\ u1 \in Nat
    /\ paid \in [Party -> Nat]

Committed == stage \in {"locked", "settled", "refunded", "conceded", "claimed", "reclaimed"}

\* Once the stakes are locked no exit is blocked by an amount: the refund is
\* relayed, and a claim of O_K splits into two parts above dust, because the
\* dealer's setup has already split the same total before the lock.
NoExitTooSmall ==
    Committed => /\ Relayed({DealerRefund, stake})
                 /\ SplitPayment(S - fee)

\* The settlement and the overlay are relayed too: four fees of surplus are
\* above dust wherever the nodes' fee floor is a quarter of it or more.
SettlementRelayed == Committed => Relayed({S, DealerSurplus})

\* What each party has at the end.  The dealer pays the fee of the funding
\* and of the spend of U1, the taker of O_K pays the last one, and the stake
\* of the loser is exactly what the winner gains.
FinalBalances ==
    LET gain(p) == paid[p] - input[p] IN
    /\ stage = "refunded"  => gain("dealer") = -2 * fee /\ gain("player") = 0
    /\ stage = "conceded"  => gain("dealer") = stake - 2 * fee /\ gain("player") = -stake
    /\ stage = "claimed"   => gain("dealer") = -stake - 2 * fee /\ gain("player") = stake - fee
    /\ stage = "reclaimed" => gain("dealer") = stake - 3 * fee /\ gain("player") = -stake
============================================================================
