------------------------------ MODULE FairBet ------------------------------
(***************************************************************************)
(* What a bet promises, with no sessions, frames, records or pools: where  *)
(* the pot is and what the two parties were told.                          *)
(*                                                                         *)
(* The pot leaves the wallets once and ends in one of four ways.  It is    *)
(* conceded to the dealer only if the player lost, claimed by the player   *)
(* only if he won, refunded only after the refund locktime and reclaimed   *)
(* by the dealer only after the timeout leaf matured.  An outcome is       *)
(* reported only when it can no longer be contradicted.                    *)
(***************************************************************************)

CONSTANT Party

VARIABLES
    playerWon,  \* did the player guess right?
    pot,        \* where the pot is
    expired,    \* has the refund locktime passed?
    mature,     \* has the timeout leaf of the claim output matured?
    told        \* the outcome each party was told

vars == <<playerWon, pot, expired, mature, told>>

Pot == {"wallets", "locked", "refunded", "conceded", "settled", "claimed", "reclaimed"}

Outcome == {"none", "DealerWins", "PlayerWins"}

TypeOK ==
    /\ playerWon \in BOOLEAN
    /\ pot \in Pot
    /\ expired \in BOOLEAN
    /\ mature \in BOOLEAN
    /\ told \in [Party -> Outcome]

Init ==
    /\ playerWon \in BOOLEAN
    /\ pot = "wallets"
    /\ expired \in BOOLEAN
    /\ mature = FALSE
    /\ told = [p \in Party |-> "none"]

\* The transactions one block may add to a pot in this place.
Moves(place) ==
    CASE place = "wallets" -> {"locked"}
      [] place = "locked" -> {"settled"} \union (IF expired THEN {"refunded"} ELSE {})
                                         \union (IF playerWon THEN {} ELSE {"conceded"})
      [] place = "settled" -> (IF playerWon THEN {"claimed"} ELSE {})
                              \union (IF mature THEN {"reclaimed"} ELSE {})
      [] OTHER -> {}

Beyond(places) == places \union UNION {Moves(place) : place \in places}

\* A block may hold a chain of up to three of them.
Block ==
    /\ pot' \in Beyond(Beyond(Beyond({pot})))
    /\ expired' \in BOOLEAN /\ (expired => expired')
    /\ mature' \in BOOLEAN /\ (mature => mature')
    /\ mature' => pot' \in {"settled", "claimed", "reclaimed"}
    /\ UNCHANGED <<playerWon, told>>

Justified(outcome) ==
    \/ outcome = "PlayerWins" /\ pot = "claimed"
    \/ outcome = "DealerWins" /\ (~playerWon \/ pot = "reclaimed")

Tell(p) ==
    /\ told[p] = "none"
    /\ \E outcome \in {"DealerWins", "PlayerWins"} :
          /\ Justified(outcome)
          /\ told' = [told EXCEPT ![p] = outcome]
    /\ UNCHANGED <<playerWon, pot, expired, mature>>

Next == Block \/ \E p \in Party : Tell(p)

Spec == Init /\ [][Next]_vars

----------------------------------------------------------------------------

\* Two parties that were told an outcome were told the same one.
Agreement ==
    \A p, q \in Party : told[p] # "none" /\ told[q] # "none" => told[p] = told[q]
============================================================================
