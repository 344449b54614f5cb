------------------------------ MODULE Recover ------------------------------
(***************************************************************************)
(* Recovery from the bet record (src/src/recover.rs): what `assess` tells  *)
(* the operator about a record, and what `recover <id>` and                *)
(* `recover <id> refund` do with it.  Neither writes the record.           *)
(*                                                                         *)
(* The node's main loop runs these commands (`recover_cmd` of              *)
(* src/src/agent.rs) while the peer worker may still be playing the bet;   *)
(* RecoverWhileLive says whether the operator ever does that.              *)
(***************************************************************************)
EXTENDS Bet

CONSTANTS
    Operators,         \* the parties whose operator may run recovery commands
    RecoverWhileLive   \* even while the party's own session is playing

ASSUME RecoverAssumption ==
    /\ Operators \subseteq Party
    /\ RecoverWhileLive \in BOOLEAN

\* Mutant: the reclaim is offered a block before its leaf matures.
AssessReclaimEarly(p) ==
    IF record[p].phase = "Done" THEN "resolved"
    ELSE IF ~record[p].setup THEN "nothing committed"
    ELSE IF U1Live THEN IF p = "dealer" THEN "settle" ELSE "wait for settlement"
    ELSE IF ~Known(p, "settle") THEN "U1 already spent"
    ELSE IF ~ClaimOutputUnspent THEN "claimed already"
    ELSE IF p = "player" THEN "claim if won"
    ELSE IF confs["settle"] + 1 >= AliceTimeout THEN "reclaim"
    ELSE "wait for claim"

\* The verdicts of `assess`, in the order it tries them.
Assess(p) ==
    IF record[p].phase = "Done" THEN "resolved"
    ELSE IF ~record[p].setup THEN "nothing committed"
    ELSE IF U1Live THEN IF p = "dealer" THEN "settle" ELSE "wait for settlement"
    ELSE IF ~Known(p, "settle") THEN "U1 already spent"
    ELSE IF ~ClaimOutputUnspent THEN "claimed already"
    ELSE IF p = "player" THEN "claim if won"
    ELSE IF confs["settle"] >= AliceTimeout THEN "reclaim"
    ELSE "wait for claim"

MayRecover(p) ==
    /\ p \in Operators
    /\ record[p].setup
    /\ RecoverWhileLive \/ pc[p] \in Ended

\* `settle_action`: U1 is live, so post d.
RecoverSettle ==
    /\ MayRecover("dealer")
    /\ U1Live
    /\ Broadcast("dealer", "settle")

\* Past this point U1 is not a confirmed unspent output and the settlement
\* is on chain or in the pool.
SettledPath(p) == ~U1Live /\ Known(p, "settle")

\* `observe_and_claim`: extract d, decrypt a_c, claim a win.
RecoverClaim ==
    /\ MayRecover("player")
    /\ SettledPath("player")
    /\ Won
    /\ Broadcast("player", "recoveredClaim")

\* Mutant: recovery believes a record that says Done.
RecoverReclaimUnlessDone ==
    /\ MayRecover("dealer")
    /\ record["dealer"].phase # "Done"
    /\ SettledPath("dealer")
    /\ confs["settle"] >= AliceTimeout
    /\ Broadcast("dealer", "reclaim")

\* `reclaim_action`: the reclaim signed at setup, once the leaf matures.
RecoverReclaim ==
    /\ MayRecover("dealer")
    /\ SettledPath("dealer")
    /\ confs["settle"] >= AliceTimeout
    /\ Broadcast("dealer", "reclaim")

\* Mutant: only the dealer holds the refund.
RecoverRefundDealer(p) ==
    /\ p = "dealer"
    /\ MayRecover(p)
    /\ height >= RefundLocktime
    /\ Broadcast(p, "refund")

\* `broadcast_refund`: the abort path, open to both.
RecoverRefund(p) ==
    /\ MayRecover(p)
    /\ height >= RefundLocktime
    /\ Broadcast(p, "refund")

RecoverStep(p) ==
    /\ \/ p = "dealer" /\ (RecoverSettle \/ RecoverReclaim)
       \/ p = "player" /\ RecoverClaim
       \/ RecoverRefund(p)
    /\ UNCHANGED <<choice, guess, sessionVars>>
============================================================================
