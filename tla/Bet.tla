-------------------------------- MODULE Bet --------------------------------
(***************************************************************************)
(* One bet, played by two live sessions: the dealer's (`play_dealer`) and  *)
(* the player's (`play_player`) of src/src/game.rs, over the verbs that    *)
(* src/src/bet.rs implements and the four flights of src/src/setup.rs.     *)
(*                                                                         *)
(* A session is a program counter whose labels are the points where the    *)
(* code blocks, sends, writes the chain or writes the disk; a crash or an  *)
(* error may hit any of them.  The sessions talk over two FIFO channels    *)
(* of frames and meet on the chain (module Chain).  What survives a crash  *)
(* is the bet record on disk.  Both parties run this code: frames carry    *)
(* what the code puts in them, so the checks on their content succeed.     *)
(***************************************************************************)
EXTENDS Chain, Sequences

CONSTANTS
    Thimbles,   \* the two thimbles the dealer's ball may be under
    Faults      \* may sessions crash and deadlines pass?

ASSUME BetAssumption == Faults \in BOOLEAN

VARIABLES
    choice,     \* the thimble the dealer chose (AliceSecrets.choice)
    guess,      \* the thimble the player picked (BobSecrets.guess)
    pc,         \* where each session is
    chan,       \* frames on their way to each party
    hasSetup,   \* Bet.setup is Some(..): refund and settlement pre-signed
    record,     \* each party's bet record on disk
    refundFile, \* parties with the refund-<txid>.txt file on disk
    report      \* the Outcome a finished session returned

sessionVars == <<pc, chan, hasSetup, record, refundFile, report>>
betVars == <<choice, guess, sessionVars, chainVars>>

Peer(p) == IF p = "dealer" THEN "player" ELSE "dealer"

\* The frames of src/src/messages.rs, by type.
Frame == {"FundOpen", "FundReply", "AliceOpen", "BobCommit", "AliceReveal",
          "BobAuth", "FundSign", "FundFinal", "CoopReveal"}

Outcome == {"DealerWins", "PlayerWins"}

Phase == {"Funded", "SetupDone", "FundingBroadcast", "Settled", "Observed", "Done"}

NoRecord == [phase |-> "none", setup |-> FALSE]

Record == {NoRecord} \union [phase : Phase, setup : BOOLEAN]

Ended == {"ok", "failed"}

\* Labels where a session waits for a frame (`recv`) and gives up after a
\* while, and where it polls the chain until a deadline ends it with an error.
RecvLabels == {"recvFundReply", "recvBobCommit", "recvBobAuth", "recvFundSign",
               "recvFundOpen", "recvAliceOpen", "recvAliceReveal", "recvFundFinal"}

WaitLabels == {"waitFunding", "waitSettle", "waitTimelock", "waitReclaim",
               "waitCoop", "waitClaim", "pollSettle"}

Label == Ended \union RecvLabels \union WaitLabels \union
    {"fundOpen", "persistFunded", "aliceOpen", "finalizeSetup", "persistRefund",
     "persistSetup", "sendFundSign", "broadcastFunding", "coopReveal", "coopWatch",
     "settle", "watchClaim", "reclaim", "coopRecv", "broadcastCoop", "claim"}

\* `won`: the decrypted a_c opens the thimble the player picked.
Won == guess = choice

----------------------------------------------------------------------------
(* Steps of a session.                                                     *)

Goto(p, here, there) ==
    /\ pc[p] = here
    /\ pc' = [pc EXCEPT ![p] = there]

Send(p, frame) == chan' = [chan EXCEPT ![Peer(p)] = Append(@, frame)]

Arrived(p, frame) == chan[p] # <<>> /\ Head(chan[p]) = frame

Recv(p, frame) ==
    /\ Arrived(p, frame)
    /\ chan' = [chan EXCEPT ![p] = Tail(@)]

RecvSend(p, frame, answer) ==
    /\ Arrived(p, frame)
    /\ chan' = [chan EXCEPT ![p] = Tail(@), ![Peer(p)] = Append(@, answer)]

\* Mutant: a finished bet needs no pre-signed transactions.
PersistCompact(p, phase) ==
    record' = [record EXCEPT ![p] =
        [phase |-> phase, setup |-> hasSetup[p] /\ phase # "Done"]]

\* Mutant: only the stage of the record on disk is rewritten.
PersistStage(p, phase) ==
    record' = [record EXCEPT ![p] = [phase |-> phase, setup |-> record[p].setup]]

\* `persist`: a snapshot of the session, written atomically.
Persist(p, phase) ==
    record' = [record EXCEPT ![p] = [phase |-> phase, setup |-> hasSetup[p]]]

Return(p, outcome) == report' = [report EXCEPT ![p] = outcome]

NoChain == UNCHANGED chainVars
Memory == UNCHANGED <<hasSetup, refundFile>>

----------------------------------------------------------------------------
(* fund_pot: the unsigned joint funding.                                   *)

DealerFundOpen ==
    /\ Goto("dealer", "fundOpen", "recvFundReply")
    /\ Send("dealer", "FundOpen")
    /\ UNCHANGED <<record, report>> /\ Memory /\ NoChain

DealerFundReply ==
    /\ Goto("dealer", "recvFundReply", "persistFunded")
    /\ Recv("dealer", "FundReply")
    /\ UNCHANGED <<record, report>> /\ Memory /\ NoChain

PlayerFundReply ==
    /\ Goto("player", "recvFundOpen", "persistFunded")
    /\ RecvSend("player", "FundOpen", "FundReply")
    /\ UNCHANGED <<record, report>> /\ Memory /\ NoChain

PersistFunded(p) ==
    /\ Goto(p, "persistFunded", IF p = "dealer" THEN "aliceOpen" ELSE "recvAliceOpen")
    /\ Persist(p, "Funded")
    /\ UNCHANGED <<chan, report>> /\ Memory /\ NoChain

----------------------------------------------------------------------------
(* setup: the four flights, then the safety net on disk.                   *)

DealerAliceOpen ==
    /\ Goto("dealer", "aliceOpen", "recvBobCommit")
    /\ Send("dealer", "AliceOpen")
    /\ UNCHANGED <<record, report>> /\ Memory /\ NoChain

PlayerBobCommit ==
    /\ Goto("player", "recvAliceOpen", "recvAliceReveal")
    /\ RecvSend("player", "AliceOpen", "BobCommit")
    /\ UNCHANGED <<record, report>> /\ Memory /\ NoChain

DealerAliceReveal ==
    /\ Goto("dealer", "recvBobCommit", "recvBobAuth")
    /\ RecvSend("dealer", "BobCommit", "AliceReveal")
    /\ UNCHANGED <<record, report>> /\ Memory /\ NoChain

\* The player hands out his partial signatures before he has combined the
\* dealer's.
PlayerBobAuth ==
    /\ Goto("player", "recvAliceReveal", "finalizeSetup")
    /\ RecvSend("player", "AliceReveal", "BobAuth")
    /\ UNCHANGED <<record, report>> /\ Memory /\ NoChain

DealerBobAuth ==
    /\ Goto("dealer", "recvBobAuth", "finalizeSetup")
    /\ Recv("dealer", "BobAuth")
    /\ UNCHANGED <<record, report>> /\ Memory /\ NoChain

FinalizeSetup(p) ==
    /\ Goto(p, "finalizeSetup", "persistRefund")
    /\ hasSetup' = [hasSetup EXCEPT ![p] = TRUE]
    /\ UNCHANGED <<chan, record, refundFile, report>> /\ NoChain

PersistRefund(p) ==
    /\ Goto(p, "persistRefund", "persistSetup")
    /\ refundFile' = refundFile \union {p}
    /\ UNCHANGED <<chan, hasSetup, record, report>> /\ NoChain

\* Mutant: the record is left to the next stage.
PersistSetupLater(p) ==
    /\ Goto(p, "persistSetup", IF p = "dealer" THEN "recvFundSign" ELSE "sendFundSign")
    /\ UNCHANGED <<chan, record, report>> /\ Memory /\ NoChain

PersistSetup(p) ==
    /\ Goto(p, "persistSetup", IF p = "dealer" THEN "recvFundSign" ELSE "sendFundSign")
    /\ Persist(p, "SetupDone")
    /\ UNCHANGED <<chan, report>> /\ Memory /\ NoChain

----------------------------------------------------------------------------
(* broadcast_funding: sign, broadcast TX1, wait for one confirmation.      *)

PlayerFundSign ==
    /\ Goto("player", "sendFundSign", "recvFundFinal")
    /\ Send("player", "FundSign")
    /\ UNCHANGED <<record, report>> /\ Memory /\ NoChain

DealerFundFinal ==
    /\ Goto("dealer", "recvFundSign", "broadcastFunding")
    /\ RecvSend("dealer", "FundSign", "FundFinal")
    /\ UNCHANGED <<record, report>> /\ Memory /\ NoChain

PlayerFundFinal ==
    /\ Goto("player", "recvFundFinal", "broadcastFunding")
    /\ Recv("player", "FundFinal")
    /\ UNCHANGED <<record, report>> /\ Memory /\ NoChain

BroadcastFunding(p) ==
    /\ Goto(p, "broadcastFunding", "waitFunding")
    /\ TryBroadcast(p, "funding")
    /\ UNCHANGED <<chan, record, report>> /\ Memory

\* Mutant: `get_transaction` where the code asks for a confirmation.
FundingSeen(p) ==
    /\ Goto(p, "waitFunding", IF p = "dealer" THEN "coopReveal" ELSE "coopRecv")
    /\ Known(p, "funding")
    /\ Persist(p, "FundingBroadcast")
    /\ UNCHANGED <<chan, report>> /\ Memory /\ NoChain

FundingConfirmed(p) ==
    /\ Goto(p, "waitFunding", IF p = "dealer" THEN "coopReveal" ELSE "coopRecv")
    /\ Confirmed("funding")
    /\ Persist(p, "FundingBroadcast")
    /\ UNCHANGED <<chan, report>> /\ Memory /\ NoChain

----------------------------------------------------------------------------
(* try_cooperative_resolve, the dealer: reveal d with a pre-signed         *)
(* U1 -> dealer spend, then watch which spend of U1 appears.               *)

DealerCoopReveal ==
    /\ Goto("dealer", "coopReveal", "coopWatch")
    /\ Send("dealer", "CoopReveal")
    /\ UNCHANGED <<record, report>> /\ Memory /\ NoChain

\* Mutant: the record is closed as soon as the overlay is seen.
DealerSeesCoopDone ==
    /\ Goto("dealer", "coopWatch", "ok")
    /\ Known("dealer", "coop")
    /\ Persist("dealer", "Done")
    /\ Return("dealer", "DealerWins")
    /\ UNCHANGED chan /\ Memory /\ NoChain

\* Mutant: the overlay is taken for the settlement.
DealerSeesCoopSettles ==
    /\ Goto("dealer", "coopWatch", "settle")
    /\ Known("dealer", "coop")
    /\ UNCHANGED <<chan, record, report>> /\ Memory /\ NoChain

\* The overlay is in the pool: report the win, leave the record as it is.
DealerSeesCoop ==
    /\ Goto("dealer", "coopWatch", "ok")
    /\ Known("dealer", "coop")
    /\ Return("dealer", "DealerWins")
    /\ UNCHANGED <<chan, record>> /\ Memory /\ NoChain

DealerSeesSettle ==
    /\ Goto("dealer", "coopWatch", "settle")
    /\ Known("dealer", "settle")
    /\ UNCHANGED <<chan, record, report>> /\ Memory /\ NoChain

\* The two reads and the deadline are three calls, so a spend that appears
\* after its read does not stop the deadline.
DealerCoopDeadline ==
    /\ Faults
    /\ Goto("dealer", "coopWatch", "settle")
    /\ UNCHANGED <<chan, record, report>> /\ Memory /\ NoChain

(* try_cooperative_resolve, the player.                                    *)

\* Mutant: the winner leaves the settlement to the dealer.
PlayerCoopWonWaits ==
    /\ Won
    /\ Goto("player", "coopRecv", "pollSettle")
    /\ Recv("player", "CoopReveal")
    /\ UNCHANGED <<record, report>> /\ Memory /\ NoChain

PlayerCoopWon ==
    /\ Won
    /\ Goto("player", "coopRecv", "pollSettle")
    /\ Recv("player", "CoopReveal")
    /\ TryBroadcast("player", "settle")
    /\ UNCHANGED <<record, report>> /\ Memory

\* Mutant: the overlay is completed before the outcome is looked at.
PlayerCoopAlways ==
    /\ Goto("player", "coopRecv", "broadcastCoop")
    /\ Recv("player", "CoopReveal")
    /\ UNCHANGED <<record, report>> /\ Memory /\ NoChain

PlayerCoopLost ==
    /\ ~Won
    /\ Goto("player", "coopRecv", "broadcastCoop")
    /\ Recv("player", "CoopReveal")
    /\ UNCHANGED <<record, report>> /\ Memory /\ NoChain

PlayerCoopDeadline ==
    /\ Faults
    /\ Goto("player", "coopRecv", "pollSettle")
    /\ UNCHANGED <<chan, record, report>> /\ Memory /\ NoChain

PlayerBroadcastCoop ==
    /\ Goto("player", "broadcastCoop", "waitCoop")
    /\ Broadcast("player", "coop")
    /\ UNCHANGED <<chan, record, report>> /\ Memory

PlayerCoopConfirmed ==
    /\ Goto("player", "waitCoop", "ok")
    /\ Confirmed("coop")
    /\ Persist("player", "Done")
    /\ Return("player", "DealerWins")
    /\ UNCHANGED chan /\ Memory /\ NoChain

----------------------------------------------------------------------------
(* The enforced path of the dealer: settle, watch O_K, reclaim it.         *)

DealerSettle ==
    /\ Goto("dealer", "settle", "waitSettle")
    /\ Broadcast("dealer", "settle")
    /\ UNCHANGED <<chan, record, report>> /\ Memory

\* Mutant: a settlement in the pool counts as settled.
DealerSettledEarly ==
    /\ Goto("dealer", "waitSettle", "watchClaim")
    /\ Known("dealer", "settle")
    /\ Persist("dealer", "Settled")
    /\ UNCHANGED <<chan, report>> /\ Memory /\ NoChain

DealerSettled ==
    /\ Goto("dealer", "waitSettle", "watchClaim")
    /\ Confirmed("settle")
    /\ Persist("dealer", "Settled")
    /\ UNCHANGED <<chan, report>> /\ Memory /\ NoChain

\* Mutant: the outpoint watched is U1, not O_K.
DealerSeesU1Spent ==
    /\ Goto("dealer", "watchClaim", "ok")
    /\ ~U1Live
    /\ Persist("dealer", "Done")
    /\ Return("dealer", "PlayerWins")
    /\ UNCHANGED chan /\ Memory /\ NoChain

DealerSeesClaim ==
    /\ Goto("dealer", "watchClaim", "ok")
    /\ ~ClaimOutputUnspent
    /\ Persist("dealer", "Done")
    /\ Return("dealer", "PlayerWins")
    /\ UNCHANGED chan /\ Memory /\ NoChain

\* No claim in time: the outcome is recorded as terminal here, before the
\* reclaim.
DealerClaimDeadline ==
    /\ Faults
    /\ Goto("dealer", "watchClaim", "waitTimelock")
    /\ Persist("dealer", "Done")
    /\ UNCHANGED <<chan, report>> /\ Memory /\ NoChain

DealerTimelock ==
    /\ Goto("dealer", "waitTimelock", "reclaim")
    /\ confs["settle"] >= AliceTimeout
    /\ UNCHANGED <<chan, record, report>> /\ Memory /\ NoChain

DealerReclaim ==
    /\ Goto("dealer", "reclaim", "waitReclaim")
    /\ Broadcast("dealer", "reclaim")
    /\ UNCHANGED <<chan, record, report>> /\ Memory

DealerReclaimed ==
    /\ Goto("dealer", "waitReclaim", "ok")
    /\ Confirmed("reclaim")
    /\ Return("dealer", "DealerWins")
    /\ UNCHANGED <<chan, record>> /\ Memory /\ NoChain

----------------------------------------------------------------------------
(* The enforced path of the player: observe the settlement, claim a win.   *)

PlayerObserve ==
    /\ pc["player"] = "pollSettle"
    /\ Known("player", "settle")
    /\ Persist("player", "Observed")
    /\ pc' = [pc EXCEPT !["player"] = IF Won THEN "claim" ELSE "ok"]
    /\ Return("player", IF Won THEN "none" ELSE "DealerWins")
    /\ UNCHANGED chan /\ Memory /\ NoChain

PlayerClaim ==
    /\ Goto("player", "claim", "waitClaim")
    /\ Broadcast("player", "claim")
    /\ UNCHANGED <<chan, record, report>> /\ Memory

PlayerClaimed ==
    /\ Goto("player", "waitClaim", "ok")
    /\ Confirmed("claim")
    /\ Persist("player", "Done")
    /\ Return("player", "PlayerWins")
    /\ UNCHANGED chan /\ Memory /\ NoChain

----------------------------------------------------------------------------
(* Ends with an error.  Memory is gone; the record stays.                  *)

Fail(p) ==
    /\ pc' = [pc EXCEPT ![p] = "failed"]
    /\ hasSetup' = [hasSetup EXCEPT ![p] = FALSE]
    /\ UNCHANGED <<chan, record, refundFile, report>> /\ NoChain

\* Mutant: the confirmation loops have no deadline.
DeadlineOnFramesOnly(p) ==
    /\ Faults
    /\ pc[p] \in RecvLabels
    /\ Fail(p)

\* A frame does not come, a confirmation does not come: `?` after a deadline.
Deadline(p) ==
    /\ Faults
    /\ pc[p] \in RecvLabels \union WaitLabels
    /\ Fail(p)

\* The node refuses a transaction: `broadcast(..)?`.
Rejected(p) ==
    /\ \/ pc[p] = "settle" /\ ~BroadcastOk(p, "settle")
       \/ pc[p] = "reclaim" /\ ~BroadcastOk(p, "reclaim")
       \/ pc[p] = "broadcastCoop" /\ ~BroadcastOk(p, "coop")
       \/ pc[p] = "claim" /\ ~BroadcastOk(p, "claim")
    /\ Fail(p)

\* The process dies, or a call on the wallet, disk, node or transport errs.
Crash(p) ==
    /\ Faults
    /\ pc[p] \notin Ended
    /\ Fail(p)

----------------------------------------------------------------------------

BetInit ==
    /\ choice \in Thimbles
    /\ guess \in Thimbles
    /\ pc = [p \in Party |-> IF p = "dealer" THEN "fundOpen" ELSE "recvFundOpen"]
    /\ chan = [p \in Party |-> <<>>]
    /\ hasSetup = [p \in Party |-> FALSE]
    /\ record = [p \in Party |-> NoRecord]
    /\ refundFile = {}
    /\ report = [p \in Party |-> "none"]
    /\ ChainInit

SharedStep(p) ==
    \/ PersistFunded(p) \/ FinalizeSetup(p) \/ PersistRefund(p) \/ PersistSetup(p)
    \/ BroadcastFunding(p) \/ FundingConfirmed(p)
    \/ Deadline(p) \/ Rejected(p)

DealerStep ==
    \/ DealerFundOpen \/ DealerFundReply
    \/ DealerAliceOpen \/ DealerAliceReveal \/ DealerBobAuth
    \/ DealerFundFinal
    \/ DealerCoopReveal \/ DealerSeesCoop \/ DealerSeesSettle \/ DealerCoopDeadline
    \/ DealerSettle \/ DealerSettled \/ DealerSeesClaim \/ DealerClaimDeadline
    \/ DealerTimelock \/ DealerReclaim \/ DealerReclaimed

PlayerStep ==
    \/ PlayerFundReply
    \/ PlayerBobCommit \/ PlayerBobAuth
    \/ PlayerFundSign \/ PlayerFundFinal
    \/ PlayerCoopWon \/ PlayerCoopLost \/ PlayerCoopDeadline
    \/ PlayerBroadcastCoop \/ PlayerCoopConfirmed
    \/ PlayerObserve \/ PlayerClaim \/ PlayerClaimed

\* What a running session does of itself; a crash is not part of it.
SessionStep(p) ==
    /\ \/ SharedStep(p)
       \/ p = "dealer" /\ DealerStep
       \/ p = "player" /\ PlayerStep
    /\ UNCHANGED <<choice, guess>>
============================================================================
