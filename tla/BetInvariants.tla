--------------------------- MODULE BetInvariants ---------------------------
(***************************************************************************)
(* The inductive invariants behind the safety properties of BetSystem.     *)
(* None of those properties is inductive as it stands: each needs to know  *)
(* where the sessions are when a frame or a transaction appears.           *)
(***************************************************************************)
EXTENDS BetSystem

\* Labels past persistSetup: the party's safety net is on disk.
Armed ==
    {"recvFundSign", "sendFundSign", "recvFundFinal", "broadcastFunding", "waitFunding",
     "coopReveal", "coopWatch", "settle", "waitSettle", "watchClaim", "waitTimelock",
     "reclaim", "waitReclaim", "coopRecv", "broadcastCoop", "waitCoop", "pollSettle",
     "claim", "waitClaim"}

\* Labels past FundingConfirmed.
Locked == Armed \ {"recvFundSign", "sendFundSign", "recvFundFinal", "broadcastFunding",
                   "waitFunding"}

Saved(p) == record[p].setup /\ p \in refundFile

\* Records and files follow the sessions, and the player's signature on TX1
\* leaves him only when he is saved.
SavedInv ==
    /\ \A p \in Party :
          /\ pc[p] \in Armed \union {"persistRefund", "persistSetup"} => hasSetup[p]
          /\ hasSetup[p] => pc[p] \in Armed \union Ended \union {"persistRefund", "persistSetup"}
          /\ pc[p] = "persistSetup" => p \in refundFile
          /\ pc[p] \in Armed => Saved(p)
          /\ record[p].setup => pc[p] \in Armed \union Ended
    /\ InFlight("dealer", "FundSign") => Saved("player")

RefundInv == SavedInv /\ RefundBeforeFunding

\* A session past FundingConfirmed plays on a locked pot.
RevealInv ==
    /\ \A p \in Party : pc[p] \in Locked => Confirmed("funding")
    /\ RevealOnlyWhenLocked

\* The ledger: no double spend, nothing without its parent, and no pool
\* holds what a block has made impossible.
LedgerInv ==
    /\ \A tx \in Tx : Confirmed(tx) /\ Parent[tx] \in Tx => Confirmed(Parent[tx])
    /\ \A tx \in Tx : \A r \in Rivals(tx) : ~(Confirmed(tx) /\ Confirmed(r))
    /\ \A tx \in Pooled : ~Confirmed(tx) /\ \A r \in Rivals(tx) : ~Confirmed(r)
    /\ "reclaim" \in Pooled => confs["settle"] >= AliceTimeout
    /\ "refund" \in Pooled => height >= RefundLocktime

\* What a session has recorded when it comes to each label, and which
\* records carry the pre-signed transactions.
PhaseInv ==
    \A p \in Party :
        LET phase == record[p].phase IN
        /\ record[p].setup <=> phase \notin {"none", "Funded"}
        /\ pc[p] \in {"fundOpen", "recvFundOpen", "recvFundReply", "persistFunded"}
               => phase = "none"
        /\ pc[p] \in {"aliceOpen", "recvAliceOpen", "recvBobCommit", "recvAliceReveal",
                     "recvBobAuth", "finalizeSetup", "persistRefund", "persistSetup"}
               => phase = "Funded"
        /\ pc[p] \in Armed \ Locked => phase = "SetupDone"
        /\ pc[p] \in {"coopReveal", "coopWatch", "settle", "waitSettle", "coopRecv",
                     "broadcastCoop", "waitCoop", "pollSettle"}
               => phase = "FundingBroadcast"
        /\ pc[p] = "watchClaim" => phase = "Settled"
        /\ pc[p] \in {"claim", "waitClaim"} => phase = "Observed"

\* What the chain holds when a record is written.
RecordsInv ==
    /\ RecordBacked
    /\ \A p \in Party :
          record[p].phase = "Done" => Confirmed("settle") \/ Confirmed("coop")
    /\ pc["dealer"] = "watchClaim" => Confirmed("settle")

ClaimedOnChain == \E tx \in Claims : Confirmed(tx)

\* What is known of the outcome at each label and for each transaction, when
\* operators wait for their sessions to end.
OutcomeInv ==
    /\ \A tx \in Claims : OnChain(tx) => Won
    /\ OnChain("coop") => ~Won
    /\ OnChain("reclaim") => pc["dealer"] \in Ended \union {"waitReclaim"}
    /\ pc["player"] \in {"broadcastCoop", "waitCoop"} => ~Won
    /\ pc["player"] \in {"claim", "waitClaim"} => Won
    /\ pc["dealer"] = "watchClaim" => Confirmed("settle")
    /\ \A p \in Party :
          /\ report[p] # "none" => pc[p] \in Ended
          /\ report[p] = "PlayerWins" => Won /\ ClaimedOnChain
          /\ report[p] = "DealerWins" => ~Won \/ Confirmed("reclaim")
    /\ report["player"] = "DealerWins" => ~Won
============================================================================
