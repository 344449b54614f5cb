----------------------------- MODULE BetSystem -----------------------------
(***************************************************************************)
(* The whole bet: two sessions (Bet), the operators' recovery commands     *)
(* (Recover), the nodes and miners (Chain), and what must come of them.    *)
(***************************************************************************)
EXTENDS Recover

Init == BetInit

NetworkStep == ChainNext /\ UNCHANGED <<choice, guess, sessionVars>>

CrashStep(p) == Crash(p) /\ UNCHANGED <<choice, guess>>

Next ==
    \/ \E p \in Party : SessionStep(p) \/ CrashStep(p) \/ RecoverStep(p)
    \/ NetworkStep

Spec == Init /\ [][Next]_betVars

\* The network confirms: blocks keep coming, and a pooled transaction is not
\* left out of every one of them.
MineStep == (\E block \in SUBSET Pooled : Mine(block))
            /\ UNCHANGED <<choice, guess, sessionVars>>
MineSome == (\E block \in SUBSET Pooled \ {{}} : Mine(block))
            /\ UNCHANGED <<choice, guess, sessionVars>>

\* A session runs on: its loops poll, its waits end at a deadline.
Fairness ==
    /\ \A p \in Party : WF_betVars(SessionStep(p))
    /\ WF_betVars(MineStep)
    /\ WF_betVars(MineSome)

FairSpec == Spec /\ Fairness

\* A diligent operator repeats a command until it has had its effect.
Diligent(p) == SF_betVars(RecoverStep(p))

----------------------------------------------------------------------------
(* Invariants.                                                             *)

SessionTypeOK ==
    /\ choice \in Thimbles /\ guess \in Thimbles
    /\ pc \in [Party -> Label]
    /\ chan \in [Party -> Seq(Frame)]
    /\ hasSetup \in [Party -> BOOLEAN]
    /\ record \in [Party -> Record]
    /\ refundFile \in SUBSET Party
    /\ report \in [Party -> {"none"} \union Outcome]

ShapeOK == SessionTypeOK /\ ChainTypeOK

\* A record carries the pre-signed transactions exactly from SetupDone on:
\* `assess` takes a record without them for a bet that has committed nothing,
\* and everything that recovers a later one needs them.
RecordsComplete ==
    \A p \in Party : record[p].setup <=> record[p].phase \notin {"none", "Funded"}

\* The variables keep their types; that of a record says what is in it at
\* each stage (persist.rs).
TypeOK == ShapeOK /\ RecordsComplete

Carries(channel, frame) == \E i \in 1..Len(channel) : channel[i] = frame

InFlight(p, frame) == Carries(chan[p], frame)

OnChain(tx) == Confirmed(tx) \/ tx \in Pooled

\* "No broadcastable funding tx ever exists before its refund does": once a
\* TX1 with both signatures exists, in a frame, in a session, in a pool or in
\* a block, each party has the pre-signed refund on disk, in the record and
\* in the refund file, so a crash of either side strands nothing.
FundingSigned ==
    \/ InFlight("player", "FundFinal")
    \/ \E p \in Party : pc[p] \in {"broadcastFunding", "waitFunding"}
    \/ OnChain("funding")

RefundBeforeFunding ==
    FundingSigned => /\ \A p \in Party : record[p].setup
                     /\ refundFile = Party

\* d, and with it the outcome, leaves the dealer's hands (in the reveal frame
\* or in a settlement) only when the player's stake is locked in a confirmed U1.
RevealOnlyWhenLocked ==
    InFlight("player", "CoopReveal") \/ OnChain("settle") \/ OnChain("coop")
        => Confirmed("funding")

\* What a record says of the chain is so: recovery and the operator read it
\* after a crash as a fact.
RecordBacked ==
    \A p \in Party :
        /\ record[p].phase \in {"FundingBroadcast", "Settled", "Observed", "Done"}
               => Confirmed("funding")
        /\ record[p].phase = "Settled" => Confirmed("settle")
        /\ record["player"].phase = "Done"
               => Confirmed("coop") \/ \E tx \in Claims : Confirmed(tx)

\* While U1 is live no record is Done: an overlay that was reported as a win
\* and then dropped from the pools can still be replaced by a settlement.
NeverDoneWhilePotLive ==
    U1Live => \A p \in Party : record[p].phase # "Done"

\* Two sessions that both returned an outcome returned the same one.
OutcomeAgreement ==
    report["dealer"] # "none" /\ report["player"] # "none"
        => report["dealer"] = report["player"]

\* No step takes a stage back or drops the pre-signed transactions from a
\* record: what a party can recover only grows.
Rank == [none |-> 0, Funded |-> 1, SetupDone |-> 2, FundingBroadcast |-> 3,
         Settled |-> 4, Observed |-> 4, Done |-> 5]

RecordOnlyAdvances ==
    [][\A p \in Party :
          /\ record'[p] # record[p] => Rank[record'[p].phase] > Rank[record[p].phase]
          /\ record[p].setup => record'[p].setup]_record

----------------------------------------------------------------------------
(* The abstract bet.                                                       *)

PotPlace ==
    IF \E tx \in Claims : Confirmed(tx) THEN "claimed"
    ELSE IF Confirmed("reclaim") THEN "reclaimed"
    ELSE IF Confirmed("settle") THEN "settled"
    ELSE IF Confirmed("coop") THEN "conceded"
    ELSE IF Confirmed("refund") THEN "refunded"
    ELSE IF Confirmed("funding") THEN "locked"
    ELSE "wallets"

Resolved == PotPlace \in {"refunded", "conceded", "claimed", "reclaimed"}

Fair == INSTANCE FairBet WITH
    playerWon <- Won,
    pot <- PotPlace,
    expired <- height >= RefundLocktime,
    mature <- confs["settle"] >= AliceTimeout,
    told <- report

\* The two programs and the chain together do what FairBet promises.
ImplementsFairBet == Fair!Spec

\* The node will accept tx, unless it has seen another spend of the output.
Doable(p, tx) == BroadcastOk(p, tx) \/ Rivals(tx) \intersect pool[p] # {}

\* What an operator may conclude from each verdict of `assess`, whenever he
\* asks.  Two of them say less than their words: a dealer told "resolved" may
\* still have to reclaim, and "U1 already spent" is also what he is told
\* while TX1 is in no block.  The others mean what they say, and what they
\* tell him to do the node will accept.
VerdictFacts ==
    \A p \in Party :
        /\ Assess(p) = "nothing committed" => ~FundingSigned
        /\ Assess(p) = "resolved" => Resolved \/ (p = "dealer" /\ PotPlace = "settled")
        /\ Assess(p) = "U1 already spent" =>
               PotPlace \in {"wallets", "refunded", "conceded"}
        /\ Assess(p) = "claimed already" => PotPlace \in {"claimed", "reclaimed"}
        /\ Assess(p) \in {"claim if won", "reclaim", "wait for claim"} =>
               PotPlace = "settled"
        /\ Assess(p) \in {"settle", "wait for settlement"} => PotPlace = "locked"
        /\ Assess(p) = "settle" => Doable(p, "settle")
        /\ Assess(p) = "claim if won" => Doable(p, "recoveredClaim")
        /\ Assess(p) = "reclaim" => Doable(p, "reclaim")

----------------------------------------------------------------------------
(* Liveness.                                                               *)

\* Every session returns, with an outcome or an error.
SessionsEnd == \A p \in Party : <>(pc[p] \in Ended)

\* A locked pot is paid out, whatever crashes, deadlines and evictions do, as
\* long as one operator keeps recovering; a settled pot the player lost waits
\* for the dealer, whose it is.
PotNotStranded ==
    \A p \in Operators :
        Diligent(p) => (Confirmed("funding") ~>
                           Resolved \/ (PotPlace = "settled" /\ p = "player" /\ ~Won))

\* With no crash and no missed deadline a lost bet is conceded: both sessions
\* return DealerWins and the claim output never exists.
CleanLossConceded ==
    ~Won ~> /\ PotPlace = "conceded"
            /\ \A p \in Party : report[p] = "DealerWins"

\* And a won bet pays the player.
CleanWinPaid == Won ~> PotPlace = "claimed" /\ report["player"] = "PlayerWins"

----------------------------------------------------------------------------
(* What comments and tests of the repository say, and the code does not do. *)

\* "Terminal: resolved (claimed / reclaimed / refunded)."
DoneIsTerminal == \A p \in Party : record[p].phase = "Done" => Resolved

\* "settle() is idempotent": called with the settlement on the chain already,
\* it succeeds.
SettleIsIdempotent ==
    pc["dealer"] = "settle" /\ Known("dealer", "settle") => BroadcastOk("dealer", "settle")
============================================================================
