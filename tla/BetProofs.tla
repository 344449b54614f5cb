----------------------------- MODULE BetProofs -----------------------------
(***************************************************************************)
(* Theorems about BetSystem, for every refund locktime, timeout, number of *)
(* evictions, set of thimbles, and whatever the sessions' faults and the   *)
(* operators' recoveries do, also beside live sessions: types, and the     *)
(* safety of the stakes.  The refund is on disk before the funding can be  *)
(* broadcast, and the outcome is revealed only on a locked pot.  No output *)
(* is spent twice, a record tells the truth about the chain and only       *)
(* advances, and what recovery tells an operator holds.  When operators    *)
(* run recovery only after their own session has ended, both parties are   *)
(* told the same outcome, and the two programs with the chain implement    *)
(* the abstract bet of FairBet.                                            *)
(***************************************************************************)
EXTENDS BetInvariants, TLAPS

\* A frame sent joins a channel behind those already on their way.
LEMMA AppendCarries ==
  ASSUME NEW s \in Seq(Frame), NEW e \in Frame
  PROVE  /\ Append(s, e) \in Seq(Frame)
         /\ \A f : Carries(Append(s, e), f) => Carries(s, f) \/ f = e
  BY DEF Carries

\* A frame received was on its way, and receiving it adds no frame.
LEMMA TailCarries ==
  ASSUME NEW s \in Seq(Frame), s # <<>>
  PROVE  /\ Tail(s) \in Seq(Frame)
         /\ Carries(s, Head(s))
         /\ \A f : Carries(Tail(s), f) => Carries(s, f)
  BY DEF Carries

----------------------------------------------------------------------------
(* Type correctness.                                                       *)

\* A broadcast keeps the chain well typed.
LEMMA BroadcastTypeOK ==
  ASSUME ChainTypeOK, NEW p \in Party, NEW tx \in Tx,
         Broadcast(p, tx) \/ TryBroadcast(p, tx)
  PROVE  ChainTypeOK'
  BY DEF ChainTypeOK, Broadcast, TryBroadcast, chainVars, Cap

\* Blocks, relays and evictions keep the chain well typed: the counters
\* saturate where the code stops comparing them.
LEMMA NetworkTypeOK ==
  ASSUME ChainTypeOK, ChainNext
  PROVE  ChainTypeOK'
<1>. USE ChainAssumption DEF ChainTypeOK, Cap
<1>1. ASSUME NEW block \in SUBSET Pooled, Mine(block)
      PROVE  ChainTypeOK'
  <2>1. height' \in 0..RefundLocktime
    BY <1>1 DEF Mine
  <2>2. confs' \in [Tx -> Nat] /\ \A tx \in Tx : confs'[tx] <= Cap(tx)
    BY <1>1 DEF Mine, Confirmed
  <2>3. pool' \in [Party -> SUBSET Tx]
    BY <1>1 DEF Mine
  <2>4. QED
    BY <1>1, <2>1, <2>2, <2>3 DEF Mine
<1>2. ASSUME NEW p \in Party, NEW tx \in Tx, Relay(p, tx)
      PROVE  ChainTypeOK'
  BY <1>2, BroadcastTypeOK DEF Relay
<1>3. ASSUME NEW p \in Party, NEW tx \in Tx, Evict(p, tx)
      PROVE  ChainTypeOK'
  BY <1>3 DEF Evict
<1>4. QED
  BY <1>1, <1>2, <1>3 DEF ChainNext

\* Sending, receiving and answering keep the channels sequences of frames.
LEMMA SendTypeOK ==
  ASSUME SessionTypeOK, NEW p \in Party, NEW f \in Frame, NEW g \in Frame,
         Send(p, f) \/ Recv(p, f) \/ RecvSend(p, f, g)
  PROVE  chan' \in [Party -> Seq(Frame)]
<1>1. Peer(p) \in Party /\ Peer(p) # p
  BY DEF Peer, Party
<1>2. chan[p] \in Seq(Frame) /\ chan[Peer(p)] \in Seq(Frame)
  BY <1>1 DEF SessionTypeOK
<1>3. CASE Send(p, f)
  BY <1>1, <1>2, <1>3, AppendCarries DEF Send, SessionTypeOK
<1>4. CASE Recv(p, f)
  BY <1>1, <1>2, <1>4, TailCarries DEF Recv, Arrived, SessionTypeOK
<1>5. CASE RecvSend(p, f, g)
  <2>1. Tail(chan[p]) \in Seq(Frame) /\ Append(chan[Peer(p)], g) \in Seq(Frame)
    BY <1>2, <1>5, AppendCarries, TailCarries DEF RecvSend, Arrived
  <2>2. QED
    BY <1>1, <1>5, <2>1 DEF RecvSend, SessionTypeOK
<1>6. QED
  BY <1>3, <1>4, <1>5

\* The dealer's steps keep the sessions well typed.
LEMMA DealerTypeOK ==
  ASSUME ShapeOK, DealerStep, UNCHANGED <<choice, guess>>
  PROVE  SessionTypeOK'
<1>. USE SendTypeOK DEF ShapeOK, SessionTypeOK, Goto, Persist, Return, Memory, NoChain,
            Label, RecvLabels, WaitLabels, Ended, Frame, Outcome, Phase, Record, Party
<1>1. CASE DealerFundOpen BY <1>1 DEF DealerFundOpen
<1>2. CASE DealerFundReply BY <1>2 DEF DealerFundReply
<1>3. CASE DealerAliceOpen BY <1>3 DEF DealerAliceOpen
<1>4. CASE DealerAliceReveal BY <1>4 DEF DealerAliceReveal
<1>5. CASE DealerBobAuth BY <1>5 DEF DealerBobAuth
<1>6. CASE DealerFundFinal BY <1>6 DEF DealerFundFinal
<1>7. CASE DealerCoopReveal BY <1>7 DEF DealerCoopReveal
<1>8. CASE DealerSeesCoop BY <1>8 DEF DealerSeesCoop
<1>9. CASE DealerSeesSettle BY <1>9 DEF DealerSeesSettle
<1>10. CASE DealerCoopDeadline BY <1>10 DEF DealerCoopDeadline
<1>11. CASE DealerSettle BY <1>11 DEF DealerSettle
<1>12. CASE DealerSettled BY <1>12 DEF DealerSettled
<1>13. CASE DealerSeesClaim BY <1>13 DEF DealerSeesClaim
<1>14. CASE DealerClaimDeadline BY <1>14 DEF DealerClaimDeadline
<1>15. CASE DealerTimelock BY <1>15 DEF DealerTimelock
<1>16. CASE DealerReclaim BY <1>16 DEF DealerReclaim
<1>17. CASE DealerReclaimed BY <1>17 DEF DealerReclaimed
<1>. QED
  BY <1>1, <1>2, <1>3, <1>4, <1>5, <1>6, <1>7, <1>8, <1>9, <1>10, <1>11,
     <1>12, <1>13, <1>14, <1>15, <1>16, <1>17 DEF DealerStep

\* The player's steps keep the sessions well typed.
LEMMA PlayerTypeOK ==
  ASSUME ShapeOK, PlayerStep, UNCHANGED <<choice, guess>>
  PROVE  SessionTypeOK'
<1>. USE SendTypeOK DEF ShapeOK, SessionTypeOK, Goto, Persist, Return, Memory, NoChain,
            Label, RecvLabels, WaitLabels, Ended, Frame, Outcome, Phase, Record, Party
<1>1. CASE PlayerFundReply BY <1>1 DEF PlayerFundReply
<1>2. CASE PlayerBobCommit BY <1>2 DEF PlayerBobCommit
<1>3. CASE PlayerBobAuth BY <1>3 DEF PlayerBobAuth
<1>4. CASE PlayerFundSign BY <1>4 DEF PlayerFundSign
<1>5. CASE PlayerFundFinal BY <1>5 DEF PlayerFundFinal
<1>6. CASE PlayerCoopWon BY <1>6 DEF PlayerCoopWon
<1>7. CASE PlayerCoopLost BY <1>7 DEF PlayerCoopLost
<1>8. CASE PlayerCoopDeadline BY <1>8 DEF PlayerCoopDeadline
<1>9. CASE PlayerBroadcastCoop BY <1>9 DEF PlayerBroadcastCoop
<1>10. CASE PlayerCoopConfirmed BY <1>10 DEF PlayerCoopConfirmed
<1>11. CASE PlayerObserve BY <1>11 DEF PlayerObserve
<1>12. CASE PlayerClaim BY <1>12 DEF PlayerClaim
<1>13. CASE PlayerClaimed BY <1>13 DEF PlayerClaimed
<1>. QED
  BY <1>1, <1>2, <1>3, <1>4, <1>5, <1>6, <1>7, <1>8, <1>9, <1>10, <1>11,
     <1>12, <1>13 DEF PlayerStep

\* The shared steps and crashes keep the sessions well typed.
LEMMA SharedTypeOK ==
  ASSUME ShapeOK, NEW p \in Party, SharedStep(p) \/ Crash(p), UNCHANGED <<choice, guess>>
  PROVE  SessionTypeOK'
<1>. USE SendTypeOK DEF ShapeOK, SessionTypeOK, Goto, Persist, Return, Memory, NoChain,
            Label, RecvLabels, WaitLabels, Ended, Frame, Outcome, Phase, Record, Party
<1>1. CASE PersistFunded(p) BY <1>1 DEF PersistFunded
<1>2. CASE FinalizeSetup(p) BY <1>2 DEF FinalizeSetup
<1>3. CASE PersistRefund(p) BY <1>3 DEF PersistRefund
<1>4. CASE PersistSetup(p) BY <1>4 DEF PersistSetup
<1>5. CASE BroadcastFunding(p) BY <1>5 DEF BroadcastFunding
<1>6. CASE FundingConfirmed(p) BY <1>6 DEF FundingConfirmed
<1>7. CASE Deadline(p) BY <1>7 DEF Deadline, Fail
<1>8. CASE Rejected(p) BY <1>8 DEF Rejected, Fail
<1>9. CASE Crash(p) BY <1>9 DEF Crash, Fail
<1>. QED
  BY <1>1, <1>2, <1>3, <1>4, <1>5, <1>6, <1>7, <1>8, <1>9 DEF SharedStep

\* What a step that broadcasts a transaction tells about its party's session.
Reason(p, tx) ==
    /\ tx = "funding" => pc[p] = "broadcastFunding"
    /\ tx = "settle" => \/ p = "dealer" /\ (pc[p] = "settle" \/ U1Live)
                        \/ p = "player" /\ pc[p] = "coopRecv"
    /\ tx = "coop" => p = "player" /\ pc[p] = "broadcastCoop"
    /\ tx = "claim" => p = "player" /\ pc[p] = "claim"
    /\ tx = "recoveredClaim" => Won
    /\ tx = "reclaim" =>
          /\ p = "dealer"
          /\ RecoverWhileLive \/ pc[p] \in Ended \/ pc'[p] = "waitReclaim"

\* All a session or a recovery ever does to the chain is broadcast a
\* transaction it has a reason to.
LEMMA OnlyBroadcasts ==
  ASSUME ShapeOK, NEW p \in Party, SessionStep(p) \/ CrashStep(p) \/ RecoverStep(p)
  PROVE  \/ UNCHANGED chainVars
         \/ \E tx \in Tx : TryBroadcast(p, tx) /\ Reason(p, tx)
<1>. USE DEF NoChain, Tx, TryBroadcast, Reason, Goto
<1>1. CASE p = "dealer" /\ DealerStep
  <2>1. CASE DealerFundOpen BY <1>1, <2>1 DEF DealerFundOpen
  <2>2. CASE DealerFundReply BY <1>1, <2>2 DEF DealerFundReply
  <2>3. CASE DealerAliceOpen BY <1>1, <2>3 DEF DealerAliceOpen
  <2>4. CASE DealerAliceReveal BY <1>1, <2>4 DEF DealerAliceReveal
  <2>5. CASE DealerBobAuth BY <1>1, <2>5 DEF DealerBobAuth
  <2>6. CASE DealerFundFinal BY <1>1, <2>6 DEF DealerFundFinal
  <2>7. CASE DealerCoopReveal BY <1>1, <2>7 DEF DealerCoopReveal
  <2>8. CASE DealerSeesCoop BY <1>1, <2>8 DEF DealerSeesCoop
  <2>9. CASE DealerSeesSettle BY <1>1, <2>9 DEF DealerSeesSettle
  <2>10. CASE DealerCoopDeadline BY <1>1, <2>10 DEF DealerCoopDeadline
  <2>11. CASE DealerSettle BY <1>1, <2>11 DEF DealerSettle
  <2>12. CASE DealerSettled BY <1>1, <2>12 DEF DealerSettled
  <2>13. CASE DealerSeesClaim BY <1>1, <2>13 DEF DealerSeesClaim
  <2>14. CASE DealerClaimDeadline BY <1>1, <2>14 DEF DealerClaimDeadline
  <2>15. CASE DealerTimelock BY <1>1, <2>15 DEF DealerTimelock
  <2>16. CASE DealerReclaim BY <1>1, <2>16 DEF DealerReclaim, ShapeOK, SessionTypeOK
  <2>17. CASE DealerReclaimed BY <1>1, <2>17 DEF DealerReclaimed
  <2>. QED
    BY <2>1, <2>2, <2>3, <2>4, <2>5, <2>6, <2>7, <2>8, <2>9, <2>10, <2>11,
       <2>12, <2>13, <2>14, <2>15, <2>16, <2>17, <1>1 DEF DealerStep
<1>2. CASE p = "player" /\ PlayerStep
  <2>1. CASE PlayerFundReply BY <1>2, <2>1 DEF PlayerFundReply
  <2>2. CASE PlayerBobCommit BY <1>2, <2>2 DEF PlayerBobCommit
  <2>3. CASE PlayerBobAuth BY <1>2, <2>3 DEF PlayerBobAuth
  <2>4. CASE PlayerFundSign BY <1>2, <2>4 DEF PlayerFundSign
  <2>5. CASE PlayerFundFinal BY <1>2, <2>5 DEF PlayerFundFinal
  <2>6. CASE PlayerCoopWon BY <1>2, <2>6 DEF PlayerCoopWon
  <2>7. CASE PlayerCoopLost BY <1>2, <2>7 DEF PlayerCoopLost
  <2>8. CASE PlayerCoopDeadline BY <1>2, <2>8 DEF PlayerCoopDeadline
  <2>9. CASE PlayerBroadcastCoop BY <1>2, <2>9 DEF PlayerBroadcastCoop
  <2>10. CASE PlayerCoopConfirmed BY <1>2, <2>10 DEF PlayerCoopConfirmed
  <2>11. CASE PlayerObserve BY <1>2, <2>11 DEF PlayerObserve
  <2>12. CASE PlayerClaim BY <1>2, <2>12 DEF PlayerClaim
  <2>13. CASE PlayerClaimed BY <1>2, <2>13 DEF PlayerClaimed
  <2>. QED
    BY <2>1, <2>2, <2>3, <2>4, <2>5, <2>6, <2>7, <2>8, <2>9, <2>10, <2>11,
       <2>12, <2>13, <1>2 DEF PlayerStep
<1>3. CASE SharedStep(p) \/ CrashStep(p)
  <2>1. CASE PersistFunded(p) BY <2>1 DEF PersistFunded
  <2>2. CASE FinalizeSetup(p) BY <2>2 DEF FinalizeSetup
  <2>3. CASE PersistRefund(p) BY <2>3 DEF PersistRefund
  <2>4. CASE PersistSetup(p) BY <2>4 DEF PersistSetup
  <2>5. CASE BroadcastFunding(p) BY <2>5 DEF BroadcastFunding
  <2>6. CASE FundingConfirmed(p) BY <2>6 DEF FundingConfirmed
  <2>7. CASE Deadline(p) BY <2>7 DEF Deadline, Fail
  <2>8. CASE Rejected(p) BY <2>8 DEF Rejected, Fail
  <2>9. CASE CrashStep(p) BY <2>9 DEF CrashStep, Crash, Fail
  <2>. QED
    BY <2>1, <2>2, <2>3, <2>4, <2>5, <2>6, <2>7, <2>8, <2>9, <1>3 DEF SharedStep
<1>4. CASE RecoverStep(p)
  BY <1>4 DEF RecoverStep, RecoverSettle, RecoverReclaim, RecoverClaim, RecoverRefund, MayRecover
<1>. QED
  BY <1>1, <1>2, <1>3, <1>4 DEF SessionStep

\* The shape of the variables is inductive.
LEMMA StepTypeOK == ShapeOK /\ [Next]_betVars => ShapeOK'
<1>. SUFFICES ASSUME ShapeOK, [Next]_betVars PROVE ShapeOK'
  OBVIOUS
<1>1. ASSUME NEW p \in Party, SessionStep(p) \/ CrashStep(p) \/ RecoverStep(p)
      PROVE  ShapeOK'
  <2>1. SessionTypeOK'
    <3>1. CASE SessionStep(p)
      BY <3>1, DealerTypeOK, PlayerTypeOK, SharedTypeOK DEF SessionStep
    <3>2. CASE CrashStep(p)
      BY <3>2, SharedTypeOK DEF CrashStep
    <3>3. CASE RecoverStep(p)
      BY <3>3 DEF RecoverStep, sessionVars, ShapeOK, SessionTypeOK
    <3>. QED
      BY <1>1, <3>1, <3>2, <3>3
  <2>2. ChainTypeOK'
    <3>1. CASE UNCHANGED chainVars
      BY <3>1 DEF chainVars, ShapeOK, ChainTypeOK, Cap
    <3>2. ASSUME NEW tx \in Tx, TryBroadcast(p, tx) PROVE ChainTypeOK'
      BY <3>2, BroadcastTypeOK DEF ShapeOK
    <3>. QED
      BY <1>1, <3>1, <3>2, OnlyBroadcasts
  <2>. QED
    BY <2>1, <2>2 DEF ShapeOK
<1>2. CASE NetworkStep
  BY <1>2, NetworkTypeOK DEF NetworkStep, ShapeOK, SessionTypeOK, sessionVars
<1>3. CASE UNCHANGED betVars
  BY <1>3 DEF betVars, ShapeOK, SessionTypeOK, ChainTypeOK, sessionVars, chainVars, Cap
<1>. QED
  BY <1>1, <1>2, <1>3 DEF Next

\* It holds initially.
LEMMA InitTypeOK == Init => ShapeOK
  BY ChainAssumption
  DEF Init, BetInit, ChainInit, ShapeOK, SessionTypeOK, ChainTypeOK, Label, RecvLabels,
      WaitLabels, Ended, Record, NoRecord, Party, Cap

----------------------------------------------------------------------------
(* What steps do to the chain and to the channels.                         *)

\* A broadcast confirms nothing and adds at most its own transaction.
LEMMA BroadcastAdds ==
  ASSUME ChainTypeOK, NEW p \in Party, NEW tx \in Tx, TryBroadcast(p, tx)
  PROVE  /\ confs' = confs /\ height' = height
         /\ \A t \in Tx : OnChain(t)' => OnChain(t) \/ t = tx
  BY DEF ChainTypeOK, TryBroadcast, Broadcast, OnChain, Pooled, Confirmed, chainVars

\* The network invents no transaction and unconfirms none.
LEMMA NetworkAdds ==
  ASSUME ChainTypeOK, ChainNext
  PROVE  \A t \in Tx : /\ OnChain(t)' => OnChain(t)
                       /\ Confirmed(t) => Confirmed(t)'
<1>1. ASSUME NEW block \in SUBSET Pooled, Mine(block)
      PROVE  \A t \in Tx : /\ OnChain(t)' => OnChain(t)
                           /\ Confirmed(t) => Confirmed(t)'
  BY <1>1 DEF Mine, ChainTypeOK, OnChain, Pooled, Confirmed
<1>2. ASSUME NEW p \in Party, NEW tx \in Tx, Relay(p, tx)
      PROVE  \A t \in Tx : /\ OnChain(t)' => OnChain(t)
                           /\ Confirmed(t) => Confirmed(t)'
  BY <1>2 DEF Relay, Broadcast, ChainTypeOK, OnChain, Pooled, Confirmed
<1>3. ASSUME NEW p \in Party, NEW tx \in Tx, Evict(p, tx)
      PROVE  \A t \in Tx : /\ OnChain(t)' => OnChain(t)
                           /\ Confirmed(t) => Confirmed(t)'
  BY <1>3 DEF Evict, ChainTypeOK, OnChain, Pooled, Confirmed
<1>. QED
  BY <1>1, <1>2, <1>3 DEF ChainNext

\* What each channel operation can put on its way, and what it proves was.
LEMMA ChannelStep ==
  ASSUME SessionTypeOK, NEW p \in Party, NEW f \in Frame, NEW g \in Frame
  PROVE  /\ Send(p, f) =>
              \A q \in Party, h \in Frame :
                 InFlight(q, h)' => InFlight(q, h) \/ (q # p /\ h = f)
         /\ Recv(p, f) =>
              /\ InFlight(p, f)
              /\ \A q \in Party, h \in Frame : InFlight(q, h)' => InFlight(q, h)
         /\ RecvSend(p, f, g) =>
              /\ InFlight(p, f)
              /\ \A q \in Party, h \in Frame :
                    InFlight(q, h)' => InFlight(q, h) \/ (q # p /\ h = g)
<1>1. Peer(p) \in Party /\ Peer(p) # p /\ Party = {p, Peer(p)}
  BY DEF Peer, Party
<1>2. chan[p] \in Seq(Frame) /\ chan[Peer(p)] \in Seq(Frame)
  BY <1>1 DEF SessionTypeOK
<1>3. ASSUME Send(p, f), NEW q \in Party, NEW h \in Frame, InFlight(q, h)'
      PROVE  InFlight(q, h) \/ (q # p /\ h = f)
  <2>1. chan' = [chan EXCEPT ![Peer(p)] = Append(chan[Peer(p)], f)]
    BY <1>3 DEF Send
  <2>2. CASE q = p
    BY <1>1, <1>3, <2>1, <2>2 DEF InFlight, SessionTypeOK
  <2>3. CASE q = Peer(p)
    <3>1. chan'[q] = Append(chan[q], f)
      BY <1>1, <2>1, <2>3 DEF SessionTypeOK
    <3>. QED
      BY <1>1, <1>2, <1>3, <2>3, <3>1, AppendCarries DEF InFlight
  <2>. QED
    BY <1>1, <2>2, <2>3
<1>4. ASSUME Recv(p, f)
      PROVE  /\ InFlight(p, f)
             /\ \A q \in Party, h \in Frame : InFlight(q, h)' => InFlight(q, h)
  <2>1. chan[p] # <<>> /\ Head(chan[p]) = f /\ chan' = [chan EXCEPT ![p] = Tail(chan[p])]
    BY <1>4 DEF Recv, Arrived
  <2>2. InFlight(p, f)
    BY <1>2, <2>1, TailCarries DEF InFlight
  <2>3. ASSUME NEW q \in Party, NEW h \in Frame, InFlight(q, h)'
        PROVE  InFlight(q, h)
    <3>1. CASE q = p
      <4>1. chan'[q] = Tail(chan[p])
        BY <2>1, <3>1 DEF SessionTypeOK
      <4>. QED
        BY <1>2, <2>1, <2>3, <3>1, <4>1, TailCarries DEF InFlight
    <3>2. CASE q # p
      BY <2>1, <2>3, <3>2 DEF InFlight, SessionTypeOK
    <3>. QED
      BY <3>1, <3>2
  <2>. QED
    BY <2>2, <2>3
<1>5. ASSUME RecvSend(p, f, g)
      PROVE  /\ InFlight(p, f)
             /\ \A q \in Party, h \in Frame :
                   InFlight(q, h)' => InFlight(q, h) \/ (q # p /\ h = g)
  <2>1. /\ chan[p] # <<>> /\ Head(chan[p]) = f
        /\ chan'[p] = Tail(chan[p])
        /\ chan'[Peer(p)] = Append(chan[Peer(p)], g)
    BY <1>1, <1>5 DEF RecvSend, Arrived, SessionTypeOK
  <2>2. InFlight(p, f)
    BY <1>2, <2>1, TailCarries DEF InFlight
  <2>3. ASSUME NEW q \in Party, NEW h \in Frame, InFlight(q, h)'
        PROVE  InFlight(q, h) \/ (q # p /\ h = g)
    <3>1. CASE q = p
      BY <1>2, <2>1, <2>3, <3>1, TailCarries DEF InFlight
    <3>2. CASE q = Peer(p)
      BY <1>1, <1>2, <2>1, <2>3, <3>2, AppendCarries DEF InFlight
    <3>. QED
      BY <1>1, <3>1, <3>2
  <2>. QED
    BY <2>2, <2>3
<1>. QED
  BY <1>3, <1>4, <1>5


----------------------------------------------------------------------------
(* The refund before the funding.                                          *)

\* TX1 with both signatures is in a frame or in a session.
Signed ==
    \/ InFlight("player", "FundFinal")
    \/ \E p \in Party : pc[p] \in {"broadcastFunding", "waitFunding"}

\* A step keeps SavedInv and what is saved, and signs TX1 only when both are.
SafelySigned ==
    /\ SavedInv'
    /\ \A q \in Party : Saved(q) => Saved(q)'
    /\ Signed' => Signed \/ \A q \in Party : Saved(q)

\* The dealer's steps keep the safety net.
LEMMA DealerSigns ==
  ASSUME ShapeOK, SavedInv, DealerStep
  PROVE  SafelySigned
<1>. USE DEF SafelySigned, SavedInv, Saved, Signed, ShapeOK, SessionTypeOK, Goto, Persist,
            Return, Memory, NoChain, Armed, Ended, InFlight, Frame, Party, Record,
            NoRecord, RecvLabels, WaitLabels
<1>1. CASE DealerFundOpen BY <1>1, ChannelStep, ZenonT(60) DEF DealerFundOpen
<1>2. CASE DealerFundReply BY <1>2, ChannelStep, ZenonT(60) DEF DealerFundReply
<1>3. CASE DealerAliceOpen BY <1>3, ChannelStep, ZenonT(60) DEF DealerAliceOpen
<1>4. CASE DealerAliceReveal BY <1>4, ChannelStep, ZenonT(60) DEF DealerAliceReveal
<1>5. CASE DealerBobAuth BY <1>5, ChannelStep, ZenonT(60) DEF DealerBobAuth
<1>6. CASE DealerFundFinal BY <1>6, ChannelStep, ZenonT(60) DEF DealerFundFinal
<1>7. CASE DealerCoopReveal BY <1>7, ChannelStep, ZenonT(60) DEF DealerCoopReveal
<1>8. CASE DealerSeesCoop BY <1>8 DEF DealerSeesCoop
<1>9. CASE DealerSeesSettle BY <1>9 DEF DealerSeesSettle
<1>10. CASE DealerCoopDeadline BY <1>10 DEF DealerCoopDeadline
<1>11. CASE DealerSettle BY <1>11 DEF DealerSettle
<1>12. CASE DealerSettled BY <1>12 DEF DealerSettled
<1>13. CASE DealerSeesClaim BY <1>13 DEF DealerSeesClaim
<1>14. CASE DealerClaimDeadline BY <1>14 DEF DealerClaimDeadline
<1>15. CASE DealerTimelock BY <1>15 DEF DealerTimelock
<1>16. CASE DealerReclaim BY <1>16 DEF DealerReclaim
<1>17. CASE DealerReclaimed BY <1>17 DEF DealerReclaimed
<1>. QED
  BY <1>1, <1>2, <1>3, <1>4, <1>5, <1>6, <1>7, <1>8, <1>9, <1>10, <1>11, <1>12, <1>13,
     <1>14, <1>15, <1>16, <1>17 DEF DealerStep

\* The player's steps keep the safety net.
LEMMA PlayerSigns ==
  ASSUME ShapeOK, SavedInv, PlayerStep
  PROVE  SafelySigned
<1>. USE DEF SafelySigned, SavedInv, Saved, Signed, ShapeOK, SessionTypeOK, Goto, Persist,
            Return, Memory, NoChain, Armed, Ended, InFlight, Frame, Party, Record,
            NoRecord, RecvLabels, WaitLabels
<1>1. CASE PlayerFundReply BY <1>1, ChannelStep, ZenonT(60) DEF PlayerFundReply
<1>2. CASE PlayerBobCommit BY <1>2, ChannelStep, ZenonT(60) DEF PlayerBobCommit
<1>3. CASE PlayerBobAuth BY <1>3, ChannelStep, ZenonT(60) DEF PlayerBobAuth
<1>4. CASE PlayerFundSign BY <1>4, ChannelStep, ZenonT(60) DEF PlayerFundSign
<1>5. CASE PlayerFundFinal BY <1>5, ChannelStep, ZenonT(60) DEF PlayerFundFinal
<1>6. CASE PlayerCoopWon BY <1>6, ChannelStep, ZenonT(60) DEF PlayerCoopWon
<1>7. CASE PlayerCoopLost BY <1>7, ChannelStep, ZenonT(60) DEF PlayerCoopLost
<1>8. CASE PlayerCoopDeadline BY <1>8 DEF PlayerCoopDeadline
<1>9. CASE PlayerBroadcastCoop BY <1>9 DEF PlayerBroadcastCoop
<1>10. CASE PlayerCoopConfirmed BY <1>10 DEF PlayerCoopConfirmed
<1>11. CASE PlayerObserve BY <1>11 DEF PlayerObserve
<1>12. CASE PlayerClaim BY <1>12 DEF PlayerClaim
<1>13. CASE PlayerClaimed BY <1>13 DEF PlayerClaimed
<1>. QED
  BY <1>1, <1>2, <1>3, <1>4, <1>5, <1>6, <1>7, <1>8, <1>9, <1>10, <1>11, <1>12, <1>13 DEF PlayerStep

\* The shared steps and crashes keep the safety net.
LEMMA SharedSigns ==
  ASSUME ShapeOK, SavedInv, NEW p \in Party, SharedStep(p) \/ Crash(p)
  PROVE  SafelySigned
<1>. USE DEF SafelySigned, SavedInv, Saved, Signed, ShapeOK, SessionTypeOK, Goto, Persist,
            Return, Memory, NoChain, Armed, Ended, InFlight, Frame, Party, Record,
            NoRecord, RecvLabels, WaitLabels
<1>1. CASE PersistFunded(p) BY <1>1 DEF PersistFunded
<1>2. CASE FinalizeSetup(p) BY <1>2 DEF FinalizeSetup
<1>3. CASE PersistRefund(p) BY <1>3 DEF PersistRefund
<1>4. CASE PersistSetup(p) BY <1>4 DEF PersistSetup
<1>5. CASE BroadcastFunding(p) BY <1>5 DEF BroadcastFunding
<1>6. CASE FundingConfirmed(p) BY <1>6 DEF FundingConfirmed
<1>7. CASE Deadline(p) BY <1>7 DEF Deadline, Fail
<1>8. CASE Rejected(p) BY <1>8 DEF Rejected, Fail
<1>9. CASE Crash(p) BY <1>9 DEF Crash, Fail
<1>. QED
  BY <1>1, <1>2, <1>3, <1>4, <1>5, <1>6, <1>7, <1>8, <1>9 DEF SharedStep

\* RefundInv is inductive.
LEMMA RefundStep == ShapeOK /\ RefundInv /\ [Next]_betVars => RefundInv'
<1>. SUFFICES ASSUME ShapeOK, RefundInv, [Next]_betVars PROVE RefundInv'
  OBVIOUS
<1>. USE DEF RefundInv
<1>0. FundingSigned <=> Signed \/ OnChain("funding")
  BY DEF FundingSigned, Signed
<1>1. ASSUME NEW p \in Party, SessionStep(p) \/ CrashStep(p)
      PROVE  RefundInv'
  <2>1. SafelySigned
    BY <1>1, DealerSigns, PlayerSigns, SharedSigns DEF SessionStep, CrashStep
  <2>2. OnChain("funding")' => OnChain("funding") \/ pc[p] = "broadcastFunding"
    <3>1. CASE UNCHANGED chainVars
      BY <3>1 DEF chainVars, OnChain, Confirmed, Pooled
    <3>2. ASSUME NEW tx \in Tx, TryBroadcast(p, tx), Reason(p, tx)
          PROVE  OnChain("funding")' => OnChain("funding") \/ pc[p] = "broadcastFunding"
      BY <3>2, BroadcastAdds DEF ShapeOK, Reason, Tx
    <3>. QED
      BY <1>1, <3>1, <3>2, OnlyBroadcasts
  <2>3. FundingSigned' => \A q \in Party : Saved(q)'
    <3>1. FundingSigned' => FundingSigned \/ \A q \in Party : Saved(q)
      BY <2>1, <2>2 DEF FundingSigned, Signed, SafelySigned
    <3>2. FundingSigned => \A q \in Party : Saved(q)
      BY DEF RefundBeforeFunding, Saved
    <3>. QED
      BY <2>1, <3>1, <3>2 DEF SafelySigned
  <2>4. RefundBeforeFunding'
    <3>1. refundFile' \subseteq Party
      BY <1>1, StepTypeOK DEF Next, ShapeOK, SessionTypeOK
    <3>. QED
      BY <2>3, <3>1 DEF RefundBeforeFunding, Saved
  <2>. QED
    BY <2>1, <2>4 DEF SafelySigned
<1>2. ASSUME UNCHANGED sessionVars, OnChain("funding")' => OnChain("funding")
      PROVE  RefundInv'
  BY <1>2 DEF sessionVars, SavedInv, Saved, InFlight, RefundBeforeFunding, FundingSigned
<1>3. ASSUME NEW p \in Party, RecoverStep(p)
      PROVE  RefundInv'
  <2>1. UNCHANGED sessionVars
    BY <1>3 DEF RecoverStep
  <2>2. CASE UNCHANGED chainVars
    BY <1>2, <2>1, <2>2 DEF chainVars, OnChain, Confirmed, Pooled
  <2>3. ASSUME NEW tx \in Tx, TryBroadcast(p, tx), Reason(p, tx)
        PROVE  RefundInv'
    <3>1. OnChain("funding")' => OnChain("funding") \/ pc[p] = "broadcastFunding"
      BY <2>3, BroadcastAdds DEF ShapeOK, Reason, Tx
    <3>2. FundingSigned' => FundingSigned
      BY <2>1, <3>1 DEF FundingSigned, sessionVars, InFlight
    <3>. QED
      BY <2>1, <3>2 DEF sessionVars, SavedInv, Saved, InFlight, RefundBeforeFunding
  <2>. QED
    BY <1>3, <2>2, <2>3, OnlyBroadcasts
<1>4. CASE NetworkStep
  BY <1>2, <1>4, NetworkAdds DEF NetworkStep, ShapeOK, Tx
<1>5. CASE UNCHANGED betVars
  BY <1>2, <1>5 DEF betVars, chainVars, OnChain, Confirmed, Pooled
<1>. QED
  BY <1>1, <1>3, <1>4, <1>5 DEF Next

\* It holds initially.
LEMMA RefundInit == Init => RefundInv
  BY DEF Init, BetInit, ChainInit, RefundInv, SavedInv, Saved, Armed, Ended, NoRecord,
         InFlight, Carries, RefundBeforeFunding, FundingSigned, OnChain, Confirmed, Pooled,
         Party, Tx

\* "No broadcastable funding tx ever exists before its refund does": however
\* the two sessions and the network are interleaved, TX1 is not fully signed
\* anywhere before both parties hold the pre-signed refund on disk.
THEOREM RefundSafety == Spec => []RefundBeforeFunding
<1>1. Init => ShapeOK /\ RefundInv
  BY InitTypeOK, RefundInit
<1>2. ShapeOK /\ RefundInv /\ [Next]_betVars => (ShapeOK /\ RefundInv)'
  BY StepTypeOK, RefundStep
<1>3. RefundInv => RefundBeforeFunding
  BY DEF RefundInv
<1>. QED
  BY <1>1, <1>2, <1>3, PTL DEF Spec

----------------------------------------------------------------------------
(* The reveal after the lock.                                              *)

\* A step by a session reaches a locked label, and the dealer sends the
\* reveal, only when the funding is confirmed.
KeepsLocked ==
    /\ \A q \in Party : pc'[q] \in Locked => pc[q] \in Locked \/ Confirmed("funding")
    /\ InFlight("player", "CoopReveal")' =>
          InFlight("player", "CoopReveal") \/ pc["dealer"] \in Locked

\* The dealer's steps play on a locked pot.
LEMMA DealerLocked ==
  ASSUME ShapeOK, DealerStep
  PROVE  KeepsLocked
<1>. USE DEF KeepsLocked, ShapeOK, SessionTypeOK, Goto, Persist, Return, Memory, NoChain,
            Locked, Armed, Ended, InFlight, Frame, Party, RecvLabels, WaitLabels
<1>1. CASE DealerFundOpen BY <1>1, ChannelStep DEF DealerFundOpen
<1>2. CASE DealerFundReply BY <1>2, ChannelStep DEF DealerFundReply
<1>3. CASE DealerAliceOpen BY <1>3, ChannelStep DEF DealerAliceOpen
<1>4. CASE DealerAliceReveal BY <1>4, ChannelStep DEF DealerAliceReveal
<1>5. CASE DealerBobAuth BY <1>5, ChannelStep DEF DealerBobAuth
<1>6. CASE DealerFundFinal BY <1>6, ChannelStep DEF DealerFundFinal
<1>7. CASE DealerCoopReveal BY <1>7, ChannelStep DEF DealerCoopReveal
<1>8. CASE DealerSeesCoop BY <1>8 DEF DealerSeesCoop
<1>9. CASE DealerSeesSettle BY <1>9 DEF DealerSeesSettle
<1>10. CASE DealerCoopDeadline BY <1>10 DEF DealerCoopDeadline
<1>11. CASE DealerSettle BY <1>11 DEF DealerSettle
<1>12. CASE DealerSettled BY <1>12 DEF DealerSettled
<1>13. CASE DealerSeesClaim BY <1>13 DEF DealerSeesClaim
<1>14. CASE DealerClaimDeadline BY <1>14 DEF DealerClaimDeadline
<1>15. CASE DealerTimelock BY <1>15 DEF DealerTimelock
<1>16. CASE DealerReclaim BY <1>16 DEF DealerReclaim
<1>17. CASE DealerReclaimed BY <1>17 DEF DealerReclaimed
<1>. QED
  BY <1>1, <1>2, <1>3, <1>4, <1>5, <1>6, <1>7, <1>8, <1>9, <1>10, <1>11, <1>12, <1>13,
     <1>14, <1>15, <1>16, <1>17 DEF DealerStep

\* The player's steps play on a locked pot.
LEMMA PlayerLocked ==
  ASSUME ShapeOK, PlayerStep
  PROVE  KeepsLocked
<1>. USE DEF KeepsLocked, ShapeOK, SessionTypeOK, Goto, Persist, Return, Memory, NoChain,
            Locked, Armed, Ended, InFlight, Frame, Party, RecvLabels, WaitLabels
<1>1. CASE PlayerFundReply BY <1>1, ChannelStep DEF PlayerFundReply
<1>2. CASE PlayerBobCommit BY <1>2, ChannelStep DEF PlayerBobCommit
<1>3. CASE PlayerBobAuth BY <1>3, ChannelStep DEF PlayerBobAuth
<1>4. CASE PlayerFundSign BY <1>4, ChannelStep DEF PlayerFundSign
<1>5. CASE PlayerFundFinal BY <1>5, ChannelStep DEF PlayerFundFinal
<1>6. CASE PlayerCoopWon BY <1>6, ChannelStep DEF PlayerCoopWon
<1>7. CASE PlayerCoopLost BY <1>7, ChannelStep DEF PlayerCoopLost
<1>8. CASE PlayerCoopDeadline BY <1>8 DEF PlayerCoopDeadline
<1>9. CASE PlayerBroadcastCoop BY <1>9 DEF PlayerBroadcastCoop
<1>10. CASE PlayerCoopConfirmed BY <1>10 DEF PlayerCoopConfirmed
<1>11. CASE PlayerObserve BY <1>11 DEF PlayerObserve
<1>12. CASE PlayerClaim BY <1>12 DEF PlayerClaim
<1>13. CASE PlayerClaimed BY <1>13 DEF PlayerClaimed
<1>. QED
  BY <1>1, <1>2, <1>3, <1>4, <1>5, <1>6, <1>7, <1>8, <1>9, <1>10, <1>11, <1>12, <1>13 DEF PlayerStep

\* The shared steps and crashes play on a locked pot.
LEMMA SharedLocked ==
  ASSUME ShapeOK, NEW p \in Party, SharedStep(p) \/ Crash(p)
  PROVE  KeepsLocked
<1>. USE DEF KeepsLocked, ShapeOK, SessionTypeOK, Goto, Persist, Return, Memory, NoChain,
            Locked, Armed, Ended, InFlight, Frame, Party, RecvLabels, WaitLabels
<1>1. CASE PersistFunded(p) BY <1>1 DEF PersistFunded
<1>2. CASE FinalizeSetup(p) BY <1>2 DEF FinalizeSetup
<1>3. CASE PersistRefund(p) BY <1>3 DEF PersistRefund
<1>4. CASE PersistSetup(p) BY <1>4 DEF PersistSetup
<1>5. CASE BroadcastFunding(p) BY <1>5 DEF BroadcastFunding
<1>6. CASE FundingConfirmed(p) BY <1>6 DEF FundingConfirmed
<1>7. CASE Deadline(p) BY <1>7 DEF Deadline, Fail
<1>8. CASE Rejected(p) BY <1>8 DEF Rejected, Fail
<1>9. CASE Crash(p) BY <1>9 DEF Crash, Fail
<1>. QED
  BY <1>1, <1>2, <1>3, <1>4, <1>5, <1>6, <1>7, <1>8, <1>9 DEF SharedStep

\* RevealInv is inductive.
LEMMA RevealStep == ShapeOK /\ RevealInv /\ [Next]_betVars => RevealInv'
<1>. SUFFICES ASSUME ShapeOK, RevealInv, [Next]_betVars PROVE RevealInv'
  OBVIOUS
<1>. USE DEF RevealInv
<1>1. ASSUME NEW p \in Party, SessionStep(p) \/ CrashStep(p) \/ RecoverStep(p)
      PROVE  RevealInv'
  <2>1. KeepsLocked
    <3>1. CASE SessionStep(p) \/ CrashStep(p)
      BY <3>1, DealerLocked, PlayerLocked, SharedLocked DEF SessionStep, CrashStep
    <3>2. CASE RecoverStep(p)
      BY <3>2 DEF RecoverStep, sessionVars, KeepsLocked, InFlight
    <3>. QED
      BY <1>1, <3>1, <3>2
  <2>2. /\ Confirmed("funding") => Confirmed("funding")'
        /\ OnChain("settle")' \/ OnChain("coop")' =>
              OnChain("settle") \/ OnChain("coop") \/ Confirmed("funding")
    <3>1. CASE UNCHANGED chainVars
      BY <3>1 DEF chainVars, OnChain, Confirmed, Pooled
    <3>2. ASSUME NEW tx \in Tx, TryBroadcast(p, tx), Reason(p, tx)
          PROVE  <2>2!1 /\ <2>2!2
      <4>1. confs' = confs /\ \A t \in Tx : OnChain(t)' => OnChain(t) \/ t = tx
        BY <3>2, BroadcastAdds DEF ShapeOK
      <4>2. tx \in {"settle", "coop"} => Confirmed("funding")
        BY <3>2 DEF Reason, Locked, Armed, U1Live, UtxoUnspent
      <4>. QED
        BY <4>1, <4>2 DEF Confirmed, Tx
    <3>. QED
      BY <1>1, <3>1, <3>2, OnlyBroadcasts
  <2>. QED
    BY <2>1, <2>2 DEF KeepsLocked, RevealOnlyWhenLocked, Party
<1>2. ASSUME UNCHANGED sessionVars,
             Confirmed("funding") => Confirmed("funding")',
             \A tx \in Tx : OnChain(tx)' => OnChain(tx)
      PROVE  RevealInv'
  BY <1>2 DEF sessionVars, RevealOnlyWhenLocked, InFlight, Tx
<1>3. CASE NetworkStep
  BY <1>2, <1>3, NetworkAdds DEF NetworkStep, ShapeOK, Tx
<1>4. CASE UNCHANGED betVars
  BY <1>2, <1>4 DEF betVars, chainVars, OnChain, Confirmed, Pooled
<1>. QED
  BY <1>1, <1>3, <1>4 DEF Next

\* It holds initially.
LEMMA RevealInit == Init => RevealInv
  BY DEF Init, BetInit, ChainInit, RevealInv, Locked, Armed, InFlight, Carries,
         RevealOnlyWhenLocked, OnChain, Confirmed, Pooled, Party, Tx

\* The dealer's secret d, and with it the outcome, reaches a frame, a pool or
\* a block only once the pot is locked in a confirmed U1: neither party can
\* learn the outcome while his stake is still his to withdraw.
THEOREM RevealSafety == Spec => []RevealOnlyWhenLocked
<1>1. Init => ShapeOK /\ RevealInv
  BY InitTypeOK, RevealInit
<1>2. ShapeOK /\ RevealInv /\ [Next]_betVars => (ShapeOK /\ RevealInv)'
  BY StepTypeOK, RevealStep
<1>3. RevealInv => RevealOnlyWhenLocked
  BY DEF RevealInv
<1>. QED
  BY <1>1, <1>2, <1>3, PTL DEF Spec

----------------------------------------------------------------------------
(* The ledger.                                                             *)

\* A party's steps keep the ledger: confirmations stay, and what a node newly
\* takes into its pool was acceptable.
LEMMA LedgerBroadcast ==
  ASSUME ChainTypeOK, LedgerInv, NEW p \in Party, NEW tx \in Tx, TryBroadcast(p, tx)
  PROVE  LedgerInv'
<1>1. CASE UNCHANGED chainVars
  BY <1>1 DEF chainVars, LedgerInv, Confirmed, Pooled
<1>2. CASE Broadcast(p, tx)
  <2>1. confs' = confs /\ height' = height
    BY <1>2 DEF Broadcast
  <2>2. tx \in Pooled \/ Accepts(p, tx)
    BY <1>2 DEF Broadcast, BroadcastOk, Pooled
  <2>3. \A t \in Pooled' : t \in Pooled \/ t = tx
    BY <1>2 DEF Broadcast, Pooled, ChainTypeOK
  <2>4. \A t \in Pooled' : ~Confirmed(t) /\ \A r \in Rivals(t) : ~Confirmed(r)
    BY <2>2, <2>3 DEF LedgerInv, Accepts, Known
  <2>5. /\ "reclaim" \in Pooled' => confs["settle"] >= AliceTimeout
        /\ "refund" \in Pooled' => height >= RefundLocktime
    BY <2>2, <2>3 DEF LedgerInv, Accepts, Unlocked
  <2>. QED
    BY <2>1, <2>4, <2>5 DEF LedgerInv, Confirmed
<1>. QED
  BY <1>1, <1>2 DEF TryBroadcast

\* A block keeps the ledger: it holds pooled transactions only, so none that
\* an earlier block ruled out, no two rivals, and every parent.
LEMMA LedgerBlock ==
  ASSUME ChainTypeOK, LedgerInv, NEW block \in SUBSET Pooled, Mine(block)
  PROVE  LedgerInv'
<1>. USE ChainAssumption
<1>1. block \subseteq Tx
  BY DEF Pooled, ChainTypeOK
<1>2. \A t \in Tx : Confirmed(t)' <=> Confirmed(t) \/ t \in block
  BY <1>1 DEF Mine, Confirmed, ChainTypeOK, Cap
<1>3. \A t \in Pooled' : t \in Pooled /\ Survives(t, block)
  BY DEF Mine, Pooled
<1>4. \A tx \in Tx : Confirmed(tx)' /\ Parent[tx] \in Tx => Confirmed(Parent[tx])'
  BY <1>2 DEF LedgerInv, Mine, Minable, Rooted
<1>5. \A tx \in Tx : \A r \in Rivals(tx) : ~(Confirmed(tx)' /\ Confirmed(r)')
  <2>. SUFFICES ASSUME NEW tx \in Tx, NEW r \in Rivals(tx), Confirmed(tx)', Confirmed(r)'
                PROVE  FALSE
    OBVIOUS
  <2>1. r \in Tx /\ tx \in Rivals(r)
    BY DEF Rivals
  <2>2. CASE tx \in block
    BY <1>2, <2>1, <2>2 DEF LedgerInv, Mine, Minable
  <2>3. CASE r \in block
    BY <1>2, <2>1, <2>3 DEF LedgerInv, Mine, Minable
  <2>. QED
    BY <1>2, <2>1, <2>2, <2>3 DEF LedgerInv
<1>6. \A tx \in Pooled' : ~Confirmed(tx)' /\ \A r \in Rivals(tx) : ~Confirmed(r)'
  <2>. SUFFICES ASSUME NEW tx \in Pooled'
                PROVE  ~Confirmed(tx)' /\ \A r \in Rivals(tx) : ~Confirmed(r)'
    OBVIOUS
  <2>1. tx \in Pooled /\ tx \in Tx /\ tx \notin block /\ Rivals(tx) \intersect block = {}
    BY <1>3 DEF Survives, Pooled, ChainTypeOK
  <2>. QED
    BY <1>2, <2>1 DEF LedgerInv, Rivals
<1>7. height' >= height /\ confs'["settle"] >= confs["settle"]
  <2>1. "settle" \in block => confs["settle"] = 0
    BY <1>1 DEF LedgerInv, Confirmed, ChainTypeOK
  <2>. QED
    BY <2>1 DEF Mine, ChainTypeOK, Tx, Confirmed, Cap
<1>8. /\ "reclaim" \in Pooled' => confs'["settle"] >= AliceTimeout
      /\ "refund" \in Pooled' => height' >= RefundLocktime
  <2>1. height \in Nat /\ height' \in Nat /\ confs["settle"] \in Nat /\ confs'["settle"] \in Nat
    BY NetworkTypeOK DEF ChainTypeOK, ChainNext, Tx
  <2>. QED
    BY <1>3, <1>7, <2>1 DEF LedgerInv
<1>. QED
  BY <1>4, <1>5, <1>6, <1>8 DEF LedgerInv

\* The ledger is kept by every step.
LEMMA LedgerStep == ShapeOK /\ LedgerInv /\ [Next]_betVars => LedgerInv'
<1>. SUFFICES ASSUME ShapeOK, LedgerInv, [Next]_betVars PROVE LedgerInv'
  OBVIOUS
<1>1. ChainTypeOK
  BY DEF ShapeOK
<1>2. CASE UNCHANGED chainVars
  BY <1>2 DEF chainVars, LedgerInv, Confirmed, Pooled
<1>3. ASSUME NEW p \in Party, SessionStep(p) \/ CrashStep(p) \/ RecoverStep(p)
      PROVE  LedgerInv'
  BY <1>1, <1>2, <1>3, OnlyBroadcasts, LedgerBroadcast
<1>4. CASE NetworkStep
  <2>1. ASSUME NEW p \in Party, NEW tx \in Tx, Relay(p, tx)
        PROVE  LedgerInv'
    BY <1>1, <2>1, LedgerBroadcast DEF Relay, TryBroadcast
  <2>2. ASSUME NEW p \in Party, NEW tx \in Tx, Evict(p, tx)
        PROVE  LedgerInv'
    <3>1. Pooled' \subseteq Pooled
      BY <1>1, <2>2 DEF Evict, Pooled, ChainTypeOK
    <3>. QED
      BY <2>2, <3>1 DEF Evict, LedgerInv, Confirmed
  <2>. QED
    BY <1>1, <1>4, <2>1, <2>2, LedgerBlock DEF NetworkStep, ChainNext
<1>5. CASE UNCHANGED betVars
  BY <1>2, <1>5 DEF betVars
<1>. QED
  BY <1>3, <1>4, <1>5 DEF Next

\* It holds initially.
LEMMA LedgerInit == Init => LedgerInv
  BY DEF Init, BetInit, ChainInit, LedgerInv, Confirmed, Pooled, Rivals, Party, Tx

----------------------------------------------------------------------------
(* Records only advance.                                                   *)

Advances(p) ==
    /\ record'[p] # record[p] => Rank[record'[p].phase] > Rank[record[p].phase]
    /\ record[p].setup => record'[p].setup

\* A step keeps PhaseInv and takes no record back.
RecordsAdvance == PhaseInv' /\ \A q \in Party : Advances(q)

\* The dealer's steps advance the records.
LEMMA DealerAdvances ==
  ASSUME ShapeOK, SavedInv, PhaseInv, DealerStep
  PROVE  RecordsAdvance
<1>. USE DEF RecordsAdvance, Advances, SavedInv, Saved, PhaseInv, ShapeOK, SessionTypeOK, Goto,
            Persist, Return, Memory, NoChain, Locked, Armed, Ended, Party, Rank,
            RecvLabels, WaitLabels, Record, NoRecord, Phase
<1>1. CASE DealerFundOpen BY <1>1 DEF DealerFundOpen
<1>2. CASE DealerFundReply BY <1>2 DEF DealerFundReply
<1>3. CASE DealerAliceOpen BY <1>3 DEF DealerAliceOpen
<1>4. CASE DealerAliceReveal BY <1>4 DEF DealerAliceReveal
<1>5. CASE DealerBobAuth BY <1>5 DEF DealerBobAuth
<1>6. CASE DealerFundFinal BY <1>6 DEF DealerFundFinal
<1>7. CASE DealerCoopReveal BY <1>7 DEF DealerCoopReveal
<1>8. CASE DealerSeesCoop BY <1>8 DEF DealerSeesCoop
<1>9. CASE DealerSeesSettle BY <1>9 DEF DealerSeesSettle
<1>10. CASE DealerCoopDeadline BY <1>10 DEF DealerCoopDeadline
<1>11. CASE DealerSettle BY <1>11 DEF DealerSettle
<1>12. CASE DealerSettled BY <1>12 DEF DealerSettled
<1>13. CASE DealerSeesClaim BY <1>13 DEF DealerSeesClaim
<1>14. CASE DealerClaimDeadline BY <1>14 DEF DealerClaimDeadline
<1>15. CASE DealerTimelock BY <1>15 DEF DealerTimelock
<1>16. CASE DealerReclaim BY <1>16 DEF DealerReclaim
<1>17. CASE DealerReclaimed BY <1>17 DEF DealerReclaimed
<1>. QED
  BY <1>1, <1>2, <1>3, <1>4, <1>5, <1>6, <1>7, <1>8, <1>9, <1>10, <1>11, <1>12, <1>13,
     <1>14, <1>15, <1>16, <1>17 DEF DealerStep

\* The player's steps advance the records.
LEMMA PlayerAdvances ==
  ASSUME ShapeOK, SavedInv, PhaseInv, PlayerStep
  PROVE  RecordsAdvance
<1>. USE DEF RecordsAdvance, Advances, SavedInv, Saved, PhaseInv, ShapeOK, SessionTypeOK, Goto,
            Persist, Return, Memory, NoChain, Locked, Armed, Ended, Party, Rank,
            RecvLabels, WaitLabels, Record, NoRecord, Phase
<1>1. CASE PlayerFundReply BY <1>1 DEF PlayerFundReply
<1>2. CASE PlayerBobCommit BY <1>2 DEF PlayerBobCommit
<1>3. CASE PlayerBobAuth BY <1>3 DEF PlayerBobAuth
<1>4. CASE PlayerFundSign BY <1>4 DEF PlayerFundSign
<1>5. CASE PlayerFundFinal BY <1>5 DEF PlayerFundFinal
<1>6. CASE PlayerCoopWon BY <1>6 DEF PlayerCoopWon
<1>7. CASE PlayerCoopLost BY <1>7 DEF PlayerCoopLost
<1>8. CASE PlayerCoopDeadline BY <1>8 DEF PlayerCoopDeadline
<1>9. CASE PlayerBroadcastCoop BY <1>9 DEF PlayerBroadcastCoop
<1>10. CASE PlayerCoopConfirmed BY <1>10 DEF PlayerCoopConfirmed
<1>11. CASE PlayerObserve BY <1>11 DEF PlayerObserve
<1>12. CASE PlayerClaim BY <1>12 DEF PlayerClaim
<1>13. CASE PlayerClaimed BY <1>13 DEF PlayerClaimed
<1>. QED
  BY <1>1, <1>2, <1>3, <1>4, <1>5, <1>6, <1>7, <1>8, <1>9, <1>10, <1>11, <1>12, <1>13 DEF PlayerStep

\* The shared steps and crashes advance the records.
LEMMA SharedAdvances ==
  ASSUME ShapeOK, SavedInv, PhaseInv, NEW p \in Party, SharedStep(p) \/ Crash(p)
  PROVE  RecordsAdvance
<1>. USE DEF RecordsAdvance, Advances, SavedInv, Saved, PhaseInv, ShapeOK, SessionTypeOK, Goto,
            Persist, Return, Memory, NoChain, Locked, Armed, Ended, Party, Rank,
            RecvLabels, WaitLabels, Record, NoRecord, Phase
<1>1. CASE PersistFunded(p) BY <1>1 DEF PersistFunded
<1>2. CASE FinalizeSetup(p) BY <1>2 DEF FinalizeSetup
<1>3. CASE PersistRefund(p) BY <1>3 DEF PersistRefund
<1>4. CASE PersistSetup(p) BY <1>4 DEF PersistSetup
<1>5. CASE BroadcastFunding(p) BY <1>5 DEF BroadcastFunding
<1>6. CASE FundingConfirmed(p) BY <1>6 DEF FundingConfirmed
<1>7. CASE Deadline(p) BY <1>7 DEF Deadline, Fail
<1>8. CASE Rejected(p) BY <1>8 DEF Rejected, Fail
<1>9. CASE Crash(p) BY <1>9 DEF Crash, Fail
<1>. QED
  BY <1>1, <1>2, <1>3, <1>4, <1>5, <1>6, <1>7, <1>8, <1>9 DEF SharedStep

\* Every step does.
LEMMA RecordStep == ShapeOK /\ SavedInv /\ PhaseInv /\ [Next]_betVars => RecordsAdvance
<1>. SUFFICES ASSUME ShapeOK, SavedInv, PhaseInv, [Next]_betVars PROVE RecordsAdvance
  OBVIOUS
<1>1. ASSUME NEW p \in Party, SessionStep(p) \/ CrashStep(p)
      PROVE  RecordsAdvance
  BY <1>1, DealerAdvances, PlayerAdvances, SharedAdvances DEF SessionStep, CrashStep
<1>2. CASE UNCHANGED sessionVars
  BY <1>2 DEF sessionVars, RecordsAdvance, Advances, PhaseInv
<1>. QED
  BY <1>1, <1>2 DEF Next, RecoverStep, NetworkStep, betVars

\* It holds initially.
LEMMA PhaseInit == Init => PhaseInv
  BY DEF Init, BetInit, PhaseInv, Armed, Locked, NoRecord, Party

\* A bet record never goes back to an earlier stage and never loses the
\* pre-signed transactions, whichever session, crash or recovery comes next:
\* what a party can still recover only grows.
THEOREM RecordsOnlyAdvance == Spec => RecordOnlyAdvances
<1>1. Init => ShapeOK /\ RefundInv /\ PhaseInv
  BY InitTypeOK, RefundInit, PhaseInit
<1>2. ShapeOK /\ RefundInv /\ PhaseInv /\ [Next]_betVars => (ShapeOK /\ RefundInv /\ PhaseInv)'
  BY StepTypeOK, RefundStep, RecordStep DEF RecordsAdvance, RefundInv
<1>3. ShapeOK /\ RefundInv /\ PhaseInv /\ [Next]_betVars
      => [\A p \in Party :
            /\ record'[p] # record[p] => Rank[record'[p].phase] > Rank[record[p].phase]
            /\ record[p].setup => record'[p].setup]_record
  BY RecordStep DEF RecordsAdvance, Advances, RefundInv
<1>. QED
  BY <1>1, <1>2, <1>3, PTL DEF Spec, RecordOnlyAdvances

\* Every reachable state is well typed: chain counters stay within what the
\* code compares, sessions at known labels, frames of known types, and the
\* pre-signed transactions in a record exactly from SetupDone on.
THEOREM TypeCorrect == Spec => []TypeOK
<1>1. Init => ShapeOK /\ RefundInv /\ PhaseInv
  BY InitTypeOK, RefundInit, PhaseInit
<1>2. ShapeOK /\ RefundInv /\ PhaseInv /\ [Next]_betVars => (ShapeOK /\ RefundInv /\ PhaseInv)'
  BY StepTypeOK, RefundStep, RecordStep DEF RecordsAdvance, RefundInv
<1>3. ShapeOK /\ PhaseInv => TypeOK
  BY DEF TypeOK, PhaseInv, RecordsComplete
<1>. QED
  BY <1>1, <1>2, <1>3, PTL DEF Spec

----------------------------------------------------------------------------
(* Records tell the truth.                                                 *)

\* The dealer's steps write the truth.
LEMMA DealerRecords ==
  ASSUME ShapeOK, RevealInv, LedgerInv, PhaseInv, RecordsInv, confs' = confs, DealerStep
  PROVE  RecordsInv'
<1>. USE DEF RecordsInv, RecordBacked, RevealInv, PhaseInv, ShapeOK, SessionTypeOK, Goto,
            Persist, Return, Memory, NoChain, Locked, Armed, Ended, Party, Confirmed,
            RecvLabels, WaitLabels, Record, NoRecord, Phase
<1>1. CASE DealerFundOpen BY <1>1 DEF DealerFundOpen
<1>2. CASE DealerFundReply BY <1>2 DEF DealerFundReply
<1>3. CASE DealerAliceOpen BY <1>3 DEF DealerAliceOpen
<1>4. CASE DealerAliceReveal BY <1>4 DEF DealerAliceReveal
<1>5. CASE DealerBobAuth BY <1>5 DEF DealerBobAuth
<1>6. CASE DealerFundFinal BY <1>6 DEF DealerFundFinal
<1>7. CASE DealerCoopReveal BY <1>7 DEF DealerCoopReveal
<1>8. CASE DealerSeesCoop BY <1>8 DEF DealerSeesCoop
<1>9. CASE DealerSeesSettle BY <1>9 DEF DealerSeesSettle
<1>10. CASE DealerCoopDeadline BY <1>10 DEF DealerCoopDeadline
<1>11. CASE DealerSettle BY <1>11 DEF DealerSettle
<1>12. CASE DealerSettled BY <1>12 DEF DealerSettled
<1>13. CASE DealerSeesClaim BY <1>13 DEF DealerSeesClaim
<1>14. CASE DealerClaimDeadline BY <1>14 DEF DealerClaimDeadline
<1>15. CASE DealerTimelock BY <1>15 DEF DealerTimelock
<1>16. CASE DealerReclaim BY <1>16 DEF DealerReclaim
<1>17. CASE DealerReclaimed BY <1>17 DEF DealerReclaimed
<1>. QED
  BY <1>1, <1>2, <1>3, <1>4, <1>5, <1>6, <1>7, <1>8, <1>9, <1>10, <1>11, <1>12, <1>13,
     <1>14, <1>15, <1>16, <1>17 DEF DealerStep

\* The player's steps write the truth.
LEMMA PlayerRecords ==
  ASSUME ShapeOK, RevealInv, LedgerInv, PhaseInv, RecordsInv, confs' = confs, PlayerStep
  PROVE  RecordsInv'
<1>. USE DEF RecordsInv, RecordBacked, RevealInv, PhaseInv, ShapeOK, SessionTypeOK, Goto,
            Persist, Return, Memory, NoChain, Locked, Armed, Ended, Party, Confirmed,
            RecvLabels, WaitLabels, Record, NoRecord, Phase
<1>1. CASE PlayerFundReply BY <1>1 DEF PlayerFundReply
<1>2. CASE PlayerBobCommit BY <1>2 DEF PlayerBobCommit
<1>3. CASE PlayerBobAuth BY <1>3 DEF PlayerBobAuth
<1>4. CASE PlayerFundSign BY <1>4 DEF PlayerFundSign
<1>5. CASE PlayerFundFinal BY <1>5 DEF PlayerFundFinal
<1>6. CASE PlayerCoopWon BY <1>6 DEF PlayerCoopWon
<1>7. CASE PlayerCoopLost BY <1>7 DEF PlayerCoopLost
<1>8. CASE PlayerCoopDeadline BY <1>8 DEF PlayerCoopDeadline
<1>9. CASE PlayerBroadcastCoop BY <1>9 DEF PlayerBroadcastCoop
<1>10. CASE PlayerCoopConfirmed BY <1>10 DEF PlayerCoopConfirmed
<1>11. CASE PlayerObserve BY <1>11 DEF PlayerObserve
<1>12. CASE PlayerClaim BY <1>12 DEF PlayerClaim
<1>13. CASE PlayerClaimed BY <1>13 DEF PlayerClaimed, LedgerInv, Parent, Claims, Tx
<1>. QED
  BY <1>1, <1>2, <1>3, <1>4, <1>5, <1>6, <1>7, <1>8, <1>9, <1>10, <1>11, <1>12, <1>13 DEF PlayerStep

\* The shared steps and crashes write the truth.
LEMMA SharedRecords ==
  ASSUME ShapeOK, RevealInv, LedgerInv, PhaseInv, RecordsInv, confs' = confs, NEW p \in Party, SharedStep(p) \/ Crash(p)
  PROVE  RecordsInv'
<1>. USE DEF RecordsInv, RecordBacked, RevealInv, PhaseInv, ShapeOK, SessionTypeOK, Goto,
            Persist, Return, Memory, NoChain, Locked, Armed, Ended, Party, Confirmed,
            RecvLabels, WaitLabels, Record, NoRecord, Phase
<1>1. CASE PersistFunded(p) BY <1>1 DEF PersistFunded
<1>2. CASE FinalizeSetup(p) BY <1>2 DEF FinalizeSetup
<1>3. CASE PersistRefund(p) BY <1>3 DEF PersistRefund
<1>4. CASE PersistSetup(p) BY <1>4 DEF PersistSetup
<1>5. CASE BroadcastFunding(p) BY <1>5 DEF BroadcastFunding
<1>6. CASE FundingConfirmed(p) BY <1>6 DEF FundingConfirmed
<1>7. CASE Deadline(p) BY <1>7 DEF Deadline, Fail
<1>8. CASE Rejected(p) BY <1>8 DEF Rejected, Fail
<1>9. CASE Crash(p) BY <1>9 DEF Crash, Fail
<1>. QED
  BY <1>1, <1>2, <1>3, <1>4, <1>5, <1>6, <1>7, <1>8, <1>9 DEF SharedStep

\* The invariants of this module and those they rest on.
RecordsIInv == ShapeOK /\ RefundInv /\ RevealInv /\ LedgerInv /\ PhaseInv /\ RecordsInv

\* Together they are inductive.
LEMMA RecordsStep == RecordsIInv /\ [Next]_betVars => RecordsIInv'
<1>. SUFFICES ASSUME RecordsIInv, [Next]_betVars PROVE RecordsInv'
  BY StepTypeOK, RefundStep, RevealStep, LedgerStep, RecordStep
  DEF RecordsIInv, RecordsAdvance, RefundInv
<1>1. ASSUME NEW p \in Party, SessionStep(p) \/ CrashStep(p)
      PROVE  RecordsInv'
  <2>1. confs' = confs
    BY <1>1, OnlyBroadcasts, BroadcastAdds DEF chainVars, RecordsIInv, ShapeOK
  <2>. QED
    BY <1>1, <2>1, DealerRecords, PlayerRecords, SharedRecords
    DEF SessionStep, CrashStep, RecordsIInv
<1>2. ASSUME UNCHANGED sessionVars, \A tx \in Tx : Confirmed(tx) => Confirmed(tx)'
      PROVE  RecordsInv'
  BY <1>2 DEF sessionVars, RecordsIInv, RecordsInv, RecordBacked, Tx, Claims
<1>3. ASSUME NEW p \in Party, RecoverStep(p)
      PROVE  RecordsInv'
  <2>1. confs' = confs
    BY <1>3, OnlyBroadcasts, BroadcastAdds DEF chainVars, RecordsIInv, ShapeOK
  <2>. QED
    BY <1>2, <1>3, <2>1 DEF RecoverStep, Confirmed
<1>4. CASE NetworkStep
  BY <1>2, <1>4, NetworkAdds DEF NetworkStep, RecordsIInv, ShapeOK
<1>5. CASE UNCHANGED betVars
  BY <1>2, <1>5 DEF betVars, chainVars, Confirmed
<1>. QED
  BY <1>1, <1>3, <1>4, <1>5 DEF Next

\* They hold initially.
LEMMA RecordsInit == Init => RecordsIInv
<1>1. Init => RecordsInv
  BY DEF Init, BetInit, RecordsInv, RecordBacked, NoRecord, Party
<1>. QED
  BY <1>1, InitTypeOK, RefundInit, RevealInit, LedgerInit, PhaseInit DEF RecordsIInv

\* A record written before a crash is a fact about the chain after it, and no
\* record says Done while U1 is still to be spent, so recovery never turns
\* away from a pot it could secure.
THEOREM RecordsAreTrue == Spec => [](RecordBacked /\ NeverDoneWhilePotLive)
<1>1. RecordsIInv => RecordBacked /\ NeverDoneWhilePotLive
  BY DEF RecordsIInv, RecordsInv, NeverDoneWhilePotLive, U1Live, UtxoUnspent, Parent, Tx, Claims
<1>. QED
  BY RecordsInit, RecordsStep, <1>1, PTL DEF Spec

\* The second half alone: a session that reported its outcome and marked its
\* record Done has left no live pot behind.
THEOREM DoneMeansSpent == Spec => []NeverDoneWhilePotLive
  BY RecordsAreTrue, PTL

\* Where the pot is when U1 or O_K is no confirmed unspent output.
LEMMA SpentPlaces ==
  ASSUME LedgerInv
  PROVE  /\ Confirmed("funding") /\ ~U1Live /\ ~Confirmed("settle")
                => PotPlace \in {"refunded", "conceded"}
         /\ U1Live => PotPlace = "locked"
         /\ ClaimOutputUnspent => PotPlace = "settled"
         /\ Confirmed("settle") /\ ~ClaimOutputUnspent
                => PotPlace \in {"claimed", "reclaimed"}
         /\ Confirmed("settle") => PotPlace \in {"settled", "claimed", "reclaimed"}
         /\ ~Confirmed("funding") => PotPlace = "wallets"
<1>1. /\ \A tx \in Tx : Parent[tx] = "funding" <=> tx \in {"refund", "settle", "coop"}
      /\ \A tx \in Tx : Parent[tx] = "settle" <=> tx \in {"claim", "recoveredClaim", "reclaim"}
      /\ Claims = {"claim", "recoveredClaim"}
      /\ {"funding", "refund", "settle", "coop", "claim", "recoveredClaim", "reclaim"} = Tx
  BY DEF Parent, Tx, Claims
<1>2. /\ \A tx \in {"refund", "settle", "coop"} : Confirmed(tx) => Confirmed("funding")
      /\ \A tx \in {"claim", "recoveredClaim", "reclaim"} : Confirmed(tx) => Confirmed("settle")
  BY <1>1 DEF LedgerInv
<1>. QED
  BY <1>1, <1>2 DEF PotPlace, U1Live, ClaimOutputUnspent, UtxoUnspent

\* The verdicts follow from the invariants.
LEMMA VerdictsFollow == RecordsIInv => VerdictFacts
<1>. SUFFICES ASSUME RecordsIInv, NEW p \in Party
              PROVE
                /\ Assess(p) = "nothing committed" => ~FundingSigned
                /\ Assess(p) = "resolved" => Resolved \/ (p = "dealer" /\ PotPlace = "settled")
                /\ Assess(p) = "U1 already spent" =>
                       PotPlace \in {"wallets", "refunded", "conceded"}
                /\ Assess(p) = "claimed already" => PotPlace \in {"claimed", "reclaimed"}
                /\ Assess(p) \in {"claim if won", "reclaim", "wait for claim"} =>
                       PotPlace = "settled"
                /\ Assess(p) \in {"settle", "wait for settlement"} => PotPlace = "locked"
                /\ Assess(p) = "settle" => Doable(p, "settle")
                /\ Assess(p) = "claim if won" => Doable(p, "recoveredClaim")
                /\ Assess(p) = "reclaim" => Doable(p, "reclaim")
  BY DEF VerdictFacts
<1>. USE DEF RecordsIInv
<1>1. /\ Assess(p) = "nothing committed" => ~record[p].setup
      /\ Assess(p) = "resolved" => record[p].phase = "Done"
      /\ Assess(p) \in {"settle", "wait for settlement"} => U1Live
      /\ Assess(p) = "U1 already spent" => ~U1Live /\ ~Known(p, "settle")
      /\ Assess(p) = "claimed already" => ~U1Live /\ Known(p, "settle") /\ ~ClaimOutputUnspent
      /\ Assess(p) \in {"claim if won", "reclaim", "wait for claim"} => ClaimOutputUnspent
      /\ Assess(p) = "reclaim" => confs["settle"] >= AliceTimeout
  BY DEF Assess
<1>2. Assess(p) = "nothing committed" => ~FundingSigned
  BY <1>1 DEF RefundInv, RefundBeforeFunding
<1>3. ASSUME Assess(p) = "resolved"
      PROVE  Resolved \/ (p = "dealer" /\ PotPlace = "settled")
  <2>1. CASE p = "player"
    <3>1. Confirmed("coop") \/ \E tx \in Claims : Confirmed(tx)
      BY <1>1, <1>3, <2>1 DEF RecordsInv, RecordBacked
    <3>2. Confirmed("coop") => ~Confirmed("settle")
      BY DEF LedgerInv, Rivals, Parent, Tx, Claims
    <3>. QED
      BY <3>1, <3>2 DEF Resolved, PotPlace
  <2>2. CASE p = "dealer"
    <3>1. Confirmed("settle") \/ Confirmed("coop")
      BY <1>1, <1>3, <2>2 DEF RecordsInv
    <3>2. Confirmed("coop") /\ ~Confirmed("settle") => Resolved
      BY DEF Resolved, PotPlace
    <3>. QED
      BY <2>2, <3>1, <3>2, SpentPlaces DEF Resolved
  <2>. QED
    BY <2>1, <2>2 DEF Party
<1>4. Assess(p) = "U1 already spent" => PotPlace \in {"wallets", "refunded", "conceded"}
  BY <1>1, SpentPlaces DEF Known
<1>5. ASSUME Assess(p) = "claimed already"
      PROVE  PotPlace \in {"claimed", "reclaimed"}
  <2>1. CASE Confirmed("settle")
    BY <1>1, <1>5, <2>1, SpentPlaces
  <2>2. CASE ~Confirmed("settle")
    <3>1. "settle" \in Pooled
      BY <1>1, <1>5, <2>2 DEF Known, Pooled
    <3>2. Confirmed("funding")
      BY <3>1 DEF RevealInv, RevealOnlyWhenLocked, OnChain
    <3>3. ~Confirmed("refund") /\ ~Confirmed("coop")
      BY <3>1 DEF LedgerInv, Rivals, Parent, Tx, Claims
    <3>4. \A tx \in Tx : Parent[tx] = "funding" => tx \in {"refund", "settle", "coop"}
      BY DEF Parent, Tx, Claims
    <3>. QED
      BY <1>1, <1>5, <2>2, <3>2, <3>3, <3>4 DEF U1Live, UtxoUnspent
  <2>. QED
    BY <2>1, <2>2
<1>6. ASSUME NEW tx \in Tx, NEW parent \in Tx, Parent[tx] = parent, UtxoUnspent(parent),
             Unlocked(tx)
      PROVE  Doable(p, tx)
  <2>1. ~Confirmed(tx) /\ Known(p, parent) /\ \A r \in Rivals(tx) : ~Confirmed(r)
    BY <1>6 DEF UtxoUnspent, Known, Rivals
  <2>. QED
    BY <1>6, <2>1 DEF Doable, BroadcastOk, Accepts, Known
<1>7. /\ Parent["settle"] = "funding" /\ Parent["recoveredClaim"] = "settle"
      /\ Parent["reclaim"] = "settle"
      /\ {"funding", "settle", "recoveredClaim", "reclaim"} \subseteq Tx
  BY DEF Parent, Tx, Claims
<1>8. Assess(p) = "settle" => Doable(p, "settle")
  BY <1>1, <1>6, <1>7 DEF U1Live, Unlocked
<1>9. Assess(p) = "claim if won" => Doable(p, "recoveredClaim")
  BY <1>1, <1>6, <1>7 DEF ClaimOutputUnspent, Unlocked
<1>10. Assess(p) = "reclaim" => Doable(p, "reclaim")
  BY <1>1, <1>6, <1>7 DEF ClaimOutputUnspent, Unlocked
<1>. QED
  BY <1>1, <1>2, <1>3, <1>4, <1>5, <1>8, <1>9, <1>10, SpentPlaces

\* What an operator may conclude from a verdict of `assess`, whenever he asks:
\* "resolved" leaves the dealer's reclaim open, "U1 already spent" leaves TX1
\* unconfirmed open, and each other verdict places the pot exactly and names
\* an action the node will accept.
THEOREM VerdictFactsHold == Spec => []VerdictFacts
  BY RecordsInit, RecordsStep, VerdictsFollow, PTL DEF Spec

----------------------------------------------------------------------------
(* The outcome invariant.                                                  *)

\* The session part of OutcomeInv after a step that confirms nothing.
OutcomeStep ==
    /\ pc'["player"] \in {"broadcastCoop", "waitCoop"} => ~Won
    /\ pc'["player"] \in {"claim", "waitClaim"} => Won
    /\ pc'["dealer"] = "watchClaim" => Confirmed("settle")
    /\ \A p \in Party :
          /\ report'[p] # "none" => pc'[p] \in Ended
          /\ report'[p] = "PlayerWins" => Won /\ ClaimedOnChain
          /\ report'[p] = "DealerWins" => ~Won \/ Confirmed("reclaim")
    /\ report'["player"] = "DealerWins" => ~Won
    /\ OnChain("reclaim") => pc'["dealer"] \in Ended \union {"waitReclaim"}
    /\ pc["dealer"] \in Ended => pc'["dealer"] \in Ended

\* The dealer's steps tell the outcome truly.
LEMMA DealerOutcome ==
  ASSUME ShapeOK, OutcomeInv, DealerStep
  PROVE  OutcomeStep
<1>. USE DEF OutcomeStep, OutcomeInv, ShapeOK, SessionTypeOK, Goto, Return, Memory, NoChain,
            Ended, Party, RecvLabels, WaitLabels, Outcome
<1>1. CASE DealerFundOpen BY <1>1 DEF DealerFundOpen
<1>2. CASE DealerFundReply BY <1>2 DEF DealerFundReply
<1>3. CASE DealerAliceOpen BY <1>3 DEF DealerAliceOpen
<1>4. CASE DealerAliceReveal BY <1>4 DEF DealerAliceReveal
<1>5. CASE DealerBobAuth BY <1>5 DEF DealerBobAuth
<1>6. CASE DealerFundFinal BY <1>6 DEF DealerFundFinal
<1>7. CASE DealerCoopReveal BY <1>7 DEF DealerCoopReveal
<1>8. CASE DealerSeesCoop BY <1>8 DEF DealerSeesCoop, Known, OnChain, Pooled
<1>9. CASE DealerSeesSettle BY <1>9 DEF DealerSeesSettle
<1>10. CASE DealerCoopDeadline BY <1>10 DEF DealerCoopDeadline
<1>11. CASE DealerSettle BY <1>11 DEF DealerSettle
<1>12. CASE DealerSettled BY <1>12 DEF DealerSettled
<1>13. CASE DealerSeesClaim BY <1>13 DEF DealerSeesClaim, ClaimOutputUnspent, UtxoUnspent, ClaimedOnChain, Claims, Parent, Tx, OnChain
<1>14. CASE DealerClaimDeadline BY <1>14 DEF DealerClaimDeadline
<1>15. CASE DealerTimelock BY <1>15 DEF DealerTimelock
<1>16. CASE DealerReclaim BY <1>16 DEF DealerReclaim
<1>17. CASE DealerReclaimed BY <1>17 DEF DealerReclaimed
<1>. QED
  BY <1>1, <1>2, <1>3, <1>4, <1>5, <1>6, <1>7, <1>8, <1>9, <1>10, <1>11, <1>12, <1>13,
     <1>14, <1>15, <1>16, <1>17 DEF DealerStep

\* The player's steps tell the outcome truly.
LEMMA PlayerOutcome ==
  ASSUME ShapeOK, OutcomeInv, PlayerStep
  PROVE  OutcomeStep
<1>. USE DEF OutcomeStep, OutcomeInv, ShapeOK, SessionTypeOK, Goto, Return, Memory, NoChain,
            Ended, Party, RecvLabels, WaitLabels, Outcome
<1>1. CASE PlayerFundReply BY <1>1 DEF PlayerFundReply
<1>2. CASE PlayerBobCommit BY <1>2 DEF PlayerBobCommit
<1>3. CASE PlayerBobAuth BY <1>3 DEF PlayerBobAuth
<1>4. CASE PlayerFundSign BY <1>4 DEF PlayerFundSign
<1>5. CASE PlayerFundFinal BY <1>5 DEF PlayerFundFinal
<1>6. CASE PlayerCoopWon BY <1>6 DEF PlayerCoopWon
<1>7. CASE PlayerCoopLost BY <1>7 DEF PlayerCoopLost
<1>8. CASE PlayerCoopDeadline BY <1>8 DEF PlayerCoopDeadline
<1>9. CASE PlayerBroadcastCoop BY <1>9 DEF PlayerBroadcastCoop
<1>10. CASE PlayerCoopConfirmed BY <1>10 DEF PlayerCoopConfirmed, OnChain
<1>11. CASE PlayerObserve BY <1>11 DEF PlayerObserve
<1>12. CASE PlayerClaim BY <1>12 DEF PlayerClaim
<1>13. CASE PlayerClaimed BY <1>13 DEF PlayerClaimed, ClaimedOnChain, Claims
<1>. QED
  BY <1>1, <1>2, <1>3, <1>4, <1>5, <1>6, <1>7, <1>8, <1>9, <1>10, <1>11, <1>12, <1>13 DEF PlayerStep

\* The shared steps and crashes tell the outcome truly.
LEMMA SharedOutcome ==
  ASSUME ShapeOK, OutcomeInv, NEW p \in Party, SharedStep(p) \/ Crash(p)
  PROVE  OutcomeStep
<1>. USE DEF OutcomeStep, OutcomeInv, ShapeOK, SessionTypeOK, Goto, Return, Memory, NoChain,
            Ended, Party, RecvLabels, WaitLabels, Outcome
<1>1. CASE PersistFunded(p) BY <1>1 DEF PersistFunded
<1>2. CASE FinalizeSetup(p) BY <1>2 DEF FinalizeSetup
<1>3. CASE PersistRefund(p) BY <1>3 DEF PersistRefund
<1>4. CASE PersistSetup(p) BY <1>4 DEF PersistSetup
<1>5. CASE BroadcastFunding(p) BY <1>5 DEF BroadcastFunding
<1>6. CASE FundingConfirmed(p) BY <1>6 DEF FundingConfirmed
<1>7. CASE Deadline(p) BY <1>7 DEF Deadline, Fail
<1>8. CASE Rejected(p) BY <1>8 DEF Rejected, Fail
<1>9. CASE Crash(p) BY <1>9 DEF Crash, Fail
<1>. QED
  BY <1>1, <1>2, <1>3, <1>4, <1>5, <1>6, <1>7, <1>8, <1>9 DEF SharedStep

\* OutcomeInv is inductive when recovery waits for the session to end.
LEMMA OutcomeInvStep ==
  ASSUME ~RecoverWhileLive
  PROVE  ShapeOK /\ LedgerInv /\ OutcomeInv /\ [Next]_betVars => OutcomeInv'
<1>. SUFFICES ASSUME ShapeOK, LedgerInv, OutcomeInv, [Next]_betVars PROVE OutcomeInv'
  OBVIOUS
<1>0. Won' <=> Won
  BY DEF Next, SessionStep, CrashStep, RecoverStep, NetworkStep, betVars, Won
<1>1. ASSUME NEW p \in Party, SessionStep(p) \/ CrashStep(p) \/ RecoverStep(p)
      PROVE  OutcomeInv'
  <2>1. OutcomeStep
    <3>1. CASE SessionStep(p) \/ CrashStep(p)
      BY <3>1, DealerOutcome, PlayerOutcome, SharedOutcome DEF SessionStep, CrashStep
    <3>2. CASE RecoverStep(p)
      BY <3>2 DEF RecoverStep, sessionVars, OutcomeStep, OutcomeInv
    <3>. QED
      BY <1>1, <3>1, <3>2
  <2>2. /\ confs' = confs
        /\ \A t \in Claims : OnChain(t)' => Won
        /\ OnChain("coop")' => ~Won
        /\ OnChain("reclaim")' =>
              OnChain("reclaim") \/ pc["dealer"] \in Ended \/ pc'["dealer"] = "waitReclaim"
    <3>1. CASE UNCHANGED chainVars
      BY <3>1 DEF chainVars, OnChain, Confirmed, Pooled, OutcomeInv
    <3>2. ASSUME NEW tx \in Tx, TryBroadcast(p, tx), Reason(p, tx)
          PROVE  <2>2!1 /\ <2>2!2 /\ <2>2!3 /\ <2>2!4
      <4>1. confs' = confs /\ \A t \in Tx : OnChain(t)' => OnChain(t) \/ t = tx
        BY <3>2, BroadcastAdds DEF ShapeOK
      <4>2. tx \in Claims => Won
        BY <3>2 DEF Reason, Claims, OutcomeInv
      <4>3. tx = "coop" => ~Won
        BY <3>2 DEF Reason, OutcomeInv
      <4>4. tx = "reclaim" => pc["dealer"] \in Ended \/ pc'["dealer"] = "waitReclaim"
        BY <3>2 DEF Reason
      <4>. QED
        BY <4>1, <4>2, <4>3, <4>4 DEF Claims, Tx, OutcomeInv
    <3>. QED
      BY <1>1, <3>1, <3>2, OnlyBroadcasts
  <2>. QED
    BY <1>0, <2>1, <2>2 DEF OutcomeStep, OutcomeInv, ClaimedOnChain, Confirmed
<1>2. ASSUME UNCHANGED sessionVars,
             \A tx \in Tx : /\ OnChain(tx)' => OnChain(tx)
                            /\ Confirmed(tx) => Confirmed(tx)'
      PROVE  OutcomeInv'
  BY <1>0, <1>2 DEF sessionVars, OutcomeInv, ClaimedOnChain, Tx, Claims
<1>3. CASE NetworkStep
  BY <1>2, <1>3, NetworkAdds DEF NetworkStep, ShapeOK
<1>4. CASE UNCHANGED betVars
  BY <1>2, <1>4 DEF betVars, chainVars, OnChain, Confirmed, Pooled
<1>. QED
  BY <1>1, <1>3, <1>4 DEF Next

\* It holds initially.
LEMMA OutcomeInit == Init => OutcomeInv
  BY DEF Init, BetInit, ChainInit, OutcomeInv, OnChain, Confirmed, Pooled, Party, Tx, Claims

\* The whole inductive invariant.
IInv == RecordsIInv /\ OutcomeInv

\* IInv is an invariant.
LEMMA IInvStep ==
  ASSUME ~RecoverWhileLive
  PROVE  IInv /\ [Next]_betVars => IInv'
  BY RecordsStep, OutcomeInvStep DEF IInv, RecordsIInv

\* A party is told DealerWins of a bet the player won only after the reclaim
\* confirmed, and PlayerWins only after a claim did: two spends of one output.
LEMMA InvAgrees == IInv => OutcomeAgreement
  BY DEF IInv, RecordsIInv, LedgerInv, OutcomeInv, OutcomeAgreement, ClaimedOnChain, Claims,
         Rivals, Parent, Tx, Party, ShapeOK, SessionTypeOK, Outcome

\* Two sessions that both returned an outcome returned the same one, through
\* every crash, missed deadline, eviction and cooperative or enforced path,
\* as long as nobody runs recovery beside a session of his that still plays.
THEOREM OutcomesAgree == ~RecoverWhileLive => (Spec => []OutcomeAgreement)
<1>. SUFFICES ASSUME ~RecoverWhileLive PROVE Spec => []OutcomeAgreement
  OBVIOUS
<1>1. Init => IInv
  BY RecordsInit, OutcomeInit DEF IInv
<1>2. IInv /\ [Next]_betVars => IInv'
  BY IInvStep
<1>. QED
  BY <1>1, <1>2, InvAgrees, PTL DEF Spec

----------------------------------------------------------------------------
(* Refinement of the abstract bet.                                         *)

Justified(outcome) ==
    \/ outcome = "PlayerWins" /\ ClaimedOnChain
    \/ outcome = "DealerWins" /\ (~Won \/ (Confirmed("reclaim") /\ ~ClaimedOnChain))

\* What a session step of p does to the reports.
Tells(p) ==
    \/ report' = report
    \/ /\ report[p] = "none"
       /\ \E outcome \in Outcome :
             Justified(outcome) /\ report' = [report EXCEPT ![p] = outcome]

\* The dealer's steps tell an outcome at most once, and a justified one.
LEMMA DealerTells ==
  ASSUME IInv, NEW p \in Party, p = "dealer", DealerStep
  PROVE  Tells(p)
<1>. USE DEF Tells, IInv, RecordsIInv, OutcomeInv, ShapeOK, SessionTypeOK, Goto, Return,
            Memory, NoChain, Ended, Party, Outcome, Justified
<1>1. CASE DealerFundOpen BY <1>1 DEF DealerFundOpen
<1>2. CASE DealerFundReply BY <1>2 DEF DealerFundReply
<1>3. CASE DealerAliceOpen BY <1>3 DEF DealerAliceOpen
<1>4. CASE DealerAliceReveal BY <1>4 DEF DealerAliceReveal
<1>5. CASE DealerBobAuth BY <1>5 DEF DealerBobAuth
<1>6. CASE DealerFundFinal BY <1>6 DEF DealerFundFinal
<1>7. CASE DealerCoopReveal BY <1>7 DEF DealerCoopReveal
<1>8. CASE DealerSeesCoop BY <1>8 DEF DealerSeesCoop, Known, OnChain, Pooled
<1>9. CASE DealerSeesSettle BY <1>9 DEF DealerSeesSettle
<1>10. CASE DealerCoopDeadline BY <1>10 DEF DealerCoopDeadline
<1>11. CASE DealerSettle BY <1>11 DEF DealerSettle
<1>12. CASE DealerSettled BY <1>12 DEF DealerSettled
<1>13. CASE DealerSeesClaim BY <1>13 DEF DealerSeesClaim, ClaimOutputUnspent, UtxoUnspent, ClaimedOnChain, Claims, Parent, Tx, OnChain
<1>14. CASE DealerClaimDeadline BY <1>14 DEF DealerClaimDeadline
<1>15. CASE DealerTimelock BY <1>15 DEF DealerTimelock
<1>16. CASE DealerReclaim BY <1>16 DEF DealerReclaim
<1>17. CASE DealerReclaimed BY <1>17 DEF DealerReclaimed, LedgerInv, ClaimedOnChain, Claims, Rivals, Parent, Tx
<1>. QED
  BY <1>1, <1>2, <1>3, <1>4, <1>5, <1>6, <1>7, <1>8, <1>9, <1>10, <1>11, <1>12, <1>13,
     <1>14, <1>15, <1>16, <1>17 DEF DealerStep

\* The player's steps tell an outcome at most once, and a justified one.
LEMMA PlayerTells ==
  ASSUME IInv, NEW p \in Party, p = "player", PlayerStep
  PROVE  Tells(p)
<1>. USE DEF Tells, IInv, RecordsIInv, OutcomeInv, ShapeOK, SessionTypeOK, Goto, Return,
            Memory, NoChain, Ended, Party, Outcome, Justified
<1>1. CASE PlayerFundReply BY <1>1 DEF PlayerFundReply
<1>2. CASE PlayerBobCommit BY <1>2 DEF PlayerBobCommit
<1>3. CASE PlayerBobAuth BY <1>3 DEF PlayerBobAuth
<1>4. CASE PlayerFundSign BY <1>4 DEF PlayerFundSign
<1>5. CASE PlayerFundFinal BY <1>5 DEF PlayerFundFinal
<1>6. CASE PlayerCoopWon BY <1>6 DEF PlayerCoopWon
<1>7. CASE PlayerCoopLost BY <1>7 DEF PlayerCoopLost
<1>8. CASE PlayerCoopDeadline BY <1>8 DEF PlayerCoopDeadline
<1>9. CASE PlayerBroadcastCoop BY <1>9 DEF PlayerBroadcastCoop
<1>10. CASE PlayerCoopConfirmed BY <1>10 DEF PlayerCoopConfirmed, OnChain
<1>11. CASE PlayerObserve BY <1>11 DEF PlayerObserve
<1>12. CASE PlayerClaim BY <1>12 DEF PlayerClaim
<1>13. CASE PlayerClaimed BY <1>13 DEF PlayerClaimed, ClaimedOnChain, Claims
<1>. QED
  BY <1>1, <1>2, <1>3, <1>4, <1>5, <1>6, <1>7, <1>8, <1>9, <1>10, <1>11, <1>12, <1>13 DEF PlayerStep

\* The shared steps and crashes tell an outcome at most once, and a justified one.
LEMMA SharedTells ==
  ASSUME IInv, NEW p \in Party, SharedStep(p) \/ Crash(p)
  PROVE  Tells(p)
<1>. USE DEF Tells, IInv, RecordsIInv, OutcomeInv, ShapeOK, SessionTypeOK, Goto, Return,
            Memory, NoChain, Ended, Party, Outcome, Justified
<1>1. CASE PersistFunded(p) BY <1>1 DEF PersistFunded
<1>2. CASE FinalizeSetup(p) BY <1>2 DEF FinalizeSetup
<1>3. CASE PersistRefund(p) BY <1>3 DEF PersistRefund
<1>4. CASE PersistSetup(p) BY <1>4 DEF PersistSetup
<1>5. CASE BroadcastFunding(p) BY <1>5 DEF BroadcastFunding
<1>6. CASE FundingConfirmed(p) BY <1>6 DEF FundingConfirmed
<1>7. CASE Deadline(p) BY <1>7 DEF Deadline, Fail
<1>8. CASE Rejected(p) BY <1>8 DEF Rejected, Fail
<1>9. CASE Crash(p) BY <1>9 DEF Crash, Fail
<1>. QED
  BY <1>1, <1>2, <1>3, <1>4, <1>5, <1>6, <1>7, <1>8, <1>9 DEF SharedStep

\* Where the pot is, as far as the abstract bet tells places apart.
PlacesOK ==
    /\ PotPlace = "claimed" <=> ClaimedOnChain
    /\ PotPlace = "reclaimed" <=> Confirmed("reclaim")
    /\ PotPlace = "settled" <=>
          Confirmed("settle") /\ ~ClaimedOnChain /\ ~Confirmed("reclaim")
    /\ PotPlace = "conceded" <=> Confirmed("coop")
    /\ PotPlace = "refunded" <=> Confirmed("refund")
    /\ PotPlace = "locked" <=>
          Confirmed("funding") /\ \A tx \in {"settle", "coop", "refund"} : ~Confirmed(tx)
    /\ PotPlace = "wallets" <=> ~Confirmed("funding")
    /\ PotPlace \in {"claimed", "reclaimed", "settled", "conceded", "refunded",
                     "locked", "wallets"}

\* On a ledger without double spends the places exclude each other.
LEMMA Places == ShapeOK /\ LedgerInv => PlacesOK
<1>. SUFFICES ASSUME ShapeOK, LedgerInv PROVE PlacesOK
  OBVIOUS
<1>1. /\ ClaimedOnChain => Confirmed("settle")
      /\ Confirmed("reclaim") => Confirmed("settle")
      /\ \A tx \in {"settle", "coop", "refund"} : Confirmed(tx) => Confirmed("funding")
  BY DEF LedgerInv, ClaimedOnChain, Claims, Parent, Tx
<1>2. /\ ~(ClaimedOnChain /\ Confirmed("reclaim"))
      /\ ~(Confirmed("settle") /\ Confirmed("coop"))
      /\ ~(Confirmed("settle") /\ Confirmed("refund"))
      /\ ~(Confirmed("coop") /\ Confirmed("refund"))
  BY DEF LedgerInv, ClaimedOnChain, Claims, Rivals, Parent, Tx
<1>. QED
  BY <1>1, <1>2 DEF PlacesOK, PotPlace, ClaimedOnChain

\* What a block adds to Beyond: up to three moves.
LEMMA ThreeMoves ==
  ASSUME NEW x, NEW y, NEW z, NEW w,
         y = x \/ y \in Fair!Moves(x), z = y \/ z \in Fair!Moves(y),
         w = z \/ w \in Fair!Moves(z)
  PROVE  w \in Fair!Beyond(Fair!Beyond(Fair!Beyond({x})))
<1>1. y \in Fair!Beyond({x})
  BY DEF Fair!Beyond
<1>2. z \in Fair!Beyond(Fair!Beyond({x}))
  BY <1>1 DEF Fair!Beyond
<1>. QED
  BY <1>2 DEF Fair!Beyond

\* What a block does to the confirmations.
LEMMA BlockConfirms ==
  ASSUME ChainTypeOK, NEW block \in SUBSET Pooled, Mine(block)
  PROVE  /\ block \subseteq Tx
         /\ \A t \in Tx : Confirmed(t)' <=> Confirmed(t) \/ t \in block
         /\ height' >= height
         /\ confs["settle"] >= AliceTimeout => confs'["settle"] >= AliceTimeout \/ "settle" \in block
<1>. USE ChainAssumption
<1>1. block \subseteq Tx
  BY DEF Pooled, ChainTypeOK
<1>2. \A t \in Tx : Confirmed(t)' <=> Confirmed(t) \/ t \in block
  BY <1>1 DEF Mine, Confirmed, ChainTypeOK, Cap
<1>3. height' >= height
  BY DEF Mine, ChainTypeOK
<1>4. confs["settle"] >= AliceTimeout => confs'["settle"] >= AliceTimeout \/ "settle" \in block
  BY DEF Mine, ChainTypeOK, Tx, Confirmed, Cap
<1>. QED
  BY <1>1, <1>2, <1>3, <1>4

\* A block moves the pot as FairBet lets it.
LEMMA BlockRefines ==
  ASSUME IInv, IInv', UNCHANGED Won, NEW block \in SUBSET Pooled, Mine(block)
  PROVE  PotPlace' \in Fair!Beyond(Fair!Beyond(Fair!Beyond({PotPlace})))
<1>1. /\ ShapeOK /\ LedgerInv /\ OutcomeInv
      /\ ShapeOK' /\ LedgerInv' /\ OutcomeInv'
  BY DEF IInv, RecordsIInv
<1>2. \A t \in Tx : Confirmed(t)' <=> Confirmed(t) \/ t \in block
  BY <1>1, BlockConfirms DEF ShapeOK
<1>3. PlacesOK /\ PlacesOK'
  BY <1>1, Places, PTL
<1>4. /\ ClaimedOnChain' => Won
      /\ Confirmed("coop")' => ~Won
      /\ ClaimedOnChain => ClaimedOnChain'
      /\ ClaimedOnChain' => Confirmed("settle")'
      /\ \A tx \in {"settle", "coop", "refund"} : Confirmed(tx)' => Confirmed("funding")'
      /\ ~(ClaimedOnChain' /\ Confirmed("reclaim")')
      /\ ~(Confirmed("settle")' /\ Confirmed("coop")')
      /\ ~(Confirmed("settle")' /\ Confirmed("refund")')
      /\ ~(Confirmed("coop")' /\ Confirmed("refund")')
  BY <1>1, <1>2, ZenonT(60) DEF LedgerInv, OutcomeInv, OnChain, ClaimedOnChain, Claims, Parent, Rivals, Tx
<1>5. /\ Confirmed("reclaim")' => Confirmed("reclaim") \/ confs["settle"] >= AliceTimeout
      /\ Confirmed("refund")' => Confirmed("refund") \/ height >= RefundLocktime
  BY <1>1, <1>2 DEF LedgerInv, Tx
<1>6. Confirmed("reclaim")' => Confirmed("settle") /\ ~ClaimedOnChain
  BY <1>1, <1>4, <1>5, ChainAssumption
  DEF LedgerInv, Confirmed, Parent, Tx, ShapeOK, ChainTypeOK
<1>7. \/ PotPlace' = PotPlace
      \/ PotPlace = "wallets" /\ PotPlace' \in {"locked", "settled"}
      \/ PotPlace = "locked" /\ PotPlace' = "settled"
      \/ PotPlace \in {"wallets", "locked"} /\ PotPlace' = "conceded" /\ ~Won
      \/ PotPlace \in {"wallets", "locked"} /\ PotPlace' = "refunded" /\ height >= RefundLocktime
      \/ PotPlace \in {"wallets", "locked", "settled"} /\ PotPlace' = "claimed" /\ Won
      \/ PotPlace = "settled" /\ PotPlace' = "reclaimed" /\ confs["settle"] >= AliceTimeout
  <2>1. \A tx \in {"funding", "settle", "coop", "refund", "reclaim"} : Confirmed(tx) => Confirmed(tx)'
    BY <1>2 DEF Tx
  <2>. QED
    BY <1>3, <1>4, <1>5, <1>6, <2>1 DEF PlacesOK
<1>8. /\ "locked" \in Fair!Moves("wallets")
      /\ "settled" \in Fair!Moves("locked")
      /\ ~Won => "conceded" \in Fair!Moves("locked")
      /\ height >= RefundLocktime => "refunded" \in Fair!Moves("locked")
      /\ Won => "claimed" \in Fair!Moves("settled")
      /\ confs["settle"] >= AliceTimeout => "reclaimed" \in Fair!Moves("settled")
  BY DEF Fair!Moves
<1>. QED
  BY <1>7, <1>8, ThreeMoves

\* Every step of the detailed bet is a step of the abstract one or a stutter.
LEMMA StepRefines ==
  ASSUME IInv, IInv', [Next]_betVars
  PROVE  [Fair!Next]_(Fair!vars)
<1>1. ASSUME confs' = confs, height' = height, UNCHANGED Won
      PROVE  /\ PotPlace' = PotPlace
             /\ (height >= RefundLocktime)' = (height >= RefundLocktime)
             /\ (confs["settle"] >= AliceTimeout)' = (confs["settle"] >= AliceTimeout)
  BY <1>1 DEF PotPlace, Confirmed
<1>2. UNCHANGED Won
  BY DEF Next, SessionStep, CrashStep, RecoverStep, NetworkStep, betVars, Won
<1>3. ASSUME NEW p \in Party, SessionStep(p) \/ CrashStep(p)
      PROVE  [Fair!Next]_(Fair!vars)
  <2>1. confs' = confs /\ height' = height
    BY <1>3, OnlyBroadcasts, BroadcastAdds DEF chainVars, IInv, RecordsIInv, ShapeOK
  <2>2. Tells(p)
    BY <1>3, DealerTells, PlayerTells, SharedTells DEF SessionStep, CrashStep
  <2>3. CASE report' = report
    BY <1>1, <1>2, <2>1, <2>3 DEF Fair!vars
  <2>4. ASSUME NEW outcome \in Outcome, report[p] = "none", Justified(outcome),
               report' = [report EXCEPT ![p] = outcome]
        PROVE  Fair!Next
    <3>1. Fair!Justified(outcome)
      <4>1. PlacesOK
        BY Places DEF IInv, RecordsIInv
      <4>. QED
        BY <2>4, <4>1 DEF Justified, Fair!Justified, PlacesOK
    <3>2. Fair!Tell(p)
      BY <1>1, <1>2, <2>1, <2>4, <3>1 DEF Fair!Tell, Outcome
    <3>. QED
      BY <3>2 DEF Fair!Next
  <2>. QED
    BY <2>2, <2>3, <2>4 DEF Tells
<1>4. ASSUME NEW p \in Party, RecoverStep(p)
      PROVE  UNCHANGED Fair!vars
  <2>1. confs' = confs /\ height' = height
    BY <1>4, OnlyBroadcasts, BroadcastAdds DEF chainVars, IInv, RecordsIInv, ShapeOK
  <2>. QED
    BY <1>1, <1>2, <1>4, <2>1 DEF RecoverStep, sessionVars, Fair!vars
<1>5. ASSUME NEW block \in SUBSET Pooled, Mine(block), report' = report
      PROVE  Fair!Next
  <2>1. /\ ShapeOK /\ LedgerInv /\ ShapeOK' /\ LedgerInv'
        /\ ChainTypeOK /\ ChainTypeOK'
    BY DEF IInv, RecordsIInv, ShapeOK
  <2>2. PotPlace' \in Fair!Beyond(Fair!Beyond(Fair!Beyond({PotPlace})))
    BY <1>2, <1>5, BlockRefines
  <2>3. (height >= RefundLocktime) => (height >= RefundLocktime)'
    BY <1>5, <2>1, ChainAssumption, BlockConfirms DEF ChainTypeOK
  <2>4. (confs["settle"] >= AliceTimeout) => (confs["settle"] >= AliceTimeout)'
    <3>1. "settle" \in block => confs["settle"] = 0
      BY <1>5, <2>1 DEF LedgerInv, Confirmed, ChainTypeOK, Pooled
    <3>. QED
      BY <1>5, <2>1, <3>1, ChainAssumption, BlockConfirms DEF ChainTypeOK
  <2>. (height >= RefundLocktime)' \in BOOLEAN /\ (confs["settle"] >= AliceTimeout)' \in BOOLEAN
    OBVIOUS
  <2>5. (confs["settle"] >= AliceTimeout)' => PotPlace' \in {"settled", "claimed", "reclaimed"}
    <3>1. (confs["settle"] >= AliceTimeout)' => Confirmed("settle")'
      BY <2>1, ChainAssumption DEF Confirmed, ChainTypeOK, Tx
    <3>2. PlacesOK'
      BY <2>1, Places, PTL
    <3>. QED
      BY <3>1, <3>2 DEF PlacesOK
  <2>. QED
    BY <1>2, <1>5, <2>2, <2>3, <2>4, <2>5 DEF Fair!Next, Fair!Block
<1>6. CASE NetworkStep
  <2>1. report' = report /\ ChainNext
    BY <1>6 DEF NetworkStep, sessionVars
  <2>2. ASSUME NEW p \in Party, NEW tx \in Tx, Relay(p, tx) \/ Evict(p, tx)
        PROVE  UNCHANGED Fair!vars
    BY <1>1, <1>2, <2>1, <2>2 DEF Relay, Broadcast, Evict, Fair!vars
  <2>. QED
    BY <1>5, <2>1, <2>2 DEF ChainNext
<1>7. CASE UNCHANGED betVars
  BY <1>1, <1>2, <1>7 DEF betVars, chainVars, sessionVars, Fair!vars
<1>. QED
  BY <1>3, <1>4, <1>6, <1>7 DEF Next

\* The detailed bet starts where the abstract one may start.
LEMMA InitRefines == Init => Fair!Init
<1>. SUFFICES ASSUME Init PROVE Fair!Init
  OBVIOUS
<1>1. \A tx \in Tx : ~Confirmed(tx)
  BY DEF Init, BetInit, ChainInit, Confirmed
<1>2. PotPlace = "wallets"
  BY <1>1 DEF PotPlace, Claims, Tx
<1>3. (confs["settle"] >= AliceTimeout) = FALSE
  BY ChainAssumption DEF Init, BetInit, ChainInit, Tx
<1>4. Won \in BOOLEAN /\ (height >= RefundLocktime) \in BOOLEAN
  BY ChainAssumption DEF Won, Init, BetInit, ChainInit
<1>. QED
  BY <1>2, <1>3, <1>4 DEF Fair!Init, Init, BetInit

\* Two sessions, their crashes, recoveries, memory pools and blocks together
\* do nothing the abstract bet does not: the pot is conceded only by a player
\* who lost, claimed only by one who won, refunded and reclaimed only after
\* their timelocks, and nobody is told an outcome that can still change.
THEOREM BetRefinesFairBet == ~RecoverWhileLive => (Spec => ImplementsFairBet)
<1>. SUFFICES ASSUME ~RecoverWhileLive PROVE Spec => Fair!Spec
  BY DEF ImplementsFairBet
<1>1. Init => IInv
  BY RecordsInit, OutcomeInit DEF IInv
<1>2. IInv /\ [Next]_betVars => IInv'
  BY IInvStep
<1>3. IInv /\ IInv' /\ [Next]_betVars => [Fair!Next]_(Fair!vars)
  BY StepRefines
<1>. QED
  BY <1>1, <1>2, <1>3, InitRefines, PTL DEF Spec, Fair!Spec
============================================================================
