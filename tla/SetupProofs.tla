---------------------------- MODULE SetupProofs ----------------------------
(***************************************************************************)
(* Proofs about the setup's signing sessions and the reveal, for every     *)
(* group of scalars, every mask and every pair of terms.                   *)
(***************************************************************************)
EXTENDS Setup, TLAPS

----------------------------------------------------------------------------
(* The scalars.                                                            *)

\* Scalars form a group, as far as the proofs use it.
LEMMA ScalarFacts ==
  /\ Zero \in Scalar
  /\ \A x \in Scalar : Pad(x) \in Scalar
  /\ \A x, y \in Scalar : Add(x, y) \in Scalar
BY GroupAssumption

\* `recover_a_c` undoes the dealer's encryption, whatever the mask is.
LEMMA DecryptEncrypted ==
  ASSUME NEW a \in Scalar, NEW s \in Scalar
  PROVE  Decrypt(Add(a, Pad(s)), s) = a
<1>1. Pad(s) \in Scalar /\ Neg(Pad(s)) \in Scalar
  BY GroupAssumption
<1>2. Add(Add(a, Pad(s)), Neg(Pad(s))) = Add(a, Add(Pad(s), Neg(Pad(s))))
  BY <1>1, GroupAssumption
<1>3. Add(Pad(s), Neg(Pad(s))) = Zero
  BY <1>1, GroupAssumption
<1> QED BY <1>2, <1>3, GroupAssumption DEF Decrypt

----------------------------------------------------------------------------
(* Types.                                                                  *)

\* What a well-typed frame carries.
LEMMA FrameFields ==
  ASSUME NEW f \in Frame
  PROVE  /\ f.kind = "AliceOpen" => f.thimbles \in [Ball -> NonZero]
         /\ f.kind = "BobCommit" => f.key \in NonZero
         /\ f.kind = "AliceReveal" => /\ f.ctxt \in NonZero /\ f.adaptor \in NonZero
                                      /\ f.partials \in PartialsOK
         /\ f.kind = "BobAuth" => f.partials \in PartialsOK
         /\ f.kind = "CoopReveal" => f.sig \in Sig /\ f.msg \in Msg
BY DEF Frame

\* What a party signs is a message.
LEMMA PartialsTyped ==
  ASSUME terms \in [Party -> Terms], NEW p \in Party, NEW k \in NonZero
  PROVE  Partials(p, k) \in PartialsOK
BY DEF Partials, PartialsOK, RefundMsg, SettleMsg, Msg, Terms

\* A nonce is used for a message.
LEMMA SignsTyped ==
  ASSUME nonceUse \in [Party -> [Session -> SUBSET Msg]], NEW p \in Party, NEW use,
         \A s \in Session : s \in DOMAIN use => use[s] \in Msg, Signs(p, use)
  PROVE  nonceUse' \in [Party -> [Session -> SUBSET Msg]]
BY DEF Signs

\* A dealer who holds a complete setup completes a well-typed settlement.
LEMMA AdaptedTyped ==
  ASSUME SetupTypeOK, Completed("dealer")
  PROVE  Adapted \in Sig
<1>1. held["dealer"] \in DealerHeld
  BY DEF SetupTypeOK, Completed, Nothing
<1>2. SettleMsg(terms["dealer"], held["dealer"].key) \in Msg
  BY <1>1 DEF SetupTypeOK, DealerHeld, SettleMsg, Msg, Terms, Party
<1> QED BY <1>2 DEF SetupTypeOK, Adapted, Sig

\* What the player decrypts is a scalar.
LEMMA LearnTyped ==
  ASSUME SetupTypeOK, Completed("player"), NEW sig \in Sig
  PROVE  Decrypt(held["player"].ctxt, sig.secret) \in Scalar
<1>1. held["player"] \in PlayerHeld
  BY DEF SetupTypeOK, Completed, Nothing
<1>2. held["player"].ctxt \in Scalar /\ sig.secret \in Scalar
  BY <1>1 DEF Completed, PlayerHeld, Sig, NonZero
<1> QED BY <1>2, GroupAssumption DEF Decrypt

\* What a party holds at each label of the setup.
LabelInv ==
    /\ at["dealer"] = "auth" => held["dealer"].step = "committed"
    /\ at["dealer"] \in {"ready", "revealed"} => Completed("dealer")
    /\ at["player"] = "reveal" => held["player"].step = "committed"
    /\ at["player"] = "verify" => held["player"].step = "signed"
    /\ at["player"] \in {"ready", "done"} => Completed("player")

\* Each step leaves a party with what its label says.
LEMMA LabelStep ==
  ASSUME SetupTypeOK, LabelInv, [Next]_vars
  PROVE  LabelInv'
<1> USE DEF SetupTypeOK, LabelInv, AfterSetup, secretVars, Goto, Complete, Completed, Party
<1>1. CASE DealerOpen BY <1>1 DEF DealerOpen
<1>2. CASE PlayerCommit BY <1>2 DEF PlayerCommit, Commit
<1>3. CASE DealerReveal BY <1>3 DEF DealerReveal
<1>4. CASE PlayerAuth BY <1>4 DEF PlayerAuth
<1>5. CASE PlayerVerify
  <2>1. held'["player"].step = "complete" /\ held'["dealer"] = held["dealer"]
    BY <1>5 DEF PlayerVerify, PlayerHeld
  <2> QED BY <1>5, <2>1 DEF PlayerVerify
<1>6. CASE DealerVerify
  <2>1. held'["dealer"].step = "complete" /\ held'["player"] = held["player"]
    BY <1>6 DEF DealerVerify, DealerHeld
  <2> QED BY <1>6, <2>1 DEF DealerVerify
<1>7. ASSUME NEW p \in Party, Fail(p) PROVE LabelInv'
  BY <1>7 DEF Fail
<1>8. CASE DealerCoop BY <1>8 DEF DealerCoop, Overlay
<1>9. CASE DealerSettle BY <1>9 DEF DealerSettle
<1>10. CASE PlayerAnswer BY <1>10 DEF PlayerAnswer
<1>11. CASE PlayerObserve BY <1>11 DEF PlayerObserve
<1>12. CASE UNCHANGED vars BY <1>12 DEF vars
<1> QED
  BY <1>1, <1>2, <1>3, <1>4, <1>5, <1>6, <1>7, <1>8, <1>9, <1>10, <1>11, <1>12 DEF Next

\* The types after each step.
LEMMA TypeStep ==
  ASSUME SetupTypeOK, LabelInv, [Next]_vars
  PROVE  SetupTypeOK'
<1> USE DEF SetupTypeOK, AfterSetup, secretVars
<1>1. CASE DealerOpen
  BY <1>1 DEF DealerOpen, Goto, Send, Party, Label, Frame
<1>2. CASE PlayerCommit
  <2>1. PICK f \in sent : /\ f.kind = "AliceOpen" /\ KeyFor(f.thimbles) # Zero
                          /\ Commit(KeyFor(f.thimbles))
    BY <1>2 DEF PlayerCommit
  <2>2. KeyFor(f.thimbles) \in NonZero
    BY <2>1, FrameFields, ScalarFacts DEF KeyFor, NonZero
  <2>3. [kind |-> "BobCommit", key |-> KeyFor(f.thimbles)] \in Frame
    BY <2>2 DEF Frame
  <2>4. [step |-> "committed", key |-> KeyFor(f.thimbles)] \in PlayerHeld
    BY <2>2 DEF PlayerHeld
  <2> QED
    BY <2>1, <2>3, <2>4 DEF Commit, Goto, Send, Party, Label
<1>3. CASE DealerReveal
  <2>1. PICK f \in sent :
           /\ f.kind = "BobCommit"
           /\ Signs("dealer", Partials("dealer", f.key))
           /\ held' = [held EXCEPT !["dealer"] = [step |-> "committed", key |-> f.key]]
           /\ Send([kind |-> "AliceReveal", ctxt |-> Ciphertext, adaptor |-> d,
                    partials |-> Partials("dealer", f.key)])
    BY <1>3 DEF DealerReveal
  <2>2. f.key \in NonZero
    BY <2>1, FrameFields
  <2>3. Partials("dealer", f.key) \in PartialsOK
    BY <2>2, PartialsTyped DEF Party
  <2>4. Ciphertext \in NonZero
    BY <1>3, ScalarFacts DEF DealerReveal, Ciphertext, NonZero
  <2>5. [kind |-> "AliceReveal", ctxt |-> Ciphertext, adaptor |-> d,
         partials |-> Partials("dealer", f.key)] \in Frame
    BY <2>3, <2>4 DEF Frame
  <2>6. [step |-> "committed", key |-> f.key] \in DealerHeld
    BY <2>2 DEF DealerHeld
  <2>7. nonceUse' \in [Party -> [Session -> SUBSET Msg]]
    BY <2>1, <2>3, SignsTyped DEF Party, Partials, PartialsOK
  <2> QED
    BY <1>3, <2>1, <2>5, <2>6, <2>7 DEF DealerReveal, Goto, Send, Party, Label
<1>4. CASE PlayerAuth
  <2>1. PICK f \in sent :
           /\ f.kind = "AliceReveal"
           /\ held' = [held EXCEPT !["player"] =
                  [step |-> "signed", key |-> held["player"].key, ctxt |-> f.ctxt,
                   adaptor |-> f.adaptor, partials |-> f.partials]]
    BY <1>4 DEF PlayerAuth
  <2>2. held["player"].key \in NonZero
    BY <1>4 DEF PlayerAuth, Goto, LabelInv, PlayerHeld, Nothing
  <2>3. /\ f.ctxt \in NonZero /\ f.adaptor \in NonZero /\ f.partials \in PartialsOK
    BY <2>1, FrameFields
  <2>4. [step |-> "signed", key |-> held["player"].key, ctxt |-> f.ctxt,
         adaptor |-> f.adaptor, partials |-> f.partials] \in PlayerHeld
    BY <2>2, <2>3 DEF PlayerHeld
  <2>5. Partials("player", held["player"].key) \in PartialsOK
    BY <2>2, PartialsTyped DEF Party
  <2>6. [kind |-> "BobAuth", partials |-> Partials("player", held["player"].key)] \in Frame
    BY <2>5 DEF Frame
  <2>7. nonceUse' \in [Party -> [Session -> SUBSET Msg]]
    BY <1>4, <2>5, SignsTyped DEF PlayerAuth, Party, Partials, PartialsOK
  <2> QED
    BY <1>4, <2>1, <2>4, <2>6, <2>7 DEF PlayerAuth, Goto, Send, Party, Label
<1>5. CASE PlayerVerify
  <2>1. held["player"] \in PlayerHeld /\ held["player"].step = "signed"
    BY <1>5 DEF PlayerVerify, Goto, LabelInv, Nothing
  <2>2. [held["player"] EXCEPT !.step = "complete"] \in PlayerHeld
    BY <2>1 DEF PlayerHeld
  <2> QED
    BY <1>5, <2>2 DEF PlayerVerify, Complete, Goto, Party, Label
<1>6. CASE DealerVerify
  <2>1. held["dealer"] \in DealerHeld
    BY <1>6 DEF DealerVerify, Goto, LabelInv, Nothing
  <2>2. [held["dealer"] EXCEPT !.step = "complete"] \in DealerHeld
    BY <2>1 DEF DealerHeld
  <2> QED
    BY <1>6, <2>2 DEF DealerVerify, Complete, Goto, Party, Label
<1>7. ASSUME NEW p \in Party, Fail(p) PROVE SetupTypeOK'
  BY <1>7 DEF Fail, Label
<1>8. CASE DealerCoop
  <2>1. PICK address \in Addresses : Overlay(address)
    BY <1>8 DEF DealerCoop
  <2>2. CoopMsg(address) \in Msg /\ Adapted \in Sig
    BY <1>8, AdaptedTyped DEF DealerCoop, Goto, LabelInv, CoopMsg, Msg
  <2>3. [kind |-> "CoopReveal", sig |-> Adapted, msg |-> CoopMsg(address)] \in Frame
    BY <2>2 DEF Frame
  <2>4. nonceUse' \in [Party -> [Session -> SUBSET Msg]]
    BY <2>1, <2>2, SignsTyped DEF Overlay, Party
  <2> QED
    BY <1>8, <2>1, <2>3, <2>4 DEF DealerCoop, Overlay, Goto, Send, Party, Label
<1>9. CASE DealerSettle
  BY <1>9, AdaptedTyped DEF DealerSettle
<1>10. CASE PlayerAnswer
  <2>1. PICK f \in sent :
           /\ f.kind = "CoopReveal" /\ Extracts(f.sig) /\ Learn(f.sig)
           /\ IF Winning(f.sig)
              THEN settled' = settled \union {f.sig} /\ UNCHANGED nonceUse
              ELSE Signs("player", [coop |-> f.msg]) /\ UNCHANGED settled
    BY <1>10 DEF PlayerAnswer
  <2>2. f.sig \in Sig /\ f.msg \in Msg
    BY <2>1, FrameFields
  <2>3. nonceUse' \in [Party -> [Session -> SUBSET Msg]]
    BY <2>1, <2>2, SignsTyped DEF Party
  <2>4. learned' \subseteq Scalar
    BY <1>10, <2>1, <2>2, LearnTyped DEF PlayerAnswer, Goto, LabelInv, Learn
  <2> QED
    BY <1>10, <2>1, <2>2, <2>3, <2>4 DEF PlayerAnswer, Goto, Party, Label
<1>11. CASE PlayerObserve
  <2>1. PICK sig \in settled : Extracts(sig) /\ Learn(sig)
    BY <1>11 DEF PlayerObserve
  <2>2. learned' \subseteq Scalar
    BY <1>11, <2>1, LearnTyped DEF PlayerObserve, Learn
  <2> QED BY <1>11, <2>2 DEF PlayerObserve
<1>12. CASE UNCHANGED vars
  BY <1>12 DEF vars
<1> QED
  BY <1>1, <1>2, <1>3, <1>4, <1>5, <1>6, <1>7, <1>8, <1>9, <1>10, <1>11, <1>12 DEF Next

----------------------------------------------------------------------------
(* What the frames and the two parties' states say.                        *)

\* Every frame on the wire was made by this code from the secrets of its
\* sender, and past the first flight the thimbles are distinct.
FrameInv ==
    \A f \in sent :
        /\ f.kind = "AliceOpen" => f.thimbles = thimbles /\ thimbles[0] # thimbles[1]
        /\ f.kind = "BobCommit" => f.key = ClaimKey /\ thimbles[0] # thimbles[1]
        /\ f.kind = "AliceReveal" => /\ f.ctxt = Ciphertext
                                     /\ f.partials = Partials("dealer", ClaimKey)
        /\ f.kind = "BobAuth" => f.partials = Partials("player", ClaimKey)
        /\ f.kind = "CoopReveal" => f.sig.secret = d

\* What a party holds is what the secrets of both determine.
KeyInv ==
    /\ held["dealer"].step # "nothing" => held["dealer"].key = ClaimKey
    /\ held["player"].step # "nothing" =>
           held["player"].key = ClaimKey /\ thimbles[0] # thimbles[1]
    /\ held["player"].step \in {"signed", "complete"} =>
           /\ held["player"].ctxt = Ciphertext
           /\ held["player"].partials = Partials("dealer", ClaimKey)

\* Both are kept together.
ContentInv == SetupTypeOK /\ LabelInv /\ FrameInv /\ KeyInv

\* The secrets and the terms never change.
LEMMA SecretsFixed ==
  ASSUME [Next]_vars
  PROVE  UNCHANGED secretVars
BY DEF Next, vars, DealerOpen, PlayerCommit, Commit, DealerReveal, PlayerAuth, PlayerVerify,
       DealerVerify, Fail, DealerCoop, Overlay, DealerSettle, PlayerAnswer, PlayerObserve,
       AfterSetup

\* A step adds only true frames.
LEMMA FrameStep ==
  ASSUME ContentInv, [Next]_vars
  PROVE  FrameInv'
<1>. USE SecretsFixed DEF ContentInv, FrameInv, secretVars, Send, ClaimKey, Ciphertext, Partials,
          RefundMsg, SettleMsg
<1>1. CASE DealerOpen BY <1>1 DEF DealerOpen
<1>2. CASE PlayerCommit
  <2>1. PICK f \in sent : f.kind = "AliceOpen" /\ Commit(KeyFor(f.thimbles))
    BY <1>2 DEF PlayerCommit
  <2>2. KeyFor(f.thimbles) = ClaimKey /\ thimbles[0] # thimbles[1]
    BY <2>1 DEF KeyFor
  <2> QED BY <2>1, <2>2 DEF Commit
<1>3. CASE DealerReveal BY <1>3 DEF DealerReveal
<1>4. CASE PlayerAuth
  <2>1. held["player"].key = ClaimKey
    BY <1>4 DEF PlayerAuth, Goto, LabelInv, KeyInv
  <2> QED BY <1>4, <2>1 DEF PlayerAuth
<1>5. CASE PlayerVerify BY <1>5 DEF PlayerVerify
<1>6. CASE DealerVerify BY <1>6 DEF DealerVerify
<1>7. ASSUME NEW p \in Party, Fail(p) PROVE FrameInv'
  BY <1>7 DEF Fail
<1>8. CASE DealerCoop
  BY <1>8 DEF DealerCoop, Overlay, Adapted
<1>9. CASE DealerSettle BY <1>9 DEF DealerSettle
<1>10. CASE PlayerAnswer BY <1>10 DEF PlayerAnswer
<1>11. CASE PlayerObserve BY <1>11 DEF PlayerObserve
<1>12. CASE UNCHANGED vars BY <1>12 DEF vars
<1> QED
  BY <1>1, <1>2, <1>3, <1>4, <1>5, <1>6, <1>7, <1>8, <1>9, <1>10, <1>11, <1>12 DEF Next

\* A step keeps what the parties hold true.
LEMMA KeyStep ==
  ASSUME ContentInv, [Next]_vars
  PROVE  KeyInv'
<1>. USE SecretsFixed DEF ContentInv, SetupTypeOK, KeyInv, secretVars, AfterSetup, ClaimKey,
          Ciphertext, Partials, RefundMsg, SettleMsg, Party
<1>1. CASE DealerOpen BY <1>1 DEF DealerOpen
<1>2. CASE PlayerCommit
  <2>1. PICK f \in sent : f.kind = "AliceOpen" /\ Commit(KeyFor(f.thimbles))
    BY <1>2 DEF PlayerCommit
  <2>2. KeyFor(f.thimbles) = ClaimKey /\ thimbles[0] # thimbles[1]
    BY <2>1 DEF KeyFor, FrameInv
  <2> QED BY <2>1, <2>2 DEF Commit
<1>3. CASE DealerReveal
  BY <1>3 DEF DealerReveal, FrameInv
<1>4. CASE PlayerAuth
  <2>1. PICK f \in sent :
           /\ f.kind = "AliceReveal"
           /\ held' = [held EXCEPT !["player"] =
                  [step |-> "signed", key |-> held["player"].key, ctxt |-> f.ctxt,
                   adaptor |-> f.adaptor, partials |-> f.partials]]
    BY <1>4 DEF PlayerAuth
  <2>2. held["player"].step = "committed"
    BY <1>4 DEF PlayerAuth, Goto, LabelInv
  <2> QED BY <1>4, <2>1, <2>2 DEF FrameInv
<1>5. CASE PlayerVerify
  <2>1. held["player"] \in PlayerHeld /\ held["player"].step = "signed"
    BY <1>5 DEF PlayerVerify, Goto, LabelInv, Nothing
  <2> QED BY <1>5, <2>1 DEF PlayerVerify, Complete, PlayerHeld
<1>6. CASE DealerVerify
  <2>1. held["dealer"] \in DealerHeld /\ held["dealer"].step = "committed"
    BY <1>6 DEF DealerVerify, Goto, LabelInv, Nothing
  <2> QED BY <1>6, <2>1 DEF DealerVerify, Complete, DealerHeld
<1>7. ASSUME NEW p \in Party, Fail(p) PROVE KeyInv'
  BY <1>7 DEF Fail
<1>8. CASE DealerCoop BY <1>8 DEF DealerCoop, Overlay
<1>9. CASE DealerSettle BY <1>9 DEF DealerSettle
<1>10. CASE PlayerAnswer BY <1>10 DEF PlayerAnswer
<1>11. CASE PlayerObserve BY <1>11 DEF PlayerObserve
<1>12. CASE UNCHANGED vars BY <1>12 DEF vars
<1> QED
  BY <1>1, <1>2, <1>3, <1>4, <1>5, <1>6, <1>7, <1>8, <1>9, <1>10, <1>11, <1>12 DEF Next

----------------------------------------------------------------------------
(* The same transactions.                                                  *)

\* Equal pairs of messages are made of equal terms.
LEMMA EqualPartials ==
  ASSUME terms \in [Party -> Terms], Partials("dealer", ClaimKey) = Partials("player", ClaimKey)
  PROVE  terms["dealer"] = terms["player"]
<1>1. terms["dealer"] \in Terms /\ terms["player"] \in Terms
  BY DEF Party
<1>2. /\ RefundMsg(terms["dealer"]) = RefundMsg(terms["player"])
      /\ SettleMsg(terms["dealer"], ClaimKey) = SettleMsg(terms["player"], ClaimKey)
  BY DEF Partials
<1>3. /\ terms["dealer"].refund_locktime = terms["player"].refund_locktime
      /\ terms["dealer"].alice_timeout = terms["player"].alice_timeout
  BY <1>2 DEF RefundMsg, SettleMsg
<1> QED BY <1>1, <1>3 DEF Terms

\* Whoever completes has compared the two pairs.
LEMMA SameStep ==
  ASSUME ContentInv, SameTransactions, [Next]_vars
  PROVE  SameTransactions'
<1>. USE SecretsFixed DEF ContentInv, SetupTypeOK, SameTransactions, Completed, secretVars,
          AfterSetup, Party
<1>1. CASE DealerOpen BY <1>1 DEF DealerOpen
<1>2. CASE PlayerCommit BY <1>2 DEF PlayerCommit, Commit
<1>3. CASE DealerReveal BY <1>3 DEF DealerReveal
<1>4. CASE PlayerAuth BY <1>4 DEF PlayerAuth
<1>5. CASE PlayerVerify
  <2>1. held["player"].key = ClaimKey /\ held["player"].partials = Partials("dealer", ClaimKey)
    BY <1>5 DEF PlayerVerify, Goto, LabelInv, KeyInv
  <2>2. terms["dealer"] = terms["player"]
    BY <1>5, <2>1, EqualPartials DEF PlayerVerify, Matching
  <2> QED BY <2>2
<1>6. CASE DealerVerify
  <2>1. held["dealer"].key = ClaimKey
    BY <1>6 DEF DealerVerify, Goto, LabelInv, KeyInv
  <2>2. Partials("player", ClaimKey) = Partials("dealer", ClaimKey)
    BY <1>6, <2>1 DEF DealerVerify, Matching, FrameInv
  <2>3. terms["dealer"] = terms["player"]
    BY <2>2, EqualPartials
  <2> QED BY <2>3
<1>7. ASSUME NEW p \in Party, Fail(p) PROVE SameTransactions'
  BY <1>7 DEF Fail
<1>8. CASE DealerCoop BY <1>8 DEF DealerCoop, Overlay
<1>9. CASE DealerSettle BY <1>9 DEF DealerSettle
<1>10. CASE PlayerAnswer BY <1>10 DEF PlayerAnswer
<1>11. CASE PlayerObserve BY <1>11 DEF PlayerObserve
<1>12. CASE UNCHANGED vars BY <1>12 DEF vars
<1> QED
  BY <1>1, <1>2, <1>3, <1>4, <1>5, <1>6, <1>7, <1>8, <1>9, <1>10, <1>11, <1>12 DEF Next

----------------------------------------------------------------------------
(* The outcome.                                                            *)

\* Every settlement on the chain was completed with d, and what the player
\* has read is the dealer's choice.
RevealInv ==
    /\ \A sig \in settled : sig.secret = d
    /\ learned \subseteq {thimbles[choice]}
    /\ learned # {} => thimbles[0] # thimbles[1]

\* The player reads the dealer's choice out of any settlement.
LEMMA LearnsChoice ==
  ASSUME ContentInv, Completed("player"), NEW sig, sig.secret = d, Learn(sig)
  PROVE  learned' = {thimbles[choice]} /\ thimbles[0] # thimbles[1]
<1>1. held["player"].ctxt = Ciphertext /\ thimbles[0] # thimbles[1]
  BY DEF ContentInv, KeyInv, Completed
<1>2. thimbles[choice] \in Scalar /\ d \in Scalar
  BY DEF ContentInv, SetupTypeOK, NonZero
<1>3. Decrypt(Ciphertext, d) = thimbles[choice]
  BY <1>2, DecryptEncrypted DEF Ciphertext
<1> QED BY <1>1, <1>3 DEF Learn

\* A step reveals nothing but the choice.
LEMMA RevealStep ==
  ASSUME ContentInv, RevealInv, [Next]_vars
  PROVE  RevealInv'
<1>. USE SecretsFixed DEF RevealInv, secretVars, AfterSetup
<1>1. CASE DealerOpen BY <1>1 DEF DealerOpen
<1>2. CASE PlayerCommit BY <1>2 DEF PlayerCommit, Commit
<1>3. CASE DealerReveal BY <1>3 DEF DealerReveal
<1>4. CASE PlayerAuth BY <1>4 DEF PlayerAuth
<1>5. CASE PlayerVerify BY <1>5 DEF PlayerVerify
<1>6. CASE DealerVerify BY <1>6 DEF DealerVerify
<1>7. ASSUME NEW p \in Party, Fail(p) PROVE RevealInv'
  BY <1>7 DEF Fail
<1>8. CASE DealerCoop BY <1>8 DEF DealerCoop, Overlay
<1>9. CASE DealerSettle
  BY <1>9 DEF DealerSettle, Adapted
<1>10. CASE PlayerAnswer
  <2>1. PICK f \in sent :
           /\ f.kind = "CoopReveal" /\ Learn(f.sig)
           /\ settled' = settled \union {f.sig} \/ UNCHANGED settled
    BY <1>10 DEF PlayerAnswer
  <2>2. f.sig.secret = d
    BY <2>1 DEF ContentInv, FrameInv
  <2>3. Completed("player")
    BY <1>10 DEF PlayerAnswer, Goto, ContentInv, LabelInv
  <2>4. learned' = {thimbles[choice]} /\ thimbles[0] # thimbles[1]
    BY <2>1, <2>2, <2>3, LearnsChoice
  <2> QED BY <2>1, <2>2, <2>4
<1>11. CASE PlayerObserve
  <2>1. PICK sig \in settled : Learn(sig)
    BY <1>11 DEF PlayerObserve
  <2>2. learned' = {thimbles[choice]} /\ thimbles[0] # thimbles[1]
    BY <1>11, <2>1, LearnsChoice DEF PlayerObserve
  <2> QED BY <1>11, <2>2 DEF PlayerObserve
<1>12. CASE UNCHANGED vars BY <1>12 DEF vars
<1> QED
  BY <1>1, <1>2, <1>3, <1>4, <1>5, <1>6, <1>7, <1>8, <1>9, <1>10, <1>11, <1>12 DEF Next

----------------------------------------------------------------------------
(* The nonces.                                                             *)

\* Which nonces a party has not used yet, by its label.
NonceInv ==
    /\ at["dealer"] \in {"open", "commit"} =>
           nonceUse["dealer"]["refund"] = {} /\ nonceUse["dealer"]["settle"] = {}
    /\ at["dealer"] \in {"open", "commit", "auth", "ready"} => nonceUse["dealer"]["coop"] = {}
    /\ at["player"] \in {"open", "reveal"} =>
           nonceUse["player"]["refund"] = {} /\ nonceUse["player"]["settle"] = {}
    /\ at["player"] \in {"open", "reveal", "verify", "ready"} => nonceUse["player"]["coop"] = {}

\* A step signs with unused nonces only.
LEMMA NonceStep ==
  ASSUME SetupTypeOK, NonceInv, OneMessagePerNonce, [Next]_vars
  PROVE  NonceInv' /\ OneMessagePerNonce'
<1>. USE DEF SetupTypeOK, NonceInv, OneMessagePerNonce, Goto, Signs, Partials, Party, Session
<1>1. CASE DealerOpen BY <1>1 DEF DealerOpen
<1>2. CASE PlayerCommit BY <1>2 DEF PlayerCommit, Commit
<1>3. CASE DealerReveal BY <1>3 DEF DealerReveal
<1>4. CASE PlayerAuth BY <1>4 DEF PlayerAuth
<1>5. CASE PlayerVerify BY <1>5 DEF PlayerVerify
<1>6. CASE DealerVerify BY <1>6 DEF DealerVerify
<1>7. ASSUME NEW p \in Party, Fail(p) PROVE (NonceInv /\ OneMessagePerNonce)'
  BY <1>7 DEF Fail
<1>8. CASE DealerCoop BY <1>8 DEF DealerCoop, Overlay
<1>9. CASE DealerSettle BY <1>9 DEF DealerSettle
<1>10. CASE PlayerAnswer BY <1>10 DEF PlayerAnswer
<1>11. CASE PlayerObserve BY <1>11 DEF PlayerObserve
<1>12. CASE UNCHANGED vars BY <1>12 DEF vars
<1> QED
  BY <1>1, <1>2, <1>3, <1>4, <1>5, <1>6, <1>7, <1>8, <1>9, <1>10, <1>11, <1>12 DEF Next

----------------------------------------------------------------------------
(* The theorems.                                                           *)

\* All of the above.
SetupInv ==
    ContentInv /\ SameTransactions /\ RevealInv /\ NonceInv /\ OneMessagePerNonce

\* It holds at the start.
LEMMA SetupInit == Init => SetupInv
<1> SUFFICES ASSUME Init PROVE SetupInv
  OBVIOUS
<1>. USE DEF Init, Nothing, Party, Session
<1>1. SetupTypeOK
  BY DEF SetupTypeOK, Label
<1>2. LabelInv /\ FrameInv /\ KeyInv /\ SameTransactions /\ RevealInv /\ NonceInv
  BY DEF LabelInv, FrameInv, KeyInv, SameTransactions, Completed, RevealInv, NonceInv
<1>3. OneMessagePerNonce
  BY DEF OneMessagePerNonce
<1> QED BY <1>1, <1>2, <1>3 DEF SetupInv, ContentInv

\* It holds forever.
LEMMA SetupAlways == Spec => []SetupInv
<1>1. SetupInv /\ [Next]_vars => SetupInv'
  BY TypeStep, LabelStep, FrameStep, KeyStep, SameStep, RevealStep, NonceStep
     DEF SetupInv, ContentInv
<1> QED BY SetupInit, <1>1, PTL DEF Spec

\* The states of the setup and what is on the wire keep their types.
THEOREM SetupTypeCorrect == Spec => []SetupTypeOK
<1>1. SetupInv => SetupTypeOK
  BY DEF SetupInv, ContentInv
<1> QED BY <1>1, SetupAlways, PTL

\* No nonce of the three sessions ever signs two messages.
THEOREM NonceHygiene == Spec => []OneMessagePerNonce
<1>1. SetupInv => OneMessagePerNonce
  BY DEF SetupInv
<1> QED BY <1>1, SetupAlways, PTL

\* A setup completes only between parties that play under the same terms, so
\* that their refunds and settlements are the same transactions.
THEOREM TransactionsAgree == Spec => []SameTransactions
<1>1. SetupInv => SameTransactions
  BY DEF SetupInv
<1> QED BY <1>1, SetupAlways, PTL

\* What the player decrypts says truly whether he won and, if he did, opens K.
THEOREM RevealIsTrue == Spec => []OutcomeRevealed
<1>1. SetupInv => OutcomeRevealed
  <2> SUFFICES ASSUME SetupInv, NEW a_c \in learned
               PROVE  /\ WonWith(a_c) <=> guess = choice
                      /\ guess = choice => ClaimSecret(a_c) = ClaimKey
    BY DEF OutcomeRevealed
  <2>1. a_c = thimbles[choice] /\ thimbles[0] # thimbles[1]
    BY DEF SetupInv, RevealInv
  <2>2. guess \in {0, 1} /\ choice \in {0, 1}
    BY DEF SetupInv, ContentInv, SetupTypeOK, Ball
  <2> QED BY <2>1, <2>2 DEF WonWith, ClaimSecret, ClaimKey
<1> QED BY <1>1, SetupAlways, PTL
============================================================================
