------------------------------- MODULE Setup -------------------------------
(***************************************************************************)
(* The four setup flights (src/src/setup.rs), the three MuSig2 sessions    *)
(* inside them (src/src/musig.rs) and what the player reads out of the     *)
(* settlement afterwards (src/src/reveal.rs).                              *)
(*                                                                         *)
(* Scalars are the elements of an abelian group, written additively, and a *)
(* point is named by its discrete logarithm: x*G is x.  Signatures are     *)
(* symbolic.  A partial signature names its signer, session and message,   *)
(* and a session accepts the peer's partial only over its own message.     *)
(* The zero-knowledge proofs succeed: both parties run this code.  Their   *)
(* terms may still differ (an ACCEPT names no proposal, see Agent).        *)
(*                                                                         *)
(* `sent` holds every frame sent so far; each is sent at most once, and    *)
(* the receiver's label says which one he reads next.                      *)
(***************************************************************************)
EXTENDS Naturals

CONSTANTS
    Scalar, Zero, Add(_, _), Neg(_),  \* the scalars, zero included
    Pad(_),                           \* pi_a::pad, the mask H
    Locktimes, Timeouts,              \* refund_locktime and alice_timeout
    Addresses                         \* fresh addresses of an overlay

ASSUME GroupAssumption ==
    /\ Zero \in Scalar
    /\ \A x \in Scalar : Pad(x) \in Scalar /\ Neg(x) \in Scalar
    /\ \A x \in Scalar : Add(x, Zero) = x /\ Add(x, Neg(x)) = Zero
    /\ \A x, y \in Scalar : Add(x, y) \in Scalar /\ Add(x, y) = Add(y, x)
    /\ \A x, y, z \in Scalar : Add(Add(x, y), z) = Add(x, Add(y, z))

VARIABLES
    thimbles, choice, d,  \* AliceSecrets
    w, guess,             \* BobSecrets: the claim key and the guess
    terms,                \* the terms each party plays under
    at,                   \* where each party is
    sent,                 \* the frames on the wire
    nonceUse,             \* what each party signed with the nonce of each session
    held,                 \* what each party keeps of the setup
    settled,              \* the completed settlement signatures on the chain
    learned               \* the a_c the player decrypted, if he did

secretVars == <<thimbles, choice, d, w, guess, terms>>
vars == <<secretVars, at, sent, nonceUse, held, settled, learned>>

Party == {"dealer", "player"}

Session == {"refund", "settle", "coop"}

Ball == {0, 1}

NonZero == Scalar \ {Zero}

\* The terms that distinguish the transactions; the amounts were compared in
\* fund_pot (see Amounts).
Terms == [refund_locktime : Locktimes, alice_timeout : Timeouts]

Label == {"open", "commit", "reveal", "auth", "verify", "ready", "revealed", "done", "failed"}

Nothing == [step |-> "nothing"]

\* The messages of the sessions.  Both parties derive them from their own
\* terms and from K; an overlay pays to fresh addresses, so each is another.
RefundMsg(t) == [kind |-> "refund", locktime |-> t.refund_locktime]
SettleMsg(t, k) == [kind |-> "settle", timeout |-> t.alice_timeout, key |-> k]
CoopMsg(address) == [kind |-> "coop", payout |-> address]

\* The discrete logarithm of K, which only a winner comes to know.
ClaimKey == Add(w, thimbles[guess])

\* Mutant: the other thimble is encrypted.
CiphertextOfOther == Add(thimbles[1 - choice], Pad(d))

\* The encrypted outcome.
Ciphertext == Add(thimbles[choice], Pad(d))

\* `recover_a_c`, `won` and `claim_secret`.
Decrypt(ctxt, secret) == Add(ctxt, Neg(Pad(secret)))

WonWith(a_c) == a_c = thimbles[guess]

ClaimSecret(a_c) == Add(w, a_c)

----------------------------------------------------------------------------
(* The flights.                                                            *)

Goto(p, here, there) == at[p] = here /\ at' = [at EXCEPT ![p] = there]

Send(frame) == sent' = sent \union {frame}

AfterSetup == UNCHANGED <<settled, learned>> /\ UNCHANGED secretVars

Signs(p, use) == nonceUse' = [nonceUse EXCEPT ![p] =
    [s \in Session |-> @[s] \union IF s \in DOMAIN use THEN {use[s]} ELSE {}]]

\* Both partials of a party over its own transactions.
Partials(p, k) == [refund |-> RefundMsg(terms[p]), settle |-> SettleMsg(terms[p], k)]

\* Flight 1.
DealerOpen ==
    /\ Goto("dealer", "open", "commit")
    /\ thimbles[0] # thimbles[1]
    /\ Send([kind |-> "AliceOpen", thimbles |-> thimbles])
    /\ UNCHANGED <<nonceUse, held>> /\ AfterSetup

\* `compute_k`: the player's claim key, for the thimbles he was sent.
KeyFor(balls) == Add(w, balls[guess])

Commit(key) ==
    /\ Goto("player", "open", "reveal")
    /\ held' = [held EXCEPT !["player"] = [step |-> "committed", key |-> key]]
    /\ Send([kind |-> "BobCommit", key |-> key])
    /\ UNCHANGED nonceUse /\ AfterSetup

\* Mutant: the identity is taken for a key.
PlayerCommitIdentity ==
    \E frame \in sent : frame.kind = "AliceOpen" /\ Commit(KeyFor(frame.thimbles))

\* Flight 2: the player refuses equal thimbles and hides his guess in K.
PlayerCommit ==
    \E frame \in sent :
        /\ frame.kind = "AliceOpen"
        /\ frame.thimbles[0] # frame.thimbles[1]
        /\ KeyFor(frame.thimbles) # Zero
        /\ Commit(KeyFor(frame.thimbles))

\* Flight 3: the dealer signs both transactions and encrypts the outcome.
DealerReveal ==
    /\ Goto("dealer", "commit", "auth")
    /\ Ciphertext # Zero
    /\ \E frame \in sent :
          /\ frame.kind = "BobCommit"
          /\ Signs("dealer", Partials("dealer", frame.key))
          /\ held' = [held EXCEPT !["dealer"] = [step |-> "committed", key |-> frame.key]]
          /\ Send([kind |-> "AliceReveal", ctxt |-> Ciphertext, adaptor |-> d,
                   partials |-> Partials("dealer", frame.key)])
    /\ AfterSetup

\* Flight 4: the player signs before he verifies the dealer's partials.
PlayerAuth ==
    /\ Goto("player", "reveal", "verify")
    /\ \E frame \in sent :
          /\ frame.kind = "AliceReveal"
          /\ held' = [held EXCEPT !["player"] =
                 [step |-> "signed", key |-> held["player"].key, ctxt |-> frame.ctxt,
                  adaptor |-> frame.adaptor, partials |-> frame.partials]]
    /\ Signs("player", Partials("player", held["player"].key))
    /\ Send([kind |-> "BobAuth", partials |-> Partials("player", held["player"].key)])
    /\ AfterSetup

\* Mutant: a party takes the peer's partials as they come.
AnyPartials(p, k, partials) == TRUE

\* `Round2::receive`: the peer signed what we signed.
Matching(p, k, partials) == partials = Partials(p, k)

Complete(p) == held' = [held EXCEPT ![p] = [@ EXCEPT !.step = "complete"]]

Completed(p) == held[p].step = "complete"

\* The player completes both sessions.
PlayerVerify ==
    /\ Goto("player", "verify", "ready")
    /\ Matching("player", held["player"].key, held["player"].partials)
    /\ Complete("player")
    /\ UNCHANGED <<sent, nonceUse>> /\ AfterSetup

\* So does the dealer, when the player's partials are there.
DealerVerify ==
    /\ Goto("dealer", "auth", "ready")
    /\ \E frame \in sent :
          frame.kind = "BobAuth" /\ Matching("dealer", held["dealer"].key, frame.partials)
    /\ Complete("dealer")
    /\ UNCHANGED <<sent, nonceUse>> /\ AfterSetup

\* No frame in time, equal thimbles, a zero sum, partials that do not verify,
\* or a crash: the nonce seeds are lost, a completed setup may have been saved
\* (the save itself is a step of Bet).
Fail(p) ==
    /\ at[p] # "failed"
    /\ at' = [at EXCEPT ![p] = "failed"]
    /\ UNCHANGED <<sent, nonceUse, held>> /\ AfterSetup

----------------------------------------------------------------------------
(* The outcome.  What happens to the pot meanwhile is in Bet.              *)

\* The settlement signature, completed with d.
Adapted == [msg |-> SettleMsg(terms["dealer"], held["dealer"].key), secret |-> d]

Overlay(address) ==
    /\ Signs("dealer", [coop |-> CoopMsg(address)])
    /\ Send([kind |-> "CoopReveal", sig |-> Adapted, msg |-> CoopMsg(address)])
    /\ UNCHANGED <<held, settled, learned>> /\ UNCHANGED secretVars

\* Mutant: the seed of the overlay's nonce is saved, and a restarted dealer
\* signs a new overlay with it.
DealerCoopAgain ==
    /\ Completed("dealer")
    /\ at["dealer"] \in {"ready", "failed"}
    /\ at' = [at EXCEPT !["dealer"] = "revealed"]
    /\ \E address \in Addresses : Overlay(address)

\* dealer_cooperative: the settlement's signature and half an overlay.
DealerCoop ==
    /\ Goto("dealer", "ready", "revealed")
    /\ \E address \in Addresses : Overlay(address)

\* `settle`, or its recovery after a crash.
DealerSettle ==
    /\ Completed("dealer")
    /\ at["dealer"] \in {"revealed", "failed"}
    /\ settled' = settled \union {Adapted}
    /\ UNCHANGED <<at, sent, nonceUse, held, learned>> /\ UNCHANGED secretVars

\* `extract`: the completed signature of his own pre-signature gives d, and
\* `recover_a_c` refuses a zero.
Extracts(sig) ==
    /\ sig.msg = SettleMsg(terms["player"], held["player"].key)
    /\ Decrypt(held["player"].ctxt, sig.secret) # Zero

Learn(sig) == learned' = {Decrypt(held["player"].ctxt, sig.secret)}

Winning(sig) == WonWith(Decrypt(held["player"].ctxt, sig.secret))

\* player_cooperative: a winner publishes the settlement, a loser completes
\* the overlay.
PlayerAnswer ==
    /\ Goto("player", "ready", "done")
    /\ \E frame \in sent :
          /\ frame.kind = "CoopReveal" /\ Extracts(frame.sig)
          /\ Learn(frame.sig)
          /\ IF Winning(frame.sig)
             THEN settled' = settled \union {frame.sig} /\ UNCHANGED nonceUse
             ELSE Signs("player", [coop |-> frame.msg]) /\ UNCHANGED settled
    /\ UNCHANGED <<sent, held>> /\ UNCHANGED secretVars

\* player_observe, or recovery after a crash: the settlement is on the chain.
PlayerObserve ==
    /\ Completed("player")
    /\ \E sig \in settled : Extracts(sig) /\ Learn(sig)
    /\ UNCHANGED <<at, sent, nonceUse, held, settled>> /\ UNCHANGED secretVars

----------------------------------------------------------------------------

Init ==
    /\ thimbles \in [Ball -> NonZero] /\ choice \in Ball /\ d \in NonZero
    /\ w \in NonZero /\ guess \in Ball
    /\ terms \in [Party -> Terms]
    /\ at = [p \in Party |-> "open"]
    /\ sent = {}
    /\ nonceUse = [p \in Party |-> [s \in Session |-> {}]]
    /\ held = [p \in Party |-> Nothing]
    /\ settled = {}
    /\ learned = {}

Next ==
    \/ DealerOpen \/ PlayerCommit \/ DealerReveal \/ PlayerAuth
    \/ PlayerVerify \/ DealerVerify \/ \E p \in Party : Fail(p)
    \/ DealerCoop \/ DealerSettle \/ PlayerAnswer \/ PlayerObserve

Spec == Init /\ [][Next]_vars

----------------------------------------------------------------------------
(* Properties.                                                             *)

Msg == [kind : {"refund"}, locktime : Locktimes]
       \union [kind : {"settle"}, timeout : Timeouts, key : NonZero]
       \union [kind : {"coop"}, payout : Addresses]

PartialsOK == [refund : Msg, settle : Msg]

Sig == [msg : Msg, secret : NonZero]

DealerHeld == [step : {"committed", "complete"}, key : NonZero]

PlayerHeld ==
    [step : {"committed"}, key : NonZero]
    \union [step : {"signed", "complete"}, key : NonZero, ctxt : NonZero,
            adaptor : NonZero, partials : PartialsOK]

Frame ==
    [kind : {"AliceOpen"}, thimbles : [Ball -> NonZero]]
    \union [kind : {"BobCommit"}, key : NonZero]
    \union [kind : {"AliceReveal"}, ctxt : NonZero, adaptor : NonZero, partials : PartialsOK]
    \union [kind : {"BobAuth"}, partials : PartialsOK]
    \union [kind : {"CoopReveal"}, sig : Sig, msg : Msg]

SetupTypeOK ==
    /\ thimbles \in [Ball -> NonZero] /\ choice \in Ball /\ guess \in Ball
    /\ d \in NonZero /\ w \in NonZero /\ terms \in [Party -> Terms]
    /\ at \in [Party -> Label]
    /\ sent \subseteq Frame
    /\ nonceUse \in [Party -> [Session -> SUBSET Msg]]
    /\ held \in [Party -> {Nothing} \union DealerHeld \union PlayerHeld]
    /\ held["dealer"] \in {Nothing} \union DealerHeld
    /\ held["player"] \in {Nothing} \union PlayerHeld
    /\ settled \subseteq Sig
    /\ learned \subseteq Scalar

\* "Nonce hygiene is load-bearing": no nonce ever signs two messages, not
\* even by way of a crash.
OneMessagePerNonce ==
    \A p \in Party, s \in Session :
        \A m1, m2 \in nonceUse[p][s] : m1 = m2

\* A party that completes the setup holds a refund and a settlement that are
\* the peer's too, whatever terms the two believe they play under.
SameTransactions ==
    \A p \in Party : Completed(p) => terms["dealer"] = terms["player"]

\* Whatever the player reads, off-chain or on-chain, live or after a crash,
\* says that he won exactly when his guess was right, and then it opens K.
OutcomeRevealed ==
    \A a_c \in learned :
        /\ WonWith(a_c) <=> guess = choice
        /\ guess = choice => ClaimSecret(a_c) = ClaimKey
============================================================================
