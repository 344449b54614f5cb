--------------------------- MODULE FairBetProofs ---------------------------
(***************************************************************************)
(* The abstract bet keeps its promise.                                     *)
(***************************************************************************)
EXTENDS FairBet, TLAPS

\* An outcome that was told stays justified: the place it rests on is final.
ToldInv ==
    /\ TypeOK
    /\ pot = "claimed" => playerWon
    /\ \A p \in Party :
          /\ told[p] = "PlayerWins" => pot = "claimed"
          /\ told[p] = "DealerWins" => ~playerWon \/ pot = "reclaimed"

\* One more move from a set of places.
LEMMA OneMove ==
  ASSUME NEW places \in SUBSET Pot
  PROVE  /\ Beyond(places) \in SUBSET Pot
         /\ \A place \in Beyond(places) :
               place \in places \/ \E q \in places : place \in Moves(q)
  BY DEF Beyond, Moves, Pot

\* A block leaves a claimed or a reclaimed pot where it is, and pays a claim
\* only to a player who won.
LEMMA BlockMoves ==
  ASSUME TypeOK, Block
  PROVE  /\ pot' \in Pot
         /\ pot \in {"claimed", "reclaimed"} => pot' = pot
         /\ pot' = "claimed" => pot = "claimed" \/ playerWon
<1>1. /\ Beyond({pot}) \in SUBSET Pot
      /\ Beyond(Beyond({pot})) \in SUBSET Pot
      /\ Beyond(Beyond(Beyond({pot}))) \in SUBSET Pot
  BY OneMove DEF TypeOK
<1>2. pot' \in Pot
  BY <1>1 DEF Block
<1>3. ASSUME pot \in {"claimed", "reclaimed"} PROVE pot' = pot
  <2>1. Beyond({pot}) = {pot}
    BY <1>3 DEF Beyond, Moves
  <2>. QED
    BY <2>1 DEF Block
<1>4. ASSUME pot' = "claimed", pot # "claimed" PROVE playerWon
  <2>1. \A q \in Pot : "claimed" \in Moves(q) => playerWon
    BY DEF Moves, Pot
  <2>. QED
    BY <1>1, <1>4, <2>1, OneMove DEF Block, TypeOK
<1>. QED
  BY <1>2, <1>3, <1>4

\* ToldInv is inductive.
LEMMA ToldStep == ToldInv /\ [Next]_vars => ToldInv'
<1>. SUFFICES ASSUME ToldInv, [Next]_vars PROVE ToldInv'
  OBVIOUS
<1>1. CASE Block
  BY <1>1, BlockMoves DEF Block, ToldInv, TypeOK
<1>2. ASSUME NEW p \in Party, Tell(p) PROVE ToldInv'
  BY <1>2 DEF Tell, Justified, ToldInv, TypeOK, Outcome
<1>3. CASE UNCHANGED vars
  BY <1>3 DEF vars, ToldInv, TypeOK
<1>. QED
  BY <1>1, <1>2, <1>3 DEF Next

\* The promise of the abstract bet: the parties are told one outcome.  With
\* the refinement of BetProofs this is why two sessions cannot disagree.
THEOREM AbstractAgreement == Spec => []Agreement
<1>1. Init => ToldInv
  BY DEF Init, ToldInv, TypeOK, Pot, Outcome
<1>2. ToldInv => Agreement
  BY DEF ToldInv, Agreement, TypeOK, Outcome
<1>. QED
  BY <1>1, <1>2, ToldStep, PTL DEF Spec
============================================================================
