------------------------------- MODULE MCBet -------------------------------
(* Instance of BetSystem for TLC: two thimbles, interchangeable.           *)
EXTENDS BetInvariants, TLC

CONSTANTS left, right

ThimbleSymmetry == Permutations({left, right})
============================================================================
