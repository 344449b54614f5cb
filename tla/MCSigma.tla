------------------------------ MODULE MCSigma ------------------------------
(* Instance of Sigma for TLC: the integers modulo a prime.                 *)
EXTENDS Sigma

CONSTANT Order

MCScalar == 0..(Order - 1)
MCAdd(x, y) == (x + y) % Order
MCNeg(x) == (Order - x) % Order
MCMul(x, y) == (x * y) % Order
MCThimblePairs == {pair \in [Ball -> {1, 2, 4}] : pair[0] = 1 /\ pair[0] # pair[1]}
============================================================================
