------------------------------ MODULE MCSetup ------------------------------
(* Instance of Setup for TLC: the scalars are the integers modulo Order.   *)
EXTENDS Setup

CONSTANT Order

MCScalar == 0..(Order - 1)
MCAdd(x, y) == (x + y) % Order
MCNeg(x) == (Order - x) % Order
MCPad(x) == (x * x) % Order
============================================================================
