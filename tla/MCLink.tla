------------------------------ MODULE MCLink ------------------------------
(* Two players and a bystander who pads his connections.                   *)
EXTENDS Link

CONSTANTS a, b, other

MCHost == [n \in Node |-> n]
MCConnections == {<<a, b, 1>>, <<a, b, 2>>, <<b, a, 1>>, <<other, b, 1>>}
============================================================================
