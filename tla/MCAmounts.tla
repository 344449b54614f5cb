----------------------------- MODULE MCAmounts -----------------------------
(* Instance of Amounts for TLC, in units of about 55 satoshis: dust 330 is *)
(* 6 and the default fee floor for TX1, 211, is 4.                         *)
EXTENDS Amounts

CONSTANTS MaxStake, MaxFee, MaxInput

MCStakes == 1..MaxStake
MCFees == 0..MaxFee
MCInputs == 1..MaxInput
============================================================================
