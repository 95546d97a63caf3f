----------------------------- MODULE MCCtrEngine ----------------------------
(* CtrEngine on small instances.                                           *)
EXTENDS CtrEngine, TLC

CONSTANTS a, b

TwoRounds == <<<<a, b>>, <<b, a>>>>
OneRound == <<<<a, b>>>>
=============================================================================
