---------------------------- MODULE MCCollators ----------------------------
(* A small parachain for Collators: three periods, the last of one block;  *)
(* b collates in all of them, a in the second only.                        *)
EXTENDS Collators

CONSTANTS a, b

Listed == <<<<b>>, <<a, b>>, <<b>>>>
=============================================================================
