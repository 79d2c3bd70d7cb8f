----------------------------- MODULE MCStateReads -----------------------------
(* The client keeps nothing between calls, so callers do not meet: one, and  *)
(* a chain of up to four blocks whose states may repeat.                     *)
EXTENDS StateReads

CONSTANT c1

MCValues  == {1, 2}
MCCallers == {c1}
===============================================================================
