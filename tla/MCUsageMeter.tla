--------------------------- MODULE MCUsageMeter ---------------------------
(* Small instances of UsageMeter for TLC.  Two sessionShips are all a handle *)
(* can get: one before the final flush deletes it, one after.                *)
EXTENDS UsageMeter

CONSTANTS e1, e2, e3, s1, s2
===========================================================================
