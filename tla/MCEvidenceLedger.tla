------------------------- MODULE MCEvidenceLedger -------------------------
(* Small instances of EvidenceLedger for TLC.                                *)
EXTENDS EvidenceLedger, TLC

CONSTANTS a1, a2, a3, a4, p1, p2

AppenderSymmetry == Permutations(Appender)
=============================================================================
