---------------------------- MODULE MCSendLedger ----------------------------
(* Model values, symmetry and bounds for TLC's runs of SendLedger. *)
EXTENDS SendLedger, TLC

Symmetry == Permutations(Msgs)
=============================================================================
