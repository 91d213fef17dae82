----------------------------- MODULE MCCallSites -----------------------------
(***************************************************************************)
(* Small instances of CallSites.                                           *)
(***************************************************************************)
EXTENDS CallSites

ThreePrices == {0, 3, 6}
Twice == 0 .. 1
=============================================================================
