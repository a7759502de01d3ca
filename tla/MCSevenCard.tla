---------------------------- MODULE MCSevenCard ----------------------------
(* Instances of SevenCard for TLC.                                          *)
EXTENDS SevenCard

MCAllVariants == {"stud", "baseball", "coupons", "chicago", "chiggs"}

MCChiggs == {"chiggs"}
=============================================================================
