---------------------------- MODULE MCUpgradeCheck ----------------------------
(* Versions whose numbers have up to three digits, for TLC. *)
EXTENDS UpgradeCheck

SeveralDigits == {2, 9, 19, 100}
=============================================================================
