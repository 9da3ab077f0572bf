---------------------------- MODULE MCSubmission ----------------------------
(* Submission with small fees; the .cfg files choose the signals.          *)
EXTENDS Submission

MCKinds == {"arb", "liq", "sandwich"}
MCFees == {1, 3}
=============================================================================
