----------------------------- MODULE MCPipeline -----------------------------
(* Pipeline on model-value accounts; the .cfg files choose the instance.   *)
EXTENDS Pipeline

CONSTANTS o1, o2, p1, p2

OneObligation == {o1}
TwoObligations == {o1, o2}
OnePool == {p1}
TwoPools == {p1, p2}
=============================================================================
