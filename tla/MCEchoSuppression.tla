-------------------------- MODULE MCEchoSuppression --------------------------
(***************************************************************************)
(* Instances of EchoSuppression for TLC.                                   *)
(***************************************************************************)
EXTENDS EchoSuppression, TLC

CONSTANTS m1, m2, e1, o1

OneOwn == {m1}
TwoOwn == {m1, m2}
OneElsewhere == {e1}
OneOther == {o1}
Nothing == {}

LostResponses == {"lost_response"}
AllFaults == {"lost_response", "disconnect", "unresolved"}
=============================================================================
