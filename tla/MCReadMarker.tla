---------------------------- MODULE MCReadMarker ----------------------------
(***************************************************************************)
(* Instances of ReadMarker for TLC.                                        *)
(***************************************************************************)
EXTENDS ReadMarker, TLC

CONSTANTS general, random

TwoConversations == {general, random}
=============================================================================
