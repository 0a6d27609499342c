--------------------------- MODULE MCUserDirectory ---------------------------
(***************************************************************************)
(* Instances of UserDirectory for TLC.                                     *)
(***************************************************************************)
EXTENDS UserDirectory, TLC

CONSTANTS alice, bob, stranger, n1, n2, n3, r1

Workspace == {alice, bob}
Everybody == {alice, bob, stranger}
AliceAndStranger == {alice, stranger}
OnlyAlice == {alice}
TwoNicks == {n1, n2}
ThreeNicks == {n1, n2, n3}
NoResolver == {}
OneResolver == {r1}
=============================================================================
