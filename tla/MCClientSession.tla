--------------------------- MODULE MCClientSession ---------------------------
(***************************************************************************)
(* Instances of ClientSession for TLC.                                     *)
(***************************************************************************)
EXTENDS ClientSession, TLC

CONSTANTS c1, c2, c3, n1, n2

ThreeChannels == {c1, c2, c3}
TwoKnown == {c1, c2}
TwoNicks == {n1, n2}
Lists == {<<c1, c3, c2>>, <<c2, c3, c1>>}
Interchangeable == Permutations(TwoKnown) \cup Permutations(TwoNicks)
=============================================================================
