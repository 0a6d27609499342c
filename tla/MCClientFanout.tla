--------------------------- MODULE MCClientFanout ---------------------------
(***************************************************************************)
(* Instances of ClientFanout for TLC.                                      *)
(***************************************************************************)
EXTENDS ClientFanout, TLC

CONSTANTS c1, c2

NoClients == {}
OneClient == {c1}
TwoClients == {c1, c2}

\* The clients are, where both may leave or neither.
Interchangeable == Permutations(Clients)
=============================================================================
