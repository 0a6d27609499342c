-------------------------- MODULE MCChannelMembers --------------------------
(***************************************************************************)
(* Instances of ChannelMembers for TLC.                                    *)
(***************************************************************************)
EXTENDS ChannelMembers, TLC

CONSTANTS me, bob, c1, c2, f1, f2

OneChannel == {c1}
TwoChannels == {c1, c2}
TwoUsers == {me, bob}
TwoFetchers == {f1, f2}

\* The goroutines in GetChannelUsers are all alike.
Interchangeable == Permutations(TwoFetchers)
=============================================================================
