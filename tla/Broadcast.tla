------------------------------ MODULE Broadcast ------------------------------
(***************************************************************************)
(* What the IRC server promises its clients about the messages the Slack   *)
(* side produces: a lockstep, gap-free broadcast.  Messages are numbered   *)
(* in the order they are published.  A client that is a member gets every  *)
(* message published since it became one, in order and each exactly once,  *)
(* and message n + 1 is published only when every member has message n.    *)
(* ClientFanout is shown to implement this module.                         *)
(***************************************************************************)
EXTENDS Naturals

CONSTANT Clients      \* everybody who may become a member

VARIABLES
  members,            \* the connected clients
  published,          \* number of messages published so far
  pos                 \* pos[c]: the last message client c got

vars == <<members, published, pos>>

TypeOK ==
  /\ members \subseteq Clients
  /\ published \in Nat
  /\ pos \in [Clients -> Nat]

Init ==
  /\ members = {}
  /\ published = 0
  /\ pos = [c \in Clients |-> 0]

\* A member starts with the next message to be published.
Join(c) ==
  /\ c \notin members
  /\ members' = members \cup {c}
  /\ pos' = [pos EXCEPT ![c] = published]
  /\ UNCHANGED published

Publish ==
  /\ \A c \in members : pos[c] = published
  /\ published' = published + 1
  /\ UNCHANGED <<members, pos>>

Deliver(c) ==
  /\ c \in members
  /\ pos[c] < published
  /\ pos' = [pos EXCEPT ![c] = pos[c] + 1]
  /\ UNCHANGED <<members, published>>

Leave(c) ==
  /\ c \in members
  /\ members' = members \ {c}
  /\ UNCHANGED <<published, pos>>

Next ==
  \/ Publish
  \/ \E c \in Clients : Join(c) \/ Deliver(c) \/ Leave(c)

Spec == Init /\ [][Next]_vars
=============================================================================
