------------------------ MODULE EchoSuppressionProofs ------------------------
(***************************************************************************)
(* Proofs about EchoSuppression, for any set of messages and any faults.   *)
(*                                                                         *)
(* NoEcho is not inductive: it says nothing of the event poop is about to  *)
(* check, nor of the post in flight.  EchoInv adds what ownMessageLock is  *)
(* for: an own event that got past it is not the message being posted, so  *)
(* the entry MessageSent makes is for an event that is still to come.      *)
(***************************************************************************)
EXTENDS EchoSuppression, TLAPS

\* The lock is held exactly while a post is in flight or being recorded.
LockHeld == ownMessageLock <=> sender \in {"posting", "posted", "marking"}

\* Own messages get into Slack through the sender only, one at a time.
OnePost ==
  /\ accepted \cap Own \subseteq tried
  /\ sending \in tried \cup {None}
  /\ sender = "waiting" => sending \notin accepted
  /\ sender \in {"waiting", "posting"} => sending \notin acknowledged

\* An event is in one place.
OneEvent ==
  /\ event # None => event \in accepted
  /\ event \notin stream

\* The event of an acknowledged message is still to come only while the queue
\* has its entry, or the sender is about to make it.
EntryWaits ==
  \A m \in acknowledged :
    m \in stream \cup {event} =>
      m \in sentMessageSet \/ (sender = "posted" /\ sending = m)

\* What is past the inhibitor is not in flight.
Past == shown \cup (IF poop \in {"check", "emit"} THEN {event} ELSE {})
PastNotInFlight ==
  sender \in {"posting", "posted"} => sending \notin Past

\* The event of the post in flight has not been looked at yet, or is lost.
Upcoming == stream \cup missed \cup (IF poop = "inhibited" THEN {event} ELSE {})
InFlightUpcoming ==
  /\ sender = "posting" /\ sending \in accepted => sending \in Upcoming
  /\ sender = "posted" => sending \in Upcoming

\* An entry is not for an event that is being shown.
EntryPending ==
  /\ SuppressionsPending
  /\ poop = "emit" => event \notin sentMessageSet \ missed

EchoInv ==
  /\ InFlightUpcoming
  /\ EntryPending
  /\ TypeOK
  /\ LockHeld
  /\ OnePost
  /\ OneEvent
  /\ EntryWaits
  /\ PastNotInFlight
  /\ poop = "emit" => event \notin acknowledged
  /\ NoEcho

\* Initially nothing is posted, pending or shown.
LEMMA InitEcho == Init => EchoInv
  BY MessagesAssumption
  DEF Init, EchoInv, TypeOK, LockHeld, OnePost, OneEvent, EntryWaits, Past,
      PastNotInFlight, NoEcho, Messages,
      InFlightUpcoming, Upcoming, EntryPending, SuppressionsPending, history

\* sendMessage and the relay preserve the invariant.
LEMMA SenderEcho ==
  ASSUME EchoInv, SenderStep \/ \E m \in Own : SendStart(m)
  PROVE  EchoInv'
<1> USE MessagesAssumption
    DEF EchoInv, TypeOK, LockHeld, OnePost, OneEvent, EntryWaits, Past,
        PastNotInFlight, NoEcho, Messages, senderVars, poopVars, history,
        InFlightUpcoming, Upcoming, EntryPending, SuppressionsPending
<1>1. CASE SendLock BY <1>1 DEF SendLock
<1>2. CASE PostReachesSlack BY <1>2 DEF PostReachesSlack, Store
<1>3. CASE PostReturns BY <1>3 DEF PostReturns
<1>4. CASE PostFails BY <1>4, ZenonT(60) DEF PostFails
<1>5. CASE MessageSent BY <1>5 DEF MessageSent
<1>6. CASE SendUnlock BY <1>6 DEF SendUnlock
<1>7. CASE Relay BY <1>7 DEF Relay
<1>8. ASSUME NEW m \in Own, SendStart(m) PROVE EchoInv'
  BY <1>8 DEF SendStart
<1> QED BY <1>1, <1>2, <1>3, <1>4, <1>5, <1>6, <1>7, <1>8 DEF SenderStep

\* The event loop preserves the invariant.
LEMMA PoopEcho ==
  ASSUME EchoInv, PoopStep
  PROVE  EchoInv'
<1> USE MessagesAssumption
    DEF EchoInv, TypeOK, LockHeld, OnePost, OneEvent, EntryWaits, Past,
        PastNotInFlight, NoEcho, Messages, senderVars, poopVars, history,
        InFlightUpcoming, Upcoming, EntryPending, SuppressionsPending, Done
<1>1. CASE PassInhibitor BY <1>1 DEF PassInhibitor
<1>2. CASE ShouldSuppress BY <1>2 DEF ShouldSuppress
<1>3. CASE Emit BY <1>3 DEF Emit
<1>4. CASE Unresolved BY <1>4 DEF Unresolved
<1>5. ASSUME NEW m \in Messages, Receive(m) PROVE EchoInv'
  BY <1>5 DEF Receive
<1> QED BY <1>1, <1>2, <1>3, <1>4, <1>5 DEF PoopStep

\* Slack and the network preserve the invariant.
LEMMA NetworkEcho ==
  ASSUME EchoInv,
         Disconnect \/ Reconnect \/ \E m \in Messages : PostedByOther(m)
  PROVE  EchoInv'
<1> USE MessagesAssumption
    DEF EchoInv, TypeOK, LockHeld, OnePost, OneEvent, EntryWaits, Past,
        PastNotInFlight, NoEcho, Messages, senderVars, poopVars, history,
        InFlightUpcoming, Upcoming, EntryPending, SuppressionsPending
<1>1. CASE Disconnect
  <2>1. /\ linked' = FALSE /\ stream' \subseteq stream
        /\ missed' = missed \cup (stream \ stream')
        /\ UNCHANGED <<ownMessageLock, sender, sending, tried, sentMessageSet,
                      poop, event, accepted, acknowledged, relayed, shown,
                      unanswered>>
    BY <1>1 DEF Disconnect
  <2>2. stream' \cup missed' = stream \cup missed
    BY <2>1
  <2>3. TypeOK'
    BY <2>1
  <2>4. InFlightUpcoming'
    BY <2>1, <2>2
  <2>5. SuppressionsPending'
    BY <2>1, <2>2
  <2>6. EntryPending' /\ OneEvent' /\ EntryWaits'
    BY <2>1, <2>5
  <2>7. LockHeld' /\ OnePost' /\ PastNotInFlight' /\ NoEcho'
    BY <2>1
  <2> QED BY <2>1, <2>3, <2>4, <2>6, <2>7
<1>2. ASSUME NEW m \in Messages, PostedByOther(m) PROVE EchoInv'
  BY <1>2 DEF PostedByOther, Store
<1>3. CASE Reconnect BY <1>3 DEF Reconnect
<1> QED BY <1>1, <1>2, <1>3

\* A stuttering step preserves the invariant.
LEMMA StutterEcho == ASSUME EchoInv, UNCHANGED vars PROVE EchoInv'
  BY DEF EchoInv, TypeOK, LockHeld, OnePost, OneEvent, EntryWaits, Past,
         PastNotInFlight, NoEcho, Messages, vars, InFlightUpcoming, Upcoming,
         EntryPending, SuppressionsPending

\* In every behaviour an acknowledged message whose event is still to come is
\* in the sent queue by the time the event loop looks for it.
THEOREM EchoInvariant == Spec => []EchoInv
<1>1. EchoInv /\ [Next]_vars => EchoInv'
  BY SenderEcho, PoopEcho, NetworkEcho, StutterEcho DEF Next
<1> QED BY InitEcho, <1>1, PTL DEF Spec

\* Every variable keeps its type; sender and poop hold a message exactly while
\* they work on one.
THEOREM TypeCorrect == Spec => []TypeOK
<1>1. EchoInv => TypeOK BY DEF EchoInv
<1> QED BY EchoInvariant, <1>1, PTL

\* The event of a message that PostMessage named is never shown, whatever is
\* lost, refused or disconnected.
THEOREM NoEchoEver == Spec => []NoEcho
<1>1. EchoInv => NoEcho BY DEF EchoInv
<1> QED BY EchoInvariant, <1>1, PTL

\* Every entry of the queue is for an event still to come, or lost for good.
THEOREM SuppressionsAlwaysPending == Spec => []SuppressionsPending
<1>1. EchoInv => SuppressionsPending BY DEF EchoInv, EntryPending
<1> QED BY EchoInvariant, <1>1, PTL

\* An event that is no echo gets past ShouldSuppress in every behaviour.
THEOREM ForeignAlwaysPasses == Spec => ForeignPasses
<1> DEFINE Passes == poop = "check" /\ event \notin Own => event' = event
<1>1. EchoInv /\ [Next]_vars => [Passes]_vars
  <2> SUFFICES ASSUME EchoInv, Next, poop = "check", event \notin Own
               PROVE  event' = event
    OBVIOUS
  <2>1. ShouldSuppress \/ UNCHANGED event
    BY DEF Next, SenderStep, PoopStep, SendLock, PostReachesSlack, PostReturns,
           PostFails, MessageSent, SendUnlock, Relay, PassInhibitor, Emit,
           Unresolved, Receive, Disconnect, Reconnect, SendStart,
           PostedByOther, poopVars
  <2>2. event \notin sentMessageSet
    BY DEF EchoInv, TypeOK
  <2> QED BY <2>1, <2>2 DEF ShouldSuppress
<1> QED BY EchoInvariant, <1>1, PTL DEF Spec, ForeignPasses

(***************************************************************************)
(* One copy, unless a response is lost                                     *)
(***************************************************************************)

\* Of what the sender is done with, Slack has only what it acknowledged, or
\* would have.
DoneWith == relayed \cup (IF sender = "relaying" THEN {sending} ELSE {})
CopyInv ==
  /\ relayed \subseteq tried
  /\ sender # "idle" => sending \notin relayed
  /\ DoneWith \cap accepted \subseteq acknowledged \cup unanswered
  /\ sender \in {"posted", "marking"} => sending \in acknowledged

\* No client gets an own message twice, once from the sender's relay and once
\* from Slack, but for those whose response was lost.
THEOREM OneCopyEver == Spec => []OneCopyIfAnswered
<1> USE MessagesAssumption
    DEF CopyInv, DoneWith, TypeOK, OnePost, Messages, senderVars, poopVars,
        history
<1>1. Init => CopyInv BY DEF Init
<1>2. ASSUME EchoInv, CopyInv, [Next]_vars PROVE CopyInv'
  <2> USE <1>2 DEF EchoInv
  <2>1. CASE SendLock BY <2>1 DEF SendLock
  <2>2. CASE PostReachesSlack BY <2>2 DEF PostReachesSlack, Store
  <2>3. CASE PostReturns BY <2>3 DEF PostReturns
  <2>4. CASE PostFails BY <2>4 DEF PostFails
  <2>5. CASE MessageSent BY <2>5 DEF MessageSent
  <2>6. CASE SendUnlock BY <2>6 DEF SendUnlock
  <2>7. CASE Relay BY <2>7 DEF Relay
  <2>8. ASSUME NEW m \in Own, SendStart(m) PROVE CopyInv'
    BY <2>8 DEF SendStart
  <2>9. ASSUME NEW m \in Messages, PostedByOther(m) PROVE CopyInv'
    BY <2>9 DEF PostedByOther, Store
  <2>10. CASE Disconnect \/ Reconnect BY <2>10 DEF Disconnect, Reconnect
  <2>11. CASE PoopStep
    BY <2>11 DEF PoopStep, PassInhibitor, ShouldSuppress, Emit, Unresolved,
                 Receive
  <2>12. CASE UNCHANGED vars BY <2>12 DEF vars
  <2> QED BY <2>1, <2>2, <2>3, <2>4, <2>5, <2>6, <2>7, <2>8, <2>9, <2>10,
             <2>11, <2>12 DEF Next, SenderStep
<1>3. EchoInv /\ CopyInv => OneCopyIfAnswered
  BY DEF EchoInv, NoEcho, OneCopyIfAnswered
<1> QED BY EchoInvariant, <1>1, <1>2, <1>3, PTL DEF Spec
=============================================================================
