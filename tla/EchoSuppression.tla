--------------------------- MODULE EchoSuppression ---------------------------
(***************************************************************************)
(* Two goroutines handle what the gateway's own Slack user says:           *)
(*                                                                         *)
(*   sender   handleIncomingMessageRouting: it posts a client's PRIVMSG    *)
(*            (SlackClient.sendMessage) and relays it to the other clients *)
(*   poop     SlackClient.Poop: it reads the RTM events, and Slack sends   *)
(*            one back for every message posted                            *)
(*                                                                         *)
(* The event may arrive before the response that names the message, so     *)
(* ownMessageLock holds poop back while a post is in flight, and           *)
(* sentMessageSet says which events are echoes.                            *)
(*                                                                         *)
(* A message is what (channel, ts) identifies, unique in a workspace.  The *)
(* set of messages is the bound: each is posted at most once.  Events are  *)
(* delivered in any order, which includes the order of the web socket.     *)
(***************************************************************************)
EXTENDS Naturals

CONSTANTS
  Own,        \* messages typed at this gateway's IRC clients
  Elsewhere,  \* messages of the same Slack user, from his other clients
  Others,     \* messages of other users
  None,       \* no message
  Faults      \* which faults may happen

ASSUME MessagesAssumption ==
  /\ Own \cap Elsewhere = {}
  /\ (Own \cup Elsewhere) \cap Others = {}
  /\ None \notin Own \cup Elsewhere \cup Others
ASSUME FaultsAssumption ==
  Faults \subseteq {"lost_response", "disconnect", "unresolved"}

Messages == Own \cup Elsewhere \cup Others

VARIABLES
  ownMessageLock,  \* the sender holds it (poop never keeps it)
  sender,          \* where the sender is
  sending,         \* the message it works on, or None
  tried,           \* own messages the sender has taken
  sentMessageSet,  \* SentQueue.sentMessageSet
  poop,            \* where the event loop is
  event,           \* the message event it works on, or None
  linked,          \* the RTM web socket is up
  stream,          \* message events poop has not received yet
  accepted,        \* messages that are in Slack
  acknowledged,    \* history: own messages whose PostMessage returned a ts
  relayed,         \* history: own messages the sender passed to the peers
  shown,           \* history: messages whose event went on to the clients
  unanswered,      \* history: own messages in Slack whose PostMessage failed
  missed           \* history: messages whose event was lost with the socket

senderVars == <<ownMessageLock, sender, sending, tried>>
poopVars == <<poop, event>>
history == <<acknowledged, relayed, shown, unanswered, missed>>
vars == <<ownMessageLock, sender, sending, tried, sentMessageSet, poop, event,
          linked, stream, accepted, acknowledged, relayed, shown, unanswered,
          missed>>

TypeOK ==
  /\ ownMessageLock \in BOOLEAN
  /\ sender \in {"idle", "waiting", "posting", "posted", "marking", "relaying"}
  /\ sending \in Own \cup {None}
  /\ sender = "idle" <=> sending = None
  /\ tried \subseteq Own
  /\ sentMessageSet \subseteq Own
  /\ poop \in {"select", "inhibited", "check", "emit"}
  /\ event \in Messages \cup {None}
  /\ poop = "select" <=> event = None
  /\ linked \in BOOLEAN
  /\ stream \subseteq accepted
  /\ accepted \subseteq Messages
  /\ acknowledged \subseteq accepted \cap Own
  /\ relayed \subseteq Own
  /\ shown \subseteq accepted
  /\ unanswered \subseteq accepted \cap Own
  /\ missed \subseteq accepted

Init ==
  /\ ownMessageLock = FALSE
  /\ sender = "idle" /\ sending = None
  /\ tried = {} /\ sentMessageSet = {}
  /\ poop = "select" /\ event = None
  /\ linked = TRUE
  /\ stream = {} /\ accepted = {}
  /\ acknowledged = {} /\ relayed = {} /\ shown = {}
  /\ unanswered = {} /\ missed = {}

\* Slack stores m and sends its event down the web socket, if there is one.
Store(m) ==
  /\ m \notin accepted
  /\ accepted' = accepted \cup {m}
  /\ stream' = IF linked THEN stream \cup {m} ELSE stream
  /\ missed' = IF linked THEN missed ELSE missed \cup {m}

(***************************************************************************)
(* The sender                                                              *)
(***************************************************************************)

\* A PRIVMSG is taken from serverChan.  An empty one, or one to a nick nobody
\* has, is not posted but relayed all the same.
SendStart(m) ==
  /\ sender = "idle"
  /\ m \in Own \ tried
  /\ sending' = m
  /\ tried' = tried \cup {m}
  /\ sender' \in {"waiting", "relaying"}
  /\ UNCHANGED <<ownMessageLock, sentMessageSet, poopVars, linked, stream,
                 accepted, history>>

SendLock ==
  /\ sender = "waiting"
  /\ ~ownMessageLock
  /\ ownMessageLock' = TRUE
  /\ sender' = "posting"
  /\ UNCHANGED <<sending, tried, sentMessageSet, poopVars, linked, stream,
                 accepted, history>>

\* The request reaches Slack; the event may overtake the response.
PostReachesSlack ==
  /\ sender = "posting"
  /\ Store(sending)
  /\ UNCHANGED <<senderVars, sentMessageSet, poopVars, linked, acknowledged,
                 relayed, shown, unanswered>>

PostReturns ==
  /\ sender = "posting"
  /\ sending \in accepted
  /\ acknowledged' = acknowledged \cup {sending}
  /\ sender' = "posted"
  /\ UNCHANGED <<ownMessageLock, sending, tried, sentMessageSet, poopVars,
                 linked, stream, accepted, relayed, shown, unanswered,
                 missed>>

\* err != nil, and the deferred unlock: Slack refused the message, or the
\* response was lost on its way back.
PostFails ==
  /\ sender = "posting"
  /\ sending \in accepted => "lost_response" \in Faults
  /\ unanswered' = IF sending \in accepted THEN unanswered \cup {sending}
                                            ELSE unanswered
  /\ ownMessageLock' = FALSE
  /\ sender' = "relaying"
  /\ UNCHANGED <<sending, tried, sentMessageSet, poopVars, linked, stream,
                 accepted, acknowledged, relayed, shown, missed>>

\* Mutant of MessageSent: the lock is let go before the queue is updated.
MessageSentUnlocked ==
  /\ sender = "posted"
  /\ IF ownMessageLock
     THEN ownMessageLock' = FALSE /\ UNCHANGED <<sender, sentMessageSet>>
     ELSE /\ sentMessageSet' = sentMessageSet \cup {sending}
          /\ sender' = "marking" /\ UNCHANGED ownMessageLock
  /\ UNCHANGED <<sending, tried, poopVars, linked, stream, accepted, history>>

MessageSent ==
  /\ sender = "posted"
  /\ sentMessageSet' = sentMessageSet \cup {sending}
  /\ sender' = "marking"
  /\ UNCHANGED <<ownMessageLock, sending, tried, poopVars, linked, stream,
                 accepted, history>>

\* Mutant of SendUnlock: the lock is kept.
SendKeepsLock ==
  /\ sender = "marking"
  /\ sender' = "relaying"
  /\ UNCHANGED <<ownMessageLock, sending, tried, sentMessageSet, poopVars,
                 linked, stream, accepted, history>>

\* MarkConversation starts a timer and returns; the deferred unlock.
SendUnlock ==
  /\ sender = "marking"
  /\ ownMessageLock' = FALSE
  /\ sender' = "relaying"
  /\ UNCHANGED <<sending, tried, sentMessageSet, poopVars, linked, stream,
                 accepted, history>>

\* The PRIVMSG goes to every client but its originator, posted or not.
Relay ==
  /\ sender = "relaying"
  /\ relayed' = relayed \cup {sending}
  /\ sender' = "idle"
  /\ sending' = None
  /\ UNCHANGED <<ownMessageLock, tried, sentMessageSet, poopVars, linked,
                 stream, accepted, acknowledged, shown, unanswered, missed>>

(***************************************************************************)
(* poop: the event loop                                                    *)
(***************************************************************************)

Receive(m) ==
  /\ poop = "select"
  /\ m \in stream
  /\ stream' = stream \ {m}
  /\ event' = m
  /\ poop' = IF m \in Others THEN "emit" ELSE "inhibited"
  /\ UNCHANGED <<senderVars, sentMessageSet, linked, accepted, history>>

\* Mutant of PassInhibitor: nothing holds the event back.
PassAlways ==
  /\ poop = "inhibited"
  /\ poop' = "check"
  /\ UNCHANGED <<senderVars, sentMessageSet, event, linked, stream, accepted,
                 history>>

\* ownMessageLock.Lock(); ownMessageLock.Unlock()
PassInhibitor ==
  /\ poop = "inhibited"
  /\ ~ownMessageLock
  /\ poop' = "check"
  /\ UNCHANGED <<senderVars, sentMessageSet, event, linked, stream, accepted,
                 history>>

\* Mutant of Done: the handler's event is not let go.
DoneKeepsEvent == poop' = "select" /\ UNCHANGED event

\* The message handler is done with its event.
Done == poop' = "select" /\ event' = None

\* Mutant of ShouldSuppress: the entry stays.
ShouldSuppressKeeps ==
  /\ poop = "check"
  /\ IF event \in sentMessageSet
     THEN Done
     ELSE poop' = "emit" /\ UNCHANGED event
  /\ UNCHANGED <<senderVars, sentMessageSet, linked, stream, accepted,
                 history>>

\* Mutant of ShouldSuppress: any event is taken for the echo that is due.
ShouldSuppressAny ==
  /\ poop = "check"
  /\ sentMessageSet' = {}
  /\ IF sentMessageSet # {}
     THEN Done
     ELSE poop' = "emit" /\ UNCHANGED event
  /\ UNCHANGED <<senderVars, linked, stream, accepted, history>>

ShouldSuppress ==
  /\ poop = "check"
  /\ sentMessageSet' = sentMessageSet \ {event}
  /\ IF event \in sentMessageSet
     THEN Done
     ELSE poop' = "emit" /\ UNCHANGED event
  /\ UNCHANGED <<senderVars, linked, stream, accepted, history>>

\* incomingChan <- messageEvent, for each line of the message.
Emit ==
  /\ poop = "emit"
  /\ shown' = shown \cup {event}
  /\ Done
  /\ UNCHANGED <<senderVars, sentMessageSet, linked, stream, accepted,
                 acknowledged, relayed, unanswered, missed>>

\* ResolveUser, ResolveDMToUser or ResolveChannel fails: the event is dropped.
Unresolved ==
  /\ "unresolved" \in Faults
  /\ poop = "emit"
  /\ Done
  /\ UNCHANGED <<senderVars, sentMessageSet, linked, stream, accepted,
                 history>>

\* "connected": bootstrapMappings runs in the event loop and leaves the sent
\* message queue as it is.
Reconnect ==
  /\ poop = "select"
  /\ ~linked
  /\ linked' = TRUE
  /\ UNCHANGED <<senderVars, sentMessageSet, poopVars, stream, accepted,
                 history>>

(***************************************************************************)
(* Slack and the network                                                   *)
(***************************************************************************)

PostedByOther(m) ==
  /\ m \in Elsewhere \cup Others
  /\ Store(m)
  /\ UNCHANGED <<senderVars, sentMessageSet, poopVars, linked, acknowledged,
                 relayed, shown, unanswered>>

\* The web socket breaks: of the events on it some are lost.
Disconnect ==
  /\ "disconnect" \in Faults
  /\ linked
  /\ linked' = FALSE
  /\ stream' \in SUBSET stream
  /\ missed' = missed \cup (stream \ stream')
  /\ UNCHANGED <<senderVars, sentMessageSet, poopVars, accepted, acknowledged,
                 relayed, shown, unanswered>>

SenderStep ==
  \/ SendLock \/ PostReachesSlack \/ PostReturns \/ PostFails \/ MessageSent
  \/ SendUnlock \/ Relay

PoopStep ==
  \/ PassInhibitor \/ ShouldSuppress \/ Emit \/ Unresolved
  \/ \E m \in Messages : Receive(m)

Next ==
  \/ SenderStep \/ PoopStep \/ Disconnect \/ Reconnect
  \/ \E m \in Own : SendStart(m)
  \/ \E m \in Messages : PostedByOther(m)

Spec == Init /\ [][Next]_vars

\* Both goroutines run; a PostMessage call returns, one way or the other; events
\* are not held back for ever by a socket that keeps breaking.
FairSpec == Spec /\ WF_vars(SenderStep) /\ WF_vars(PoopStep)

(***************************************************************************)
(* Safety                                                                  *)
(***************************************************************************)

\* No echo: once PostMessage has named a message, its event never reaches the
\* clients, whether it comes before the response, after it, or after later
\* messages.  The originator would see his own line come back.
NoEcho == acknowledged \cap shown = {}

\* A client gets an own message twice, from the sender's relay and from Slack,
\* only if the response to its post was lost.
OneCopyIfAnswered == relayed \cap shown \subseteq unanswered

\* SentQueue "handles de-deuplication of messages originating from this
\* gateway": no client gets an own message twice.
OneCopy == relayed \cap shown = {}

\* A pending suppression is for an event that is yet to come, or never will:
\* the queue holds nothing that was shown, or suppressed and could be
\* suppressed again.
SuppressionsPending == sentMessageSet \subseteq stream \cup {event} \cup missed

\* A message that was not typed here is not taken for an echo, whatever is
\* being posted or pending at the time.
ForeignPasses ==
  [][poop = "check" /\ event \notin Own => event' = event]_vars

(***************************************************************************)
(* Liveness                                                                *)
(***************************************************************************)

\* The event loop is not held back for ever by posts.
PoopReturns == poop # "select" ~> poop = "select"

\* Every suppression whose event arrives is used up.
QueueDrains ==
  \A m \in Own : m \in sentMessageSet ~> (m \notin sentMessageSet \/ m \in missed)
=============================================================================
