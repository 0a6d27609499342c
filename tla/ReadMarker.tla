------------------------------ MODULE ReadMarker ------------------------------
(***************************************************************************)
(* ConversationMarker: each message the gateway posts moves the read       *)
(* cursor of its conversation, Delay seconds later and only if no message  *)
(* was posted there meanwhile.  Every call of MarkConversation starts a    *)
(* goroutine that sleeps, looks at the map under the lock, and calls Slack *)
(* after it let the lock go.                                               *)
(*                                                                         *)
(* A timestamp is the number of its post: sendMessage calls                *)
(* MarkConversation under ownMessageLock, in the order of Slack's          *)
(* timestamps.  Time is counted in ticks; a goroutine may wake late and a  *)
(* call of the API may take long, by any amount: the code sets no timeout. *)
(*                                                                         *)
(* Bounds: Stamps posts, and MaxTime ticks.  No post is made so late that  *)
(* its delay would not fit.                                                *)
(***************************************************************************)
EXTENDS Naturals

CONSTANTS
  Conversations,
  MaxPosts,     \* bound: messages posted
  MaxTime,      \* bound: ticks
  Delay         \* the 5 seconds of markConversationDelayed

ASSUME BoundsAssumption ==
  MaxPosts \in Nat /\ MaxTime \in Nat /\ Delay \in Nat

Stamps == 1 .. MaxPosts

VARIABLES
  now,         \* the clock
  posted,      \* number of posts so far; the last timestamp
  cursorMap,   \* conversationToReadCursorMap; 0 stands for no entry
  marker,      \* marker[t]: where the goroutine of timestamp t is
  target,      \* target[t]: the conversation of post t; Init settles it for the
               \* posts to come, and no step changes it
  started,     \* started[t]: when MarkConversation started it
  checked,     \* checked[t]: when it looked at the map
  readCursor,  \* external: Slack's read cursor of each conversation
  cleared      \* history: the last timestamp before the latest Reset

goroutines == <<marker, target, started, checked>>
vars == <<now, posted, cursorMap, marker, target, started, checked,
          readCursor, cleared>>

TypeOK ==
  /\ now \in Nat
  /\ posted \in 0 .. MaxPosts
  /\ cleared \in 0 .. posted
  /\ cursorMap \in [Conversations -> 0 .. MaxPosts]
  /\ marker \in [Stamps -> {"unborn", "sleeping", "calling", "marked",
                            "failed", "dropped"}]
  /\ \A t \in Stamps : marker[t] = "unborn" <=> t > posted
  /\ target \in [Stamps -> Conversations]
  /\ started \in [Stamps -> Nat]
  /\ checked \in [Stamps -> Nat]
  /\ readCursor \in [Conversations -> 0 .. MaxPosts]

Init ==
  /\ now = 0 /\ posted = 0 /\ cleared = 0
  /\ cursorMap = [c \in Conversations |-> 0]
  /\ marker = [t \in Stamps |-> "unborn"]
  /\ target \in [Stamps -> Conversations]
  /\ started = [t \in Stamps |-> 0]
  /\ checked = [t \in Stamps |-> 0]
  /\ readCursor = [c \in Conversations |-> 0]

\* Mutant of MarkConversation: the map keeps the timestamp it has.
MarkConversationKeepsFirst(t) ==
  /\ t = posted + 1
  /\ now + Delay <= MaxTime
  /\ posted' = t
  /\ cursorMap' = [cursorMap EXCEPT ![target[t]] = IF @ = 0 THEN t ELSE @]
  /\ marker' = [marker EXCEPT ![t] = "sleeping"]
  /\ started' = [started EXCEPT ![t] = now]
  /\ UNCHANGED <<now, target, checked, readCursor, cleared>>

\* Mutant of MarkConversation: no goroutine is started.
MarkConversationForgets(t) ==
  /\ t = posted + 1
  /\ now + Delay <= MaxTime
  /\ posted' = t
  /\ cursorMap' = [cursorMap EXCEPT ![target[t]] = t]
  /\ UNCHANGED <<now, goroutines, readCursor, cleared>>

\* sendMessage posted t: the map points at t, and t's goroutine goes to sleep.
MarkConversation(t) ==
  /\ t = posted + 1
  /\ now + Delay <= MaxTime
  /\ posted' = t
  /\ cursorMap' = [cursorMap EXCEPT ![target[t]] = t]
  /\ marker' = [marker EXCEPT ![t] = "sleeping"]
  /\ started' = [started EXCEPT ![t] = now]
  /\ UNCHANGED <<now, target, checked, readCursor, cleared>>

\* Mutant of MarkConversationDelayed: the map is not looked at.
MarkConversationAnyway(t) ==
  /\ marker[t] = "sleeping"
  /\ now >= started[t] + Delay
  /\ checked' = [checked EXCEPT ![t] = now]
  /\ marker' = [marker EXCEPT ![t] = "calling"]
  /\ UNCHANGED <<now, posted, cursorMap, target, started, readCursor, cleared>>

\* Mutant of MarkConversationDelayed: it does not sleep.
MarkConversationAtOnce(t) ==
  /\ marker[t] = "sleeping"
  /\ checked' = [checked EXCEPT ![t] = now]
  /\ marker' = [marker EXCEPT ![t] = IF cursorMap[target[t]] = t
                                     THEN "calling" ELSE "dropped"]
  /\ UNCHANGED <<now, posted, cursorMap, target, started, readCursor, cleared>>

\* Mutant of MarkConversationDelayed: only an older entry is superseded.
MarkConversationOrNewer(t) ==
  /\ marker[t] = "sleeping"
  /\ now >= started[t] + Delay
  /\ checked' = [checked EXCEPT ![t] = now]
  /\ marker' = [marker EXCEPT ![t] = IF cursorMap[target[t]] <= t
                                     THEN "calling" ELSE "dropped"]
  /\ UNCHANGED <<now, posted, cursorMap, target, started, readCursor, cleared>>

\* The sleep is over: shouldMark is whether the map still points at t.
MarkConversationDelayed(t) ==
  /\ marker[t] = "sleeping"
  /\ now >= started[t] + Delay
  /\ checked' = [checked EXCEPT ![t] = now]
  /\ marker' = [marker EXCEPT ![t] = IF cursorMap[target[t]] = t
                                     THEN "calling" ELSE "dropped"]
  /\ UNCHANGED <<now, posted, cursorMap, target, started, readCursor, cleared>>

\* sc.MarkConversation, with no lock held: Slack sets the cursor ...
Marked(t) ==
  /\ marker[t] = "calling"
  /\ readCursor' = [readCursor EXCEPT ![target[t]] = t]
  /\ marker' = [marker EXCEPT ![t] = "marked"]
  /\ UNCHANGED <<now, posted, cursorMap, target, started, checked, cleared>>

\* ... or the call fails, which is logged.
MarkFails(t) ==
  /\ marker[t] = "calling"
  /\ marker' = [marker EXCEPT ![t] = "failed"]
  /\ UNCHANGED <<now, posted, cursorMap, target, started, checked, readCursor,
                 cleared>>

\* bootstrapMappings: the map is replaced by an empty one.
Reset ==
  /\ cursorMap' = [c \in Conversations |-> 0]
  /\ cleared' = posted
  /\ UNCHANGED <<now, posted, goroutines, readCursor>>

\* A tick of the clock, whoever sleeps or calls.
Tick ==
  /\ now < MaxTime
  /\ now' = now + 1
  /\ UNCHANGED <<posted, cursorMap, goroutines, readCursor, cleared>>

Wake == \E t \in Stamps : MarkConversationDelayed(t)
Answer == \E t \in Stamps : Marked(t) \/ MarkFails(t)

Next ==
  \/ \E t \in Stamps : MarkConversation(t)
  \/ Wake \/ Answer \/ Reset \/ Tick

Spec == Init /\ [][Next]_vars

\* Time goes on, sleepers wake, calls of the API end.
FairSpec == Spec /\ WF_vars(Wake) /\ WF_vars(Answer) /\ WF_vars(Tick)

(***************************************************************************)
(* Properties.                                                             *)
(***************************************************************************)

\* The goroutine of t went on to call Slack.
Called(t) == marker[t] \in {"calling", "marked", "failed"}

\* "Subsequent calls within the delay period supercede prior calls": when
\* Slack is called for a message, the next one of the same conversation was
\* posted no earlier than the call, hence after the first one's delay; and the
\* calls of a conversation are at least the delay apart, however fast somebody
\* types and however late the goroutines wake.
Debounced ==
  \A t, u \in Stamps :
    t < u /\ target[t] = target[u] /\ Called(t) =>
      /\ marker[u] # "unborn" => started[u] >= checked[t]
      /\ checked[t] >= started[t] + Delay
      /\ Called(u) => checked[u] >= checked[t] + Delay

\* The calls are made with no lock held, so the one for an older message may
\* reach Slack after that for a newer one and move the read cursor back.  Only a
\* call under way for the whole delay does: the newer message was posted after
\* the older one's goroutine had looked, and slept for the delay itself.
CursorAdvances ==
  [][\A c \in Conversations :
       readCursor'[c] < readCursor[c] =>
         \E t \in Stamps :
           /\ target[t] = c
           /\ marker[t] = "calling" /\ marker'[t] = "marked"
           /\ now >= checked[t] + Delay]_vars

\* "Reset clears any pending conversation mark events": what sleeps when the
\* gateway reconnects never calls Slack.
ResetDrops ==
  [][\A t \in Stamps :
       marker[t] = "sleeping" /\ t <= cleared => marker'[t] # "calling"]_vars

\* The last message of a burst is not superseded by an earlier one: Slack is
\* called for it, unless the gateway reconnects or somebody goes on typing.
LastCalled ==
  \A t \in Stamps :
    marker[t] = "sleeping"
      ~> \/ Called(t)
         \/ t <= cleared
         \/ \E u \in Stamps : u > t /\ u <= posted /\ target[u] = target[t]
=============================================================================
