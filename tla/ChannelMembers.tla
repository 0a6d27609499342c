--------------------------- MODULE ChannelMembers ---------------------------
(***************************************************************************)
(* SlackClient.channelMembers, the members of the channels somebody asked  *)
(* for (gateway/channel_users.go), under SlackClient.RWMutex:              *)
(*                                                                         *)
(*   poop      empties the cache on every connection and keeps it up to    *)
(*             date with the joins and parts Slack tells of                *)
(*   fetchers  whoever calls GetChannelUsers: the goroutines of            *)
(*             bootstrapChannelUserList, main, and the clients that ask    *)
(*             for NAMES or WHO                                            *)
(*                                                                         *)
(* No lock is held while Slack is asked, nor between the two critical      *)
(* sections of a join or a part.  A member is abstracted to his id.  The   *)
(* pages of an answer are one answer, and the users in it, which           *)
(* ResolveUser looks up one by one, come with it or not at all.            *)
(*                                                                         *)
(* Slack tells the gateway of its own moves and, in the channels it is in, *)
(* of the others'.  The event poop is handling stays at the head of        *)
(* stream.                                                                 *)
(*                                                                         *)
(* Bounds, guards of Slack's and the network's actions only: MaxMoves      *)
(* joins and parts, MaxBreaks losses of the web socket.                    *)
(***************************************************************************)
EXTENDS Naturals, Sequences

CONSTANTS
  Channels,
  Users,
  Me,         \* the gateway's own user
  None,       \* no channel, no answer
  Fetchers,   \* goroutines in GetChannelUsers
  MaxMoves,
  MaxBreaks

ASSUME MembersAssumption ==
  /\ Me \in Users
  /\ None \notin Channels
  /\ \A m \in SUBSET Users : m # None
ASSUME MembersBounds == MaxMoves \in Nat /\ MaxBreaks \in Nat

VARIABLES
  cached,        \* the keys of channelMembers
  members,       \* channelMembers[c], for c in cached
  memberships,   \* the keys of channelMemberships
  poop,          \* where the event loop is
  listing,       \* the memberships GetConversations returned
  boots,         \* bootstrapChannelUserList goroutines that have to start
  booting,       \* channels whose bootstrap goroutine has to start
  asking,        \* asking[f]: the channel f asks Slack about, or None
  answer,        \* answer[f]: the members Slack returned to f, or None
  slackMembers,  \* external: the members of each channel in Slack
  stream,        \* external: joins and parts poop has not handled
  linked,        \* external: the web socket is up
  moves,         \* joins and parts so far
  breaks,        \* losses of the web socket so far
  late,          \* history: fetchers whose answer was overtaken: since it was
                 \* given, a move of its channel was handled, or the gateway
                 \* reconnected
  doubtful,      \* history: channels whose entry was stored from a late answer,
                 \* or lacks a move that could not be resolved
  untold         \* history: channels with moves since the last connection that
                 \* Slack did not tell of

cache == <<cached, members, memberships>>
fetch == <<boots, booting, asking, answer>>
slack == <<slackMembers, linked, moves, breaks>>
history == <<late, doubtful, untold>>
vars == <<cached, members, memberships, poop, listing, boots, booting, asking,
          answer, slackMembers, stream, linked, moves, breaks, late, doubtful,
          untold>>

\* A join or a part of a user in a channel.
Events == [chan : Channels, user : Users, in : BOOLEAN]

\* The members of c after event e.
After(e, m) == IF e.in THEN m \cup {e.user} ELSE m \ {e.user}

TypeOK ==
  /\ cached \subseteq Channels
  /\ members \in [Channels -> SUBSET Users]
  /\ memberships \subseteq Channels /\ listing \subseteq Channels
  /\ poop \in {"connected", "listed", "select", "found"}
  /\ poop = "found" => stream # <<>>
  /\ boots \in Nat /\ booting \subseteq Channels
  /\ asking \in [Fetchers -> Channels \cup {None}]
  /\ answer \in [Fetchers -> {None} \cup SUBSET Users]
  /\ \A f \in Fetchers : asking[f] = None => answer[f] = None
  /\ slackMembers \in [Channels -> SUBSET Users]
  /\ stream \in Seq(Events)
  /\ linked \in BOOLEAN
  /\ moves \in 0 .. MaxMoves /\ breaks \in 0 .. MaxBreaks
  /\ late \subseteq Fetchers /\ doubtful \subseteq Channels
  /\ untold \subseteq Channels

\* NewSlackClient has empty maps, and the first "connected" event is due.
Init ==
  /\ cached = {} /\ members = [c \in Channels |-> {}]
  /\ memberships = {} /\ listing = {}
  /\ poop = "connected"
  /\ boots = 0 /\ booting = {}
  /\ asking = [f \in Fetchers |-> None]
  /\ answer = [f \in Fetchers |-> None]
  /\ slackMembers \in [Channels -> SUBSET Users]
  /\ stream = <<>>
  /\ linked = TRUE
  /\ moves = 0 /\ breaks = 0
  /\ late = {} /\ doubtful = {} /\ untold = {}

\* The fetchers that have an answer about c.
Holding(c) == {f \in Fetchers : asking[f] = c /\ answer[f] # None}

(***************************************************************************)
(* poop: bootstrapMappings on "connected"                                  *)
(***************************************************************************)

GetConversations ==
  /\ poop = "connected"
  /\ listing' = {c \in Channels : Me \in slackMembers[c]}
  /\ poop' = "listed"
  /\ UNCHANGED <<cache, fetch, slack, stream, history>>

\* Mutant of SwapMappings: the member cache survives the reconnection.
SwapKeepsMembers ==
  /\ poop = "listed"
  /\ memberships' = listing
  /\ boots' = boots + 1
  /\ poop' = "select"
  /\ doubtful' = {}
  /\ UNCHANGED <<cached, members, listing, booting, asking, answer, slack,
                 stream, late,
                 untold>>

\* The new maps replace the old ones, and the member lists are fetched anew by
\* a goroutine of their own.
SwapMappings ==
  /\ poop = "listed"
  /\ memberships' = listing
  /\ cached' = {}
  /\ boots' = boots + 1
  /\ poop' = "select"
  /\ doubtful' = {}
  /\ UNCHANGED <<members, listing, booting, asking, answer, slack, stream, late,
                 untold>>

\* bootstrapChannelUserList reads the memberships and starts a goroutine each.
BootstrapChannelUserList ==
  /\ boots > 0
  /\ boots' = boots - 1
  /\ booting' = booting \cup memberships
  /\ UNCHANGED <<cache, poop, listing, asking, answer, slack, stream, history>>

(***************************************************************************)
(* GetChannelUsers                                                         *)
(***************************************************************************)

\* f looks c up, for the bootstrap or for main or a client, who may ask at any
\* time.  A hit changes nothing; on a miss Slack is asked with the lock let go.
GetChannelUsers(f, c) ==
  /\ asking[f] = None
  /\ \/ booting' = booting \ {c}
     \/ UNCHANGED booting
  /\ asking' = IF c \in cached THEN asking ELSE [asking EXCEPT ![f] = c]
  /\ UNCHANGED <<cache, poop, listing, boots, answer, slack, stream, history>>

GetUsersInConversation(f) ==
  /\ asking[f] # None /\ answer[f] = None
  /\ answer' = [answer EXCEPT ![f] = slackMembers[asking[f]]]
  /\ late' = late \ {f}
  /\ UNCHANGED <<cache, poop, listing, boots, booting, asking, slack, stream,
                 doubtful, untold>>

\* Mutant of Return: the answer is kept.
ReturnKeepsAnswer(f) ==
  /\ asking' = [asking EXCEPT ![f] = None]
  /\ UNCHANGED answer

\* GetChannelUsers returns to f.
Return(f) ==
  /\ asking' = [asking EXCEPT ![f] = None]
  /\ answer' = [answer EXCEPT ![f] = None]

\* Mutant of FetchFails: the entry somebody else stored goes too.
FetchFailsEvicts(f) ==
  /\ asking[f] # None
  /\ Return(f)
  /\ cached' = cached \ {asking[f]}
  /\ UNCHANGED <<members, memberships, poop, listing, boots, booting, slack,
                 stream, history>>

\* Slack returns an error, or a user in its answer cannot be resolved.
FetchFails(f) ==
  /\ asking[f] # None
  /\ Return(f)
  /\ UNCHANGED <<cache, poop, listing, boots, booting, slack, stream, history>>

\* The answer is stored, whatever happened since the miss.
StoreMembers(f) ==
  /\ answer[f] # None
  /\ LET c == asking[f] IN
       /\ cached' = cached \cup {c}
       /\ members' = [members EXCEPT ![c] = answer[f]]
       /\ doubtful' = IF f \in late THEN doubtful \cup {c} ELSE doubtful \ {c}
  /\ Return(f)
  /\ UNCHANGED <<memberships, poop, listing, boots, booting, slack, stream,
                 late, untold>>

(***************************************************************************)
(* poop: handleMemberJoinedChannel and handleMemberLeftChannel             *)
(***************************************************************************)

\* The event at the head of the stream is done with.
Handled ==
  /\ stream' = Tail(stream)
  /\ late' = late \cup Holding(Head(stream).chan)
  /\ poop' = "select"

\* The user or the channel cannot be resolved: the event becomes a complaint,
\* and the cache is not touched.
MoveUnresolved ==
  /\ poop = "select" /\ stream # <<>>
  /\ Handled
  /\ doubtful' = doubtful \cup {Head(stream).chan}
  /\ UNCHANGED <<cache, listing, fetch, slack, untold>>

\* Under the read lock: is the channel cached?
FindEntry ==
  /\ poop = "select" /\ stream # <<>>
  /\ IF Head(stream).chan \in cached
     THEN poop' = "found" /\ UNCHANGED <<stream, late,
                 untold>>
     ELSE Handled
  /\ UNCHANGED <<cache, listing, fetch, slack, doubtful,
                 untold>>

\* Under the write lock, which was let go in between: the entry is updated.
WriteMember ==
  /\ poop = "found"
  /\ LET e == Head(stream)
     IN members' = [members EXCEPT ![e.chan] = After(e, @)]
  /\ Handled
  /\ UNCHANGED <<cached, memberships, listing, fetch, slack, doubtful,
                 untold>>

(***************************************************************************)
(* Slack and the network                                                   *)
(***************************************************************************)

\* u joins or leaves c; the gateway is told if it is its own user or in c.
Move(c, u) ==
  /\ moves < MaxMoves
  /\ moves' = moves + 1
  /\ LET e == [chan |-> c, user |-> u, in |-> u \notin slackMembers[c]]
         told == u = Me \/ Me \in slackMembers[c]
     IN /\ slackMembers' = [slackMembers EXCEPT ![c] = After(e, @)]
        /\ IF linked /\ told
           THEN stream' = Append(stream, e) /\ UNCHANGED untold
           ELSE untold' = untold \cup {c} /\ UNCHANGED stream
  /\ UNCHANGED <<cache, poop, listing, fetch, linked, breaks, late, doubtful>>

\* The web socket breaks; the events it had delivered to the library stay.
Break ==
  /\ linked
  /\ breaks < MaxBreaks
  /\ breaks' = breaks + 1
  /\ linked' = FALSE
  /\ \E k \in 0 .. Len(stream) :
       /\ poop = "found" => k > 0
       /\ stream' = SubSeq(stream, 1, k)
  /\ UNCHANGED <<cache, poop, listing, fetch, slackMembers, moves, history>>

\* "connected" comes after the events of the old connection.
Reconnect ==
  /\ ~linked
  /\ poop = "select" /\ stream = <<>>
  /\ linked' = TRUE
  /\ poop' = "connected"
  /\ late' = Fetchers
  /\ untold' = {}
  /\ UNCHANGED <<cache, listing, fetch, slackMembers, stream, moves, breaks,
                 doubtful>>

Next ==
  \/ GetConversations \/ SwapMappings \/ BootstrapChannelUserList
  \/ \E f \in Fetchers :
       \/ \E c \in Channels : GetChannelUsers(f, c)
       \/ GetUsersInConversation(f) \/ FetchFails(f) \/ StoreMembers(f)
  \/ MoveUnresolved \/ FindEntry \/ WriteMember
  \/ \E c \in Channels, u \in Users : Move(c, u)
  \/ Break \/ Reconnect

Spec == Init /\ [][Next]_vars

(***************************************************************************)
(* Properties                                                              *)
(***************************************************************************)

\* No move of u in c is waiting to be handled.
Settled(c, u) ==
  \A i \in 1 .. Len(stream) : stream[i].chan # c \/ stream[i].user # u

\* Once the moves of a user in a channel have been handled, the cached entry
\* says of him what Slack says, however joins, parts, fetches, failures and
\* reconnections are interleaved; but for the entries stored from an answer
\* that a move or a reconnection overtook, those of channels whose moves Slack
\* does not tell of, and those whose event could not be resolved.
MembersFresh ==
  linked /\ poop \in {"select", "found"} =>
    \A c \in cached \ (doubtful \cup untold), u \in Users :
      Settled(c, u) => (u \in members[c] <=> u \in slackMembers[c])

\* The entry poop found under the read lock is still there under the write
\* lock: a write to a missing one would be to a nil map, which panics.
EntryStays == poop = "found" => Head(stream).chan \in cached
=============================================================================
