---------------------------- MODULE UserDirectory ----------------------------
(***************************************************************************)
(* The users SlackClient knows: userInfo, and nickToUserMap, its inverse.  *)
(* Several goroutines keep them up to date under SlackClient.RWMutex:      *)
(*                                                                         *)
(*   poop       the event loop: bootstrapMappings on every connection,     *)
(*              user_change, and ResolveUser for the events it handles     *)
(*   resolvers  whoever else calls ResolveUser: the goroutines that fetch  *)
(*              member lists, and the clients that ask for NAMES or TOPIC  *)
(*                                                                         *)
(* and ResolveNickToUser reads both at any time.  No lock is held while    *)
(* Slack is asked, so every operation is split there and at each Unlock.   *)
(*                                                                         *)
(* A user is known by his id; a user record is abstracted to its nick.     *)
(* Slack does not keep nicks (display names) unique.  GetUsers lists the   *)
(* users of the workspace; strangers from shared channels are not listed,  *)
(* but GetUserInfo knows them.  An error of GetUsers ends the program      *)
(* (log.Fatalf) and is left out.                                           *)
(*                                                                         *)
(* Bounds, guards of Slack's and the network's actions only: MaxChanges    *)
(* changes of a user, MaxBreaks losses of the web socket.                  *)
(***************************************************************************)
EXTENDS Naturals, Sequences

CONSTANTS
  Users,       \* ids of users
  Listed,      \* those GetUsers returns
  Me,          \* the gateway's own user
  Nicks,
  None,        \* no nick, no user
  Resolvers,   \* goroutines other than poop that call ResolveUser
  MaxChanges,
  MaxBreaks

ASSUME UsersAssumption ==
  /\ Listed \subseteq Users /\ Me \in Listed
  /\ None \notin Users \cup Nicks
  /\ "poop" \notin Resolvers
  /\ "panic" \notin Users \cup {None}
ASSUME BoundsAssumption == MaxChanges \in Nat /\ MaxBreaks \in Nat

Askers == Resolvers \cup {"poop"}
NickOrNone == Nicks \cup {None}

VARIABLES
  userInfo,       \* SlackClient.userInfo: the nick of each user, or None
  nickToUserMap,  \* SlackClient.nickToUserMap: the user of each nick, or None
  self,           \* SlackClient.self, its nick
  poop,           \* where the event loop is
  listing,        \* what GetUsers returned to bootstrapMappings
  asking,         \* asking[r]: the user r is resolving, or None
  answer,         \* answer[r]: the nick GetUserInfo returned to r, or None
  slackNick,      \* external: the nick of each user in Slack
  stream,         \* external: user_change events poop has not received
  linked,         \* external: the web socket is up
  changes,        \* changes of users so far
  breaks,         \* losses of the web socket so far
  raced,          \* history: users whose record ResolveUser stored over one
                  \* that was there, since the maps were last rebuilt
  owners          \* history: owners[n] are the users that ever had nick n

maps == <<userInfo, nickToUserMap>>
asked == <<asking, answer>>
slack == <<slackNick, stream, linked, changes, breaks, owners>>
vars == <<userInfo, nickToUserMap, self, poop, listing, asking, answer,
          slackNick, stream, linked, changes, breaks, raced, owners>>

TypeOK ==
  /\ userInfo \in [Users -> NickOrNone]
  /\ nickToUserMap \in [Nicks -> Users \cup {None}]
  /\ self \in NickOrNone
  /\ poop \in {"connected", "listed", "swapped", "select", "resolving"}
  /\ listing \in [Users -> NickOrNone]
  /\ asking \in [Askers -> Users \cup {None}]
  /\ answer \in [Askers -> NickOrNone]
  /\ \A r \in Askers : asking[r] = None => answer[r] = None
  /\ poop = "resolving" <=> asking["poop"] # None
  /\ slackNick \in [Users -> Nicks]
  /\ stream \in Seq(Users \X Nicks)
  /\ linked \in BOOLEAN
  /\ changes \in 0 .. MaxChanges
  /\ breaks \in 0 .. MaxBreaks
  /\ raced \subseteq Users
  /\ owners \in [Nicks -> SUBSET Users]

\* NewSlackClient has empty maps, and the first "connected" event is due.
Init ==
  /\ userInfo = [u \in Users |-> None]
  /\ nickToUserMap = [n \in Nicks |-> None]
  /\ self = None
  /\ poop = "connected"
  /\ listing = [u \in Users |-> None]
  /\ asking = [r \in Askers |-> None]
  /\ answer = [r \in Askers |-> None]
  /\ slackNick \in [Users -> Nicks]
  /\ stream = <<>>
  /\ linked = TRUE
  /\ changes = 0 /\ breaks = 0
  /\ raced = {}
  /\ owners = [n \in Nicks |-> {u \in Users : slackNick[u] = n}]

(***************************************************************************)
(* poop: bootstrapMappings                                                 *)
(***************************************************************************)

GetUsers ==
  /\ poop = "connected"
  /\ listing' = [u \in Users |-> IF u \in Listed THEN slackNick[u] ELSE None]
  /\ poop' = "listed"
  /\ UNCHANGED <<maps, self, asked, slack, raced>>

\* The first critical section: the new maps replace the old ones.
SwapMappings ==
  /\ poop = "listed"
  /\ userInfo' = listing
  /\ poop' = "swapped"
  /\ UNCHANGED <<nickToUserMap, self, listing, asked, slack, raced>>

\* The second one: of the users with a nick the last one found wins.  Then
\* cleanupMappings, which finds no nil user, and self is looked up.
RegenerateReverseMappings ==
  /\ poop = "swapped"
  /\ nickToUserMap' \in [Nicks -> Users \cup {None}]
  /\ \A n \in Nicks :
       IF \E u \in Users : userInfo[u] = n
       THEN nickToUserMap'[n] \in {u \in Users : userInfo[u] = n}
       ELSE nickToUserMap'[n] = None
  /\ self' = userInfo[Me]
  /\ raced' = {}
  /\ poop' = "select"
  /\ UNCHANGED <<userInfo, listing, asked, slack>>

(***************************************************************************)
(* poop: user_change                                                       *)
(***************************************************************************)

\* Mutant of Remap: the old nick is unmapped last, even if it is the new one.
RemapThenUnmap(u, n) ==
  nickToUserMap' =
    [m \in Nicks |-> CASE m = userInfo[u] -> None
                       [] m = n /\ m # userInfo[u] -> u
                       [] OTHER -> nickToUserMap[m]]

\* The old nick of u is unmapped if there was one, and the new one mapped.
Remap(u, n) ==
  nickToUserMap' =
    [m \in Nicks |-> CASE m = n -> u
                       [] m # n /\ m = userInfo[u] -> None
                       [] OTHER -> nickToUserMap[m]]

\* Mutant of UserChange: the old nick stays mapped.
UserChangeKeepsNick ==
  /\ poop = "select"
  /\ stream # <<>>
  /\ LET u == Head(stream)[1] n == Head(stream)[2] IN
       /\ nickToUserMap' = [nickToUserMap EXCEPT ![n] = u]
       /\ userInfo' = [userInfo EXCEPT ![u] = n]
       /\ self' = IF u = Me THEN n ELSE self
  /\ stream' = Tail(stream)
  /\ UNCHANGED <<poop, listing, asked, slackNick, linked, changes, breaks,
                 raced, owners>>

\* Mutant of UserChange: self is forgotten.
UserChangeNotSelf ==
  /\ poop = "select"
  /\ stream # <<>>
  /\ LET u == Head(stream)[1] n == Head(stream)[2] IN
       /\ Remap(u, n)
       /\ userInfo' = [userInfo EXCEPT ![u] = n]
  /\ stream' = Tail(stream)
  /\ UNCHANGED <<self, poop, listing, asked, slackNick, linked, changes,
                 breaks, raced, owners>>

\* "Atomically check and replace the old user info object with the new."
UserChange ==
  /\ poop = "select"
  /\ stream # <<>>
  /\ LET u == Head(stream)[1] n == Head(stream)[2] IN
       /\ Remap(u, n)
       /\ userInfo' = [userInfo EXCEPT ![u] = n]
       /\ self' = IF u = Me THEN n ELSE self
  /\ stream' = Tail(stream)
  /\ UNCHANGED <<poop, listing, asked, slackNick, linked, changes, breaks,
                 raced, owners>>

(***************************************************************************)
(* ResolveUser                                                             *)
(***************************************************************************)

\* A miss: r lets the read lock go and asks Slack.  poop resolves the users of
\* the events it handles, and does nothing else meanwhile.  Other goroutines
\* do so once the first bootstrapMappings is over.
ResolveUser(r, u) ==
  /\ asking[r] = None
  /\ IF r = "poop"
     THEN poop = "select" /\ poop' = "resolving"
     ELSE self # None /\ UNCHANGED poop
  /\ userInfo[u] = None
  /\ asking' = [asking EXCEPT ![r] = u]
  /\ UNCHANGED <<maps, self, listing, answer, slack, raced>>

GetUserInfo(r) ==
  /\ asking[r] # None
  /\ answer[r] = None
  /\ answer' = [answer EXCEPT ![r] = slackNick[asking[r]]]
  /\ UNCHANGED <<maps, self, poop, listing, asking, slack, raced>>

\* Mutant of Return: the event loop is not resumed.
ReturnStaysBusy(r) ==
  /\ asking' = [asking EXCEPT ![r] = None]
  /\ answer' = [answer EXCEPT ![r] = None]
  /\ UNCHANGED poop

\* ResolveUser returns to r.
Return(r) ==
  /\ asking' = [asking EXCEPT ![r] = None]
  /\ answer' = [answer EXCEPT ![r] = None]
  /\ poop' = IF r = "poop" THEN "select" ELSE poop

GetUserInfoFails(r) ==
  /\ asking[r] # None
  /\ answer[r] = None
  /\ Return(r)
  /\ UNCHANGED <<maps, self, listing, slack, raced>>

\* The answer is stored, whatever happened since the miss.
StoreUser(r) ==
  /\ answer[r] # None
  /\ LET u == asking[r] IN
       /\ userInfo' = [userInfo EXCEPT ![u] = answer[r]]
       /\ nickToUserMap' = [nickToUserMap EXCEPT ![answer[r]] = u]
       /\ raced' = IF userInfo[u] = None THEN raced ELSE raced \cup {u}
  /\ Return(r)
  /\ UNCHANGED <<self, listing, slack>>

(***************************************************************************)
(* Slack and the network                                                   *)
(***************************************************************************)

\* u changes his nick or some other part of his profile.
Change(u, n) ==
  /\ changes < MaxChanges
  /\ changes' = changes + 1
  /\ slackNick' = [slackNick EXCEPT ![u] = n]
  /\ owners' = [owners EXCEPT ![n] = @ \cup {u}]
  /\ stream' = IF linked THEN Append(stream, <<u, n>>) ELSE stream
  /\ UNCHANGED <<maps, self, poop, listing, asked, linked, breaks, raced>>

\* The web socket breaks; the events it had delivered to the library stay.
Break ==
  /\ linked
  /\ breaks < MaxBreaks
  /\ breaks' = breaks + 1
  /\ linked' = FALSE
  /\ \E k \in 0 .. Len(stream) : stream' = SubSeq(stream, 1, k)
  /\ UNCHANGED <<maps, self, poop, listing, asked, slackNick, changes, raced,
                 owners>>

\* "connected" comes after the events of the old connection.
Reconnect ==
  /\ ~linked
  /\ poop = "select"
  /\ stream = <<>>
  /\ linked' = TRUE
  /\ poop' = "connected"
  /\ UNCHANGED <<maps, self, listing, asked, slackNick, stream, changes,
                 breaks, raced, owners>>

Next ==
  \/ GetUsers \/ SwapMappings \/ RegenerateReverseMappings \/ UserChange
  \/ \E r \in Askers :
       \/ \E u \in Users : ResolveUser(r, u)
       \/ GetUserInfo(r) \/ GetUserInfoFails(r) \/ StoreUser(r)
  \/ \E u \in Users, n \in Nicks : Change(u, n)
  \/ Break \/ Reconnect

Spec == Init /\ [][Next]_vars

(***************************************************************************)
(* Properties                                                              *)
(***************************************************************************)

\* ResolveNickToUser, whenever it gets the read lock: the user, None, or the
\* panic "nickToUserMap had stale data".
ResolveNickToUser(n) ==
  LET u == nickToUserMap[n] IN
    CASE u = None -> None
      [] u # None /\ userInfo[u] = None -> None
      [] u # None /\ userInfo[u] = n -> u
      [] OTHER -> "panic"

\* bootstrapMappings is between its two critical sections.
Reloading == poop = "swapped"

\* The code's own assertion: nickToUserMap never has stale data.
NoStalePanic == \A n \in Nicks : ResolveNickToUser(n) # "panic"

\* Nicks change, are taken over, shared and looked up, strangers come and go
\* and connections break: still the assertion can only fail while the maps are
\* reloaded, or for a user whose record was stored over by a late answer.
StaleOnlyByRace ==
  \A n \in Nicks :
    ~Reloading /\ ResolveNickToUser(n) = "panic" => nickToUserMap[n] \in raced

\* A user with a nick of his own can be written to by the nick he has in the
\* cache, whatever raced.
Findable ==
  \A u \in Users :
    LET n == userInfo[u] IN
      ~Reloading /\ n # None /\ owners[n] = {u} => ResolveNickToUser(n) = u

\* The users of the workspace are never out of date for long: once poop has
\* handled the changes of a user, the cache has his nick, self included, however
\* changes, reconnections and late answers are interleaved.
ListedFresh ==
  poop \in {"select", "resolving"} =>
    /\ self = userInfo[Me]
    /\ \A u \in Listed :
         linked /\ (\A i \in 1 .. Len(stream) : stream[i][1] # u)
           => userInfo[u] = slackNick[u]

\* "ResolveNickToUser takes a nick and fetches a SlackUser with that nick": a
\* cached user's nick is the nick of somebody.
NickResolves ==
  \A u \in Users :
    ~Reloading /\ userInfo[u] # None => nickToUserMap[userInfo[u]] # None
=============================================================================
