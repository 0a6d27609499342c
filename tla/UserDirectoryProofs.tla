------------------------- MODULE UserDirectoryProofs -------------------------
(***************************************************************************)
(* StaleOnlyByRace, Findable and ListedFresh of UserDirectory, for any     *)
(* users, nicks and goroutines and any number of changes and connections.  *)
(*                                                                         *)
(* Each rests on an invariant of its own: Exact says where an entry of the *)
(* inverse map that is not raced points, Owned that no nick is made up,    *)
(* and Fresh that what is in the cache and what is in the stream together  *)
(* amount to what Slack has.                                               *)
(***************************************************************************)
EXTENDS UserDirectory, SequenceTheorems, TLAPS

Events == Users \X Nicks

(***************************************************************************)
(* Types                                                                   *)
(***************************************************************************)

\* Initially nothing is known and the event loop is about to load the users.
LEMMA InitType == Init => TypeOK
  BY UsersAssumption, BoundsAssumption, EmptySeq
  DEF Init, TypeOK, Askers, NickOrNone

\* What user_change does with the event at the head of the stream.
LEMMA Handled ==
  ASSUME TypeOK, UserChange
  PROVE  \E u \in Users, n \in Nicks :
           /\ u = Head(stream)[1] /\ n = Head(stream)[2]
           /\ userInfo' = [userInfo EXCEPT ![u] = n]
           /\ nickToUserMap' \in [Nicks -> Users \cup {None}]
           /\ nickToUserMap'[n] = u
           /\ \A m \in Nicks \ {n} :
                nickToUserMap'[m] = IF m = userInfo[u] THEN None
                                    ELSE nickToUserMap[m]
           /\ self' = IF u = Me THEN n ELSE self
<1> DEFINE u == Head(stream)[1]
           n == Head(stream)[2]
<1>1. u \in Users /\ n \in Nicks
  BY HeadTailProperties DEF UserChange, TypeOK
<1>2. /\ userInfo' = [userInfo EXCEPT ![u] = n]
      /\ self' = IF u = Me THEN n ELSE self
      /\ Remap(u, n)
  BY DEF UserChange
<1> HIDE DEF u, n
<1>3. /\ nickToUserMap' \in [Nicks -> Users \cup {None}]
      /\ nickToUserMap'[n] = u
      /\ \A m \in Nicks \ {n} :
           nickToUserMap'[m] = IF m = userInfo[u] THEN None
                               ELSE nickToUserMap[m]
  BY <1>1, <1>2 DEF Remap, TypeOK
<1> QED BY <1>1, <1>2, <1>3 DEF u, n

\* The event loop's loading and user_change keep the types.
LEMMA PoopType ==
  ASSUME TypeOK,
         GetUsers \/ SwapMappings \/ RegenerateReverseMappings \/ UserChange
  PROVE  TypeOK'
<1> USE DEF TypeOK, NickOrNone, asked, slack, maps
<1>1. CASE GetUsers
  BY <1>1 DEF GetUsers
<1>2. CASE SwapMappings
  BY <1>2 DEF SwapMappings
<1>3. CASE RegenerateReverseMappings
  BY <1>3, UsersAssumption DEF RegenerateReverseMappings
<1>4. CASE UserChange
  <2>1. Head(stream) \in Events /\ Tail(stream) \in Seq(Events)
    BY <1>4, HeadTailProperties DEF UserChange, Events
  <2>2. PICK u \in Users, n \in Nicks :
          /\ userInfo' = [userInfo EXCEPT ![u] = n]
          /\ nickToUserMap' \in [Nicks -> Users \cup {None}]
          /\ self' = IF u = Me THEN n ELSE self
    BY <1>4, Handled
  <2> QED BY <1>4, <2>1, <2>2 DEF UserChange, Events
<1> QED BY <1>1, <1>2, <1>3, <1>4

\* ResolveUser keeps the types, whoever calls it.
LEMMA ResolveType ==
  ASSUME TypeOK, NEW r \in Askers,
         \/ \E u \in Users : ResolveUser(r, u)
         \/ GetUserInfo(r) \/ GetUserInfoFails(r) \/ StoreUser(r)
  PROVE  TypeOK'
<1> USE UsersAssumption DEF TypeOK, NickOrNone, asked, slack, maps
<1>1. ASSUME NEW u \in Users, ResolveUser(r, u) PROVE TypeOK'
  BY <1>1 DEF ResolveUser, Askers
<1>2. CASE GetUserInfo(r)
  BY <1>2 DEF GetUserInfo, Askers
<1>3. CASE GetUserInfoFails(r)
  BY <1>3 DEF GetUserInfoFails, Return, Askers
<1>4. CASE StoreUser(r)
  BY <1>4 DEF StoreUser, Return, Askers
<1> QED BY <1>1, <1>2, <1>3, <1>4

\* So do Slack and the network.
LEMMA SlackType ==
  ASSUME TypeOK,
         \/ \E u \in Users, n \in Nicks : Change(u, n)
         \/ Break \/ Reconnect
  PROVE  TypeOK'
<1> USE DEF TypeOK, NickOrNone, asked, slack, maps
<1>1. ASSUME NEW u \in Users, NEW n \in Nicks, Change(u, n) PROVE TypeOK'
  <2>1. <<u, n>> \in Events /\ stream \in Seq(Events) BY DEF Events
  <2>2. Append(stream, <<u, n>>) \in Seq(Events)
    BY <2>1, AppendProperties
  <2>3. stream' \in Seq(Events)
    BY <1>1, <2>1, <2>2 DEF Change
  <2>4. changes' \in 0 .. MaxChanges
    BY <1>1, BoundsAssumption DEF Change
  <2> QED BY <1>1, <2>3, <2>4 DEF Change, Events
<1>2. CASE Break
  <2>1. PICK k \in 0 .. Len(stream) : stream' = SubSeq(stream, 1, k)
    BY <1>2 DEF Break
  <2>2. Len(stream) \in Nat /\ \A i \in 1 .. k : stream[i] \in Events
    BY ElementOfSeq, LenProperties DEF Events
  <2>3. stream' \in Seq(Events)
    BY <2>1, <2>2, SubSeqProperties
  <2>4. breaks' \in 0 .. MaxBreaks
    BY <1>2, BoundsAssumption DEF Break
  <2> QED BY <1>2, <2>3, <2>4 DEF Break, Events
<1>3. CASE Reconnect
  BY <1>3 DEF Reconnect
<1> QED BY <1>1, <1>2, <1>3

\* The types are inductive.
LEMMA NextType == ASSUME TypeOK, [Next]_vars PROVE TypeOK'
<1>1. CASE UNCHANGED vars
  BY <1>1 DEF vars, TypeOK
<1> QED BY <1>1, PoopType, ResolveType, SlackType DEF Next

\* Every variable keeps its type, and the event loop is resolving exactly while
\* it has a question out.
THEOREM TypeCorrect == Spec => []TypeOK
  BY InitType, NextType, PTL DEF Spec

(***************************************************************************)
(* The inverse map                                                         *)
(***************************************************************************)

\* An entry of nickToUserMap is the nick of its user, or the user was raced.
\* It is stronger than StaleOnlyByRace, which says nothing of an entry whose
\* user is not known: ResolveUser may store such a user under another nick.
Exact ==
  poop # "swapped" =>
    \A n \in Nicks :
      nickToUserMap[n] # None =>
        userInfo[nickToUserMap[n]] = n \/ nickToUserMap[n] \in raced

\* The old nick is unmapped, so the entries of the user are exact again.
LEMMA UserChangeExact == ASSUME TypeOK, Exact, UserChange PROVE Exact'
<1>1. PICK u \in Users, n \in Nicks :
        /\ userInfo' = [userInfo EXCEPT ![u] = n]
        /\ nickToUserMap'[n] = u
        /\ \A m \in Nicks \ {n} :
             nickToUserMap'[m] = IF m = userInfo[u] THEN None
                                 ELSE nickToUserMap[m]
  BY Handled
<1>2. poop' = poop /\ raced' = raced BY DEF UserChange
<1>3. userInfo'[u] = n /\ \A v \in Users \ {u} : userInfo'[v] = userInfo[v]
  BY <1>1 DEF TypeOK
<1>4. SUFFICES ASSUME poop # "swapped",
                      NEW m \in Nicks, nickToUserMap'[m] # None
               PROVE  \/ userInfo'[nickToUserMap'[m]] = m
                      \/ nickToUserMap'[m] \in raced
  BY <1>2 DEF Exact
<1>5. CASE m = n
  BY <1>1, <1>3, <1>5
<1>6. CASE m # n
  <2>1. m # userInfo[u] /\ nickToUserMap'[m] = nickToUserMap[m]
    BY <1>1, <1>4, <1>6
  <2>2. nickToUserMap[m] \in Users
    BY <1>4, <2>1 DEF TypeOK
  <2>3. userInfo[nickToUserMap[m]] = m \/ nickToUserMap[m] \in raced
    BY <1>4, <2>1 DEF Exact
  <2>4. CASE nickToUserMap[m] = u
    BY <2>1, <2>3, <2>4
  <2>5. CASE nickToUserMap[m] # u
    BY <1>3, <2>1, <2>2, <2>3, <2>5
  <2> QED BY <2>4, <2>5
<1> QED BY <1>5, <1>6

\* A user that was not known has no entry, and one that was is now raced.
LEMMA StoreUserExact ==
  ASSUME TypeOK, Exact, NEW r \in Askers, StoreUser(r) PROVE Exact'
<1> DEFINE u == asking[r]
           n == answer[r]
<1>1. u \in Users /\ n \in Nicks
  BY DEF StoreUser, TypeOK, NickOrNone
<1>2. /\ userInfo' = [userInfo EXCEPT ![u] = n]
      /\ nickToUserMap' = [nickToUserMap EXCEPT ![n] = u]
      /\ raced' = IF userInfo[u] = None THEN raced ELSE raced \cup {u}
  BY DEF StoreUser
<1>3. poop' # "swapped" => poop # "swapped"
  BY DEF StoreUser, Return, TypeOK
<1> HIDE DEF u, n
<1> QED BY <1>1, <1>2, <1>3, UsersAssumption DEF Exact, TypeOK

\* Exact holds from the beginning on: at first the map is empty, and
\* regenerateReverseMappings makes it exact.
THEOREM ExactAlways == Spec => [](TypeOK /\ Exact)
<1>1. Init => TypeOK /\ Exact
  BY InitType DEF Init, Exact
<1>2. ASSUME TypeOK, Exact, [Next]_vars PROVE Exact'
  <2>1. CASE RegenerateReverseMappings
    BY <1>2, <2>1 DEF RegenerateReverseMappings, Exact
  <2>2. CASE UserChange
    BY <1>2, <2>2, UserChangeExact
  <2>3. ASSUME NEW r \in Askers, StoreUser(r) PROVE Exact'
    BY <1>2, <2>3, StoreUserExact
  <2>4. CASE SwapMappings
    BY <1>2, <2>4 DEF SwapMappings, Exact
  <2>5. CASE GetUsers \/ Break \/ Reconnect \/ UNCHANGED vars
    BY <1>2, <2>5 DEF GetUsers, Break, Reconnect, vars, maps, Exact
  <2>6. ASSUME NEW r \in Askers, NEW u \in Users,
               ResolveUser(r, u) \/ GetUserInfo(r) \/ GetUserInfoFails(r)
        PROVE  Exact'
    BY <1>2, <2>6 DEF ResolveUser, GetUserInfo, GetUserInfoFails, Return, maps,
                TypeOK, Exact
  <2>7. ASSUME NEW u \in Users, NEW n \in Nicks, Change(u, n) PROVE Exact'
    BY <1>2, <2>7 DEF Change, maps, Exact
  <2> QED BY <1>2, <2>1, <2>2, <2>3, <2>4, <2>5, <2>6, <2>7, UsersAssumption
          DEF Next
<1> QED BY <1>1, <1>2, NextType, PTL DEF Spec

\* ResolveNickToUser panics only while the maps are reloaded, or on the nick of
\* a user whose record was stored over by a late answer.
THEOREM StaleNeedsRace == Spec => []StaleOnlyByRace
<1>1. TypeOK /\ Exact => StaleOnlyByRace
  <2> SUFFICES ASSUME TypeOK, Exact, NEW n \in Nicks,
                      poop # "swapped", ResolveNickToUser(n) = "panic"
               PROVE  nickToUserMap[n] \in raced
    BY DEF StaleOnlyByRace, Reloading
  <2> DEFINE u == nickToUserMap[n]
  <2>1. u \in Users \cup {None}
    BY DEF TypeOK
  <2>2. u # None /\ userInfo[u] # n
    BY <2>1, UsersAssumption DEF ResolveNickToUser
  <2> QED BY <2>2 DEF Exact
<1> QED BY <1>1, ExactAlways, PTL

(***************************************************************************)
(* Nicks of one owner                                                      *)
(***************************************************************************)

\* No nick is made up: whatever is known of a user, or on its way, is a nick he
\* has or had.
Owned ==
  /\ \A u \in Users :
       /\ u \in owners[slackNick[u]]
       /\ userInfo[u] # None => u \in owners[userInfo[u]]
       /\ listing[u] # None => u \in owners[listing[u]]
  /\ \A r \in Askers : answer[r] # None => asking[r] \in owners[answer[r]]
  /\ \A i \in 1 .. Len(stream) : stream[i][1] \in owners[stream[i][2]]
  /\ \A n \in Nicks :
       nickToUserMap[n] # None => nickToUserMap[n] \in owners[n]

\* Whoever is known by a nick nobody else ever had has its entry.
Kept ==
  poop # "swapped" =>
    \A u \in Users :
      userInfo[u] # None /\ owners[userInfo[u]] = {u} =>
        nickToUserMap[userInfo[u]] = u

\* A change in Slack makes a nick owned before anybody can learn of it.
LEMMA ChangeOwned ==
  ASSUME TypeOK, Owned, Kept, NEW u \in Users, NEW n \in Nicks, Change(u, n)
  PROVE  Owned' /\ Kept'
<1> USE UsersAssumption DEF TypeOK, NickOrNone
<1>1. /\ owners' = [owners EXCEPT ![n] = @ \cup {u}]
      /\ slackNick' = [slackNick EXCEPT ![u] = n]
      /\ UNCHANGED <<userInfo, nickToUserMap, poop, listing, asking, answer>>
  BY DEF Change, maps, asked
<1>2. \A m \in Nicks : owners[m] \subseteq owners'[m]
  BY <1>1
<1>3. u \in owners'[n]
  BY <1>1
<1>4. \A i \in 1 .. Len(stream') : stream'[i][1] \in owners'[stream'[i][2]]
  <2>1. stream \in Seq(Events) /\ <<u, n>> \in Events
    BY DEF Events
  <2>2. \A i \in 1 .. Len(stream) : stream[i] \in Events
    BY <2>1, ElementOfSeq
  <2>3. \A i \in 1 .. Len(stream) : stream[i][1] \in owners'[stream[i][2]]
    BY <1>2, <2>2 DEF Owned, Events
  <2>4. CASE stream' = stream
    BY <2>3, <2>4
  <2>5. CASE stream' = Append(stream, <<u, n>>)
    <3>1. /\ Len(stream') = Len(stream) + 1
          /\ \A i \in 1 .. Len(stream) : stream'[i] = stream[i]
          /\ stream'[Len(stream) + 1] = <<u, n>>
      BY <2>1, <2>5, AppendProperties
    <3>2. Len(stream) \in Nat
      BY <2>1, LenProperties
    <3> QED BY <1>3, <2>3, <3>1, <3>2
  <2> QED BY <2>4, <2>5 DEF Change
<1>5. Owned'
  BY <1>1, <1>2, <1>3, <1>4 DEF Owned
<1>6. Kept'
  BY <1>1, <1>2 DEF Owned, Kept
<1> QED BY <1>5, <1>6

\* The old nick is unmapped: had it been somebody else's alone, the user could
\* not have had it.
LEMMA UserChangeOwned ==
  ASSUME TypeOK, Owned, Kept, UserChange PROVE Owned' /\ Kept'
<1> USE UsersAssumption DEF TypeOK, NickOrNone
<1>1. PICK u \in Users, n \in Nicks :
        /\ u = Head(stream)[1] /\ n = Head(stream)[2]
        /\ userInfo' = [userInfo EXCEPT ![u] = n]
        /\ nickToUserMap' \in [Nicks -> Users \cup {None}]
        /\ nickToUserMap'[n] = u
        /\ \A m \in Nicks \ {n} :
             nickToUserMap'[m] = IF m = userInfo[u] THEN None
                                 ELSE nickToUserMap[m]
  BY Handled
<1>2. UNCHANGED <<owners, slackNick, listing, asking, answer, poop>>
  BY DEF UserChange, asked
<1>3. /\ u \in owners[n]
      /\ \A i \in 1 .. Len(stream') : stream'[i][1] \in owners[stream'[i][2]]
  <2>1. stream \in Seq(Events) /\ stream # <<>> /\ stream' = Tail(stream)
    BY DEF UserChange, Events
  <2>2. /\ Len(stream) \in Nat \ {0}
        /\ Len(stream') = Len(stream) - 1
        /\ \A i \in 1 .. Len(stream') : stream'[i] = stream[i + 1]
    BY <2>1, HeadTailProperties, LenProperties, EmptySeq
  <2>3. Head(stream) = stream[1]
    BY <2>1
  <2>4. u \in owners[n]
    BY <1>1, <2>2, <2>3 DEF Owned
  <2>5. ASSUME NEW i \in 1 .. Len(stream')
        PROVE  stream'[i][1] \in owners[stream'[i][2]]
    <3>1. i + 1 \in 1 .. Len(stream) /\ stream'[i] = stream[i + 1]
      BY <2>2
    <3> QED BY <3>1 DEF Owned
  <2> QED BY <1>2, <2>4, <2>5
<1>4. Owned'
  BY <1>1, <1>2, <1>3 DEF Owned
<1>5. Kept'
  BY <1>1, <1>2, <1>3 DEF Owned, Kept
<1> QED BY <1>4, <1>5

\* A late answer is a nick the user has or had, so it takes the entry of nobody
\* who is its only owner.
LEMMA StoreUserOwned ==
  ASSUME TypeOK, Owned, Kept, NEW r \in Askers, StoreUser(r)
  PROVE  Owned' /\ Kept'
<1> USE UsersAssumption DEF TypeOK, NickOrNone
<1> DEFINE u == asking[r]
           n == answer[r]
<1>1. u \in Users /\ n \in Nicks /\ u \in owners[n]
  BY DEF StoreUser, Owned
<1>2. /\ userInfo' = [userInfo EXCEPT ![u] = n]
      /\ nickToUserMap' = [nickToUserMap EXCEPT ![n] = u]
      /\ asking' = [asking EXCEPT ![r] = None]
      /\ answer' = [answer EXCEPT ![r] = None]
      /\ UNCHANGED <<owners, slackNick, stream, listing>>
      /\ poop' # "swapped" => poop # "swapped"
  BY DEF StoreUser, Return, slack
<1> HIDE DEF u, n
<1>3. Owned'
  BY <1>1, <1>2, ZenonT(60) DEF Owned
<1>4. Kept'
  BY <1>1, <1>2 DEF Kept, Owned
<1> QED BY <1>3, <1>4

\* Both facts are inductive.
THEOREM OwnedAlways == Spec => [](TypeOK /\ Owned /\ Kept)
<1>1. Init => TypeOK /\ Owned /\ Kept
  <2> SUFFICES ASSUME Init PROVE TypeOK /\ Owned /\ Kept
    OBVIOUS
  <2>1. TypeOK
    BY InitType
  <2>2. Len(stream) = 0
    BY EmptySeq DEF Init
  <2>3. \A u \in Users : u \in owners[slackNick[u]]
    BY DEF Init
  <2>4. /\ \A u \in Users : userInfo[u] = None /\ listing[u] = None
        /\ \A r \in Askers : answer[r] = None
        /\ \A n \in Nicks : nickToUserMap[n] = None
    BY DEF Init
  <2>5. Owned
    BY <2>2, <2>3, <2>4 DEF Owned
  <2>6. Kept
    BY <2>4 DEF Kept
  <2> QED BY <2>1, <2>5, <2>6
<1>2. ASSUME TypeOK, Owned, Kept, [Next]_vars PROVE Owned' /\ Kept'
  <2> USE <1>2, UsersAssumption
  <2>1. CASE RegenerateReverseMappings
    BY <2>1 DEF RegenerateReverseMappings, asked, slack, TypeOK, NickOrNone,
                Owned, Kept
  <2>2. CASE UserChange
    BY <2>2, UserChangeOwned
  <2>3. ASSUME NEW r \in Askers, StoreUser(r) PROVE Owned' /\ Kept'
    BY <2>3, StoreUserOwned
  <2>4. CASE GetUsers \/ SwapMappings
    BY <2>4 DEF GetUsers, SwapMappings, maps, asked, slack, TypeOK, NickOrNone,
                Owned, Kept
  <2>5. CASE Reconnect \/ UNCHANGED vars
    BY <2>5 DEF Reconnect, maps, asked, vars, TypeOK, Owned, Kept
  <2>6. ASSUME NEW r \in Askers, NEW u \in Users,
               ResolveUser(r, u) \/ GetUserInfo(r) \/ GetUserInfoFails(r)
        PROVE  Owned' /\ Kept'
    <3>1. /\ UNCHANGED <<userInfo, nickToUserMap, listing, slackNick, stream,
                        owners>>
          /\ poop' # "swapped" => poop # "swapped"
      BY <2>6 DEF ResolveUser, GetUserInfo, GetUserInfoFails, Return, maps,
                  slack, TypeOK
    <3>2. \A q \in Askers : answer'[q] # None =>
            asking'[q] \in owners[answer'[q]]
      <4> SUFFICES ASSUME NEW q \in Askers, answer'[q] # None
                   PROVE  asking'[q] \in owners[answer'[q]]
        OBVIOUS
      <4>1. CASE q = r
        <5>1. answer'[q] = slackNick[asking[r]] /\ asking'[q] = asking[r]
          BY <2>6, <4>1
          DEF ResolveUser, GetUserInfo, GetUserInfoFails, Return, TypeOK
        <5>2. asking[r] \in Users
          BY <2>6, <4>1
          DEF ResolveUser, GetUserInfo, GetUserInfoFails, Return, TypeOK
        <5> QED BY <5>1, <5>2 DEF Owned
      <4>2. CASE q # r
        <5>1. answer'[q] = answer[q] /\ asking'[q] = asking[q]
          BY <2>6, <4>2
          DEF ResolveUser, GetUserInfo, GetUserInfoFails, Return, TypeOK
        <5> QED BY <5>1 DEF Owned
      <4> QED BY <4>1, <4>2
    <3> QED BY <3>1, <3>2 DEF Owned, Kept
  <2>7. ASSUME NEW u \in Users, NEW n \in Nicks, Change(u, n)
        PROVE  Owned' /\ Kept'
    BY <2>7, ChangeOwned
  <2>8. CASE Break
    <3>1. PICK k \in 0 .. Len(stream) : stream' = SubSeq(stream, 1, k)
      BY <2>8 DEF Break
    <3>2. Len(stream) \in Nat /\ \A i \in 1 .. k : stream[i] \in Events
      BY ElementOfSeq, LenProperties DEF Events, TypeOK
    <3>3. /\ Len(stream') = k
          /\ \A i \in 1 .. k : stream'[i] = stream[i]
      BY <3>1, <3>2, SubSeqProperties
    <3>4. UNCHANGED <<userInfo, nickToUserMap, poop, listing, asking, answer,
                      slackNick, owners>>
      BY <2>8 DEF Break, maps, asked
    <3>5. \A i \in 1 .. k : i \in 1 .. Len(stream)
      BY <3>2
    <3>6. \A i \in 1 .. Len(stream') :
            stream'[i][1] \in owners[stream'[i][2]]
      BY <3>3, <3>5 DEF Owned
    <3> QED BY <3>4, <3>6 DEF Owned, Kept
  <2> QED BY <2>1, <2>2, <2>3, <2>4, <2>5, <2>6, <2>7, <2>8 DEF Next
<1> QED BY <1>1, <1>2, NextType, PTL DEF Spec

\* A user whose cached nick nobody else ever had is found by it, whatever raced.
THEOREM AlwaysFindable == Spec => []Findable
<1>1. TypeOK /\ Kept => Findable
  BY UsersAssumption
  DEF TypeOK, NickOrNone, Kept, Findable, Reloading, ResolveNickToUser
<1> QED BY <1>1, OwnedAlways, PTL

(***************************************************************************)
(* The users of the workspace                                              *)
(***************************************************************************)

\* No change of u is left in s, and the last one, if any, says nick.
Silent(s, u) == \A i \in 1 .. Len(s) : s[i][1] # u
LastSays(s, u, nick) ==
  \A i \in 1 .. Len(s) :
    s[i][1] = u /\ (\A j \in 1 .. Len(s) : j > i => s[j][1] # u)
      => s[i][2] = nick

\* The users GetUsers lists are known once the first loading is over, so that
\* ResolveUser never asks for them.
Known ==
  /\ poop = "listed" => \A u \in Listed : listing[u] # None
  /\ poop \in {"swapped", "select", "resolving"} \/ self # None =>
       \A u \in Listed : userInfo[u] # None
  /\ \A r \in Askers : asking[r] \notin Listed

\* While the web socket is up, a listed user's last change in the stream is what
\* Slack has, and if there is none the listing or the cache has it already.
Fresh ==
  /\ linked => \A u \in Listed :
       /\ LastSays(stream, u, slackNick[u])
       /\ Silent(stream, u) =>
            /\ poop = "listed" => listing[u] = slackNick[u]
            /\ poop \in {"swapped", "select", "resolving"} =>
                 userInfo[u] = slackNick[u]
  /\ poop \in {"select", "resolving"} => self = userInfo[Me]

\* Handling the first event of a stream: its user is silent only after his last
\* change.
LEMMA TailSays ==
  ASSUME NEW s \in Seq(Events), s # <<>>, NEW u \in Users, NEW nick \in Nicks,
         LastSays(s, u, nick)
  PROVE  /\ LastSays(Tail(s), u, nick)
         /\ Silent(Tail(s), u) =>
              IF Head(s)[1] = u THEN Head(s)[2] = nick ELSE Silent(s, u)
<1>1. /\ Len(s) \in Nat \ {0}
      /\ Len(Tail(s)) = Len(s) - 1
      /\ \A i \in 1 .. Len(Tail(s)) : Tail(s)[i] = s[i + 1]
      /\ Head(s) = s[1]
  BY HeadTailProperties, LenProperties, EmptySeq
<1>2. ASSUME NEW j \in 1 .. Len(s), j # 1
      PROVE  j - 1 \in 1 .. Len(Tail(s)) /\ Tail(s)[j - 1] = s[j]
  <2>1. j - 1 \in 1 .. Len(Tail(s)) /\ (j - 1) + 1 = j
    BY <1>1, <1>2
  <2> QED BY <1>1, <2>1
<1>3. LastSays(Tail(s), u, nick)
  <2> SUFFICES ASSUME NEW i \in 1 .. Len(Tail(s)), Tail(s)[i][1] = u,
                      \A j \in 1 .. Len(Tail(s)) : j > i => Tail(s)[j][1] # u
               PROVE  Tail(s)[i][2] = nick
    BY DEF LastSays
  <2>1. i + 1 \in 1 .. Len(s) /\ s[i + 1] = Tail(s)[i]
    BY <1>1
  <2>2. ASSUME NEW j \in 1 .. Len(s), j > i + 1 PROVE s[j][1] # u
    <3>1. j - 1 \in 1 .. Len(Tail(s)) /\ Tail(s)[j - 1] = s[j] /\ j - 1 > i
      BY <1>1, <1>2, <2>2
    <3> QED BY <3>1
  <2> QED BY <2>1, <2>2 DEF LastSays
<1>4. ASSUME Silent(Tail(s), u)
      PROVE  IF Head(s)[1] = u THEN Head(s)[2] = nick ELSE Silent(s, u)
  <2>1. \A j \in 1 .. Len(s) : j # 1 => s[j][1] # u
    BY <1>2, <1>4 DEF Silent
  <2>2. 1 \in 1 .. Len(s)
    BY <1>1
  <2>3. CASE Head(s)[1] = u
    BY <1>1, <2>1, <2>2, <2>3 DEF LastSays
  <2>4. CASE Head(s)[1] # u
    BY <1>1, <2>1, <2>4 DEF Silent
  <2> QED BY <2>3, <2>4
<1> QED BY <1>3, <1>4

\* A change at the end of a stream is its user's last and nobody else's.
LEMMA AppendSays ==
  ASSUME NEW s \in Seq(Events), NEW v \in Users, NEW n \in Nicks
  PROVE  /\ LastSays(Append(s, <<v, n>>), v, n)
         /\ ~Silent(Append(s, <<v, n>>), v)
         /\ \A u \in Users \ {v}, nick \in Nicks :
              LastSays(s, u, nick) =>
                /\ LastSays(Append(s, <<v, n>>), u, nick)
                /\ Silent(Append(s, <<v, n>>), u) => Silent(s, u)
<1> DEFINE t == Append(s, <<v, n>>)
<1>1. <<v, n>> \in Events
  BY DEF Events
<1>2. /\ Len(s) \in Nat
      /\ Len(t) = Len(s) + 1
      /\ \A i \in 1 .. Len(s) : t[i] = s[i]
      /\ t[Len(s) + 1] = <<v, n>>
  BY <1>1, AppendProperties, LenProperties
<1> HIDE DEF t
<1>3. Len(s) + 1 \in 1 .. Len(t) /\ 1 .. Len(s) \subseteq 1 .. Len(t)
  BY <1>2
<1>4. ~Silent(t, v)
  BY <1>2, <1>3 DEF Silent
<1>5. LastSays(t, v, n)
  <2> SUFFICES ASSUME NEW i \in 1 .. Len(t),
                      \A j \in 1 .. Len(t) : j > i => t[j][1] # v
               PROVE  t[i][2] = n
    BY DEF LastSays
  <2>1. ~(Len(s) + 1 > i)
    BY <1>2, <1>3
  <2>2. i = Len(s) + 1
    BY <1>2, <2>1
  <2> QED BY <1>2, <2>2
<1>6. ASSUME NEW u \in Users \ {v}, NEW nick \in Nicks, LastSays(s, u, nick)
      PROVE  LastSays(t, u, nick) /\ (Silent(t, u) => Silent(s, u))
  <2>1. Silent(t, u) => Silent(s, u)
    BY <1>2, <1>3 DEF Silent
  <2>2. ASSUME NEW i \in 1 .. Len(t), t[i][1] = u,
               \A j \in 1 .. Len(t) : j > i => t[j][1] # u
        PROVE  t[i][2] = nick
    <3>1. i # Len(s) + 1
      BY <1>2, <2>2
    <3>2. i \in 1 .. Len(s)
      BY <1>2, <3>1
    <3>3. \A j \in 1 .. Len(s) : j > i => s[j][1] # u
      BY <1>2, <1>3, <2>2
    <3>4. s[i] = t[i] /\ s[i][1] = u
      BY <1>2, <2>2, <3>2
    <3>5. s[i][2] = nick
      BY <1>6, <3>2, <3>3, <3>4 DEF LastSays
    <3> QED BY <3>4, <3>5
  <2> QED BY <2>1, <2>2 DEF LastSays
<1> QED BY <1>4, <1>5, <1>6 DEF t

\* Known is inductive: once loaded, a listed user stays known.
LEMMA KnownStep == ASSUME TypeOK, Known, [Next]_vars PROVE Known'
<1> USE UsersAssumption DEF TypeOK, Known
<1>1. CASE GetUsers
  BY <1>1 DEF GetUsers, maps, asked
<1>2. CASE SwapMappings
  BY <1>2 DEF SwapMappings, asked
<1>3. CASE RegenerateReverseMappings
  BY <1>3 DEF RegenerateReverseMappings, asked
<1>4. CASE UserChange
  <2>1. PICK u \in Users, n \in Nicks : userInfo' = [userInfo EXCEPT ![u] = n]
    BY <1>4, Handled
  <2>2. \A v \in Users : userInfo[v] # None => userInfo'[v] # None
    BY <2>1
  <2>3. /\ UNCHANGED <<poop, asking>> /\ poop = "select"
    BY <1>4 DEF UserChange, asked
  <2> QED BY <2>2, <2>3
<1>5. ASSUME NEW r \in Askers, StoreUser(r) PROVE Known'
  <2>1. asking[r] \in Users /\ answer[r] \in Nicks
    BY <1>5 DEF StoreUser, NickOrNone
  <2> QED BY <1>5, <2>1 DEF StoreUser, Return
<1>6. ASSUME NEW r \in Askers, NEW u \in Users,
             ResolveUser(r, u) \/ GetUserInfo(r) \/ GetUserInfoFails(r)
      PROVE  Known'
  BY <1>6 DEF ResolveUser, GetUserInfo, GetUserInfoFails, Return, maps
<1>7. ASSUME NEW u \in Users, NEW n \in Nicks, Change(u, n) PROVE Known'
  BY <1>7 DEF Change, maps, asked
<1>8. CASE Break \/ Reconnect \/ UNCHANGED vars
  BY <1>8 DEF Break, Reconnect, vars, maps, asked
<1> QED BY <1>1, <1>2, <1>3, <1>4, <1>5, <1>6, <1>7, <1>8 DEF Next

\* user_change makes the cache say what Slack has, if it is the last change.
LEMMA UserChangeFresh == ASSUME TypeOK, Fresh, UserChange PROVE Fresh'
<1>1. PICK u \in Users, n \in Nicks :
        /\ u = Head(stream)[1] /\ n = Head(stream)[2]
        /\ userInfo' = [userInfo EXCEPT ![u] = n]
        /\ self' = IF u = Me THEN n ELSE self
  BY Handled
<1>2. /\ stream \in Seq(Events) /\ stream # <<>> /\ stream' = Tail(stream)
      /\ poop = "select"
      /\ UNCHANGED <<poop, listing, slackNick, linked>>
  BY DEF UserChange, TypeOK, Events
<1>3. self' = userInfo'[Me]
  BY <1>1, <1>2, UsersAssumption DEF Fresh, TypeOK
<1>4. ASSUME linked, NEW v \in Listed
      PROVE  /\ LastSays(stream', v, slackNick[v])
             /\ Silent(stream', v) => userInfo'[v] = slackNick[v]
  <2>1. v \in Users /\ slackNick[v] \in Nicks
    BY UsersAssumption DEF TypeOK
  <2>2. LastSays(stream, v, slackNick[v])
    BY <1>4 DEF Fresh
  <2>3. /\ LastSays(stream', v, slackNick[v])
        /\ Silent(stream', v) =>
             IF u = v THEN n = slackNick[v] ELSE Silent(stream, v)
    BY <1>1, <1>2, <2>1, <2>2, TailSays
  <2>4. CASE u = v
    BY <1>1, <2>1, <2>3, <2>4 DEF TypeOK
  <2>5. CASE u # v
    BY <1>1, <1>2, <1>4, <2>1, <2>3, <2>5 DEF Fresh, TypeOK
  <2> QED BY <2>3, <2>4, <2>5
<1> QED BY <1>2, <1>3, <1>4 DEF Fresh

\* A change made while the socket is up is announced at the end of the stream.
LEMMA ChangeFresh ==
  ASSUME TypeOK, Fresh, NEW u \in Users, NEW n \in Nicks, Change(u, n)
  PROVE  Fresh'
<1>1. /\ slackNick' = [slackNick EXCEPT ![u] = n]
      /\ stream' = IF linked THEN Append(stream, <<u, n>>) ELSE stream
      /\ UNCHANGED <<userInfo, self, poop, listing, linked>>
  BY DEF Change, maps
<1>2. stream \in Seq(Events)
  BY DEF TypeOK, Events
<1>3. ASSUME linked, NEW v \in Listed
      PROVE  /\ LastSays(stream', v, slackNick'[v])
             /\ Silent(stream', v) =>
                  /\ poop = "listed" => listing[v] = slackNick'[v]
                  /\ poop \in {"swapped", "select", "resolving"} =>
                       userInfo[v] = slackNick'[v]
  <2>1. v \in Users /\ slackNick[v] \in Nicks
    BY UsersAssumption DEF TypeOK
  <2>2. stream' = Append(stream, <<u, n>>)
    BY <1>1, <1>3
  <2>3. CASE v = u
    <3>1. slackNick'[v] = n
      BY <1>1, <2>1, <2>3 DEF TypeOK
    <3>2. LastSays(stream', v, n) /\ ~Silent(stream', v)
      BY <1>2, <2>2, <2>3, AppendSays
    <3> QED BY <3>1, <3>2
  <2>4. CASE v # u
    <3>1. slackNick'[v] = slackNick[v]
      BY <1>1, <2>1, <2>4 DEF TypeOK
    <3>2. LastSays(stream, v, slackNick[v])
      BY <1>3 DEF Fresh
    <3>3. LastSays(stream', v, slackNick[v])
          /\ (Silent(stream', v) => Silent(stream, v))
      BY <1>2, <2>1, <2>2, <2>4, <3>2, AppendSays
    <3> QED BY <1>3, <3>1, <3>3 DEF Fresh
  <2> QED BY <2>3, <2>4
<1> QED BY <1>1, <1>3 DEF Fresh

\* A late answer is never about a listed user, self included.
LEMMA StoreUserFresh ==
  ASSUME TypeOK, Known, Fresh, NEW r \in Askers, StoreUser(r) PROVE Fresh'
<1>1. /\ userInfo' = [userInfo EXCEPT ![asking[r]] = answer[r]]
      /\ UNCHANGED <<self, listing, slackNick, stream, linked>>
      /\ poop' = IF r = "poop" THEN "select" ELSE poop
  BY DEF StoreUser, Return, slack
<1>2. r = "poop" => poop = "resolving"
  BY UsersAssumption DEF StoreUser, TypeOK
<1>3. /\ poop' = "listed" => poop = "listed"
      /\ poop' = "swapped" => poop = "swapped"
      /\ poop' \in {"select", "resolving"} => poop \in {"select", "resolving"}
  BY <1>1, <1>2
<1>4. \A v \in Listed : userInfo'[v] = userInfo[v]
  BY <1>1, UsersAssumption DEF Known, TypeOK
<1>5. userInfo'[Me] = userInfo[Me]
  BY <1>4, UsersAssumption
<1> QED BY <1>1, <1>3, <1>4, <1>5 DEF Fresh

\* Both are inductive.
THEOREM FreshAlways == Spec => [](TypeOK /\ Known /\ Fresh)
<1>1. Init => TypeOK /\ Known /\ Fresh
  <2> SUFFICES ASSUME Init PROVE TypeOK /\ Known /\ Fresh
    OBVIOUS
  <2>1. TypeOK
    BY InitType
  <2>2. Len(stream) = 0
    BY EmptySeq DEF Init
  <2>3. \A u \in Users : LastSays(stream, u, slackNick[u])
    BY <2>2 DEF LastSays
  <2>4. Known
    BY UsersAssumption DEF Init, Known
  <2>5. Fresh
    BY <2>3, UsersAssumption DEF Init, Fresh
  <2> QED BY <2>1, <2>4, <2>5
<1>2. ASSUME TypeOK, Known, Fresh, [Next]_vars PROVE Fresh'
  <2> USE <1>2, UsersAssumption
  <2>1. CASE GetUsers
    BY <2>1 DEF GetUsers, slack, TypeOK, Fresh
  <2>2. CASE SwapMappings
    BY <2>2 DEF SwapMappings, slack, Fresh
  <2>3. CASE RegenerateReverseMappings
    BY <2>3 DEF RegenerateReverseMappings, slack, Fresh
  <2>4. CASE UserChange
    BY <2>4, UserChangeFresh
  <2>5. ASSUME NEW r \in Askers, StoreUser(r) PROVE Fresh'
    BY <2>5, StoreUserFresh
  <2>6. ASSUME NEW r \in Askers, NEW u \in Users,
               ResolveUser(r, u) \/ GetUserInfo(r) \/ GetUserInfoFails(r)
        PROVE  Fresh'
    BY <2>6 DEF ResolveUser, GetUserInfo, GetUserInfoFails, Return, maps,
                slack, TypeOK, Fresh
  <2>7. ASSUME NEW u \in Users, NEW n \in Nicks, Change(u, n) PROVE Fresh'
    BY <2>7, ChangeFresh
  <2>8. CASE Break
    BY <2>8 DEF Break, maps, Fresh
  <2>9. CASE Reconnect
    <3>1. Len(stream') = 0
      BY <2>9, EmptySeq DEF Reconnect
    <3>2. \A u \in Users : LastSays(stream', u, slackNick'[u])
      BY <3>1 DEF LastSays
    <3> QED BY <2>9, <3>2 DEF Reconnect, maps, Fresh
  <2>10. CASE UNCHANGED vars
    BY <2>10 DEF vars, Fresh
  <2> QED BY <2>1, <2>2, <2>3, <2>4, <2>5, <2>6, <2>7, <2>8, <2>9, <2>10
          DEF Next
<1> QED BY <1>1, <1>2, NextType, KnownStep, PTL DEF Spec

\* The users of the workspace, and self, are as in Slack once the event loop has
\* handled their changes.
THEOREM ListedAlwaysFresh == Spec => []ListedFresh
<1>1. Fresh => ListedFresh
  BY DEF Fresh, Silent, ListedFresh
<1> QED BY <1>1, FreshAlways, PTL
=============================================================================
