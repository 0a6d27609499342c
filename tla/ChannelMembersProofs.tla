------------------------ MODULE ChannelMembersProofs ------------------------
(***************************************************************************)
(* TypeOK, EntryStays and MembersFresh of ChannelMembers, for any          *)
(* channels, users and goroutines and any number of moves and connections. *)
(*                                                                         *)
(* MembersFresh needs what an answer in the hand of a fetcher says, and    *)
(* that the last waiting move of a user in a channel says what Slack has:  *)
(* Agree.                                                                  *)
(***************************************************************************)
EXTENDS ChannelMembers, SequenceTheorems, TLAPS

(***************************************************************************)
(* Types                                                                   *)
(***************************************************************************)

\* Initially nothing is cached and the event loop is about to load the lists.
LEMMA InitType == Init => TypeOK
  BY MembersAssumption, MembersBounds, EmptySeq DEF Init, TypeOK

\* What the end of the handling of an event does to the stream.
LEMMA HandledType ==
  ASSUME TypeOK, stream # <<>>, Handled
  PROVE  /\ Head(stream) \in Events
         /\ stream' \in Seq(Events)
         /\ late' \subseteq Fetchers
         /\ poop' = "select"
<1>1. Head(stream) \in Events /\ Tail(stream) \in Seq(Events)
  BY HeadTailProperties DEF TypeOK
<1> QED BY <1>1 DEF Handled, Holding, TypeOK

\* The event loop keeps the types, loading and handling moves.
LEMMA PoopType ==
  ASSUME TypeOK,
         \/ GetConversations \/ SwapMappings
         \/ MoveUnresolved \/ FindEntry \/ WriteMember
  PROVE  TypeOK'
<1> USE DEF TypeOK, cache, fetch, slack, history
<1>1. CASE GetConversations
  BY <1>1 DEF GetConversations
<1>2. CASE SwapMappings
  BY <1>2 DEF SwapMappings
<1>3. CASE MoveUnresolved
  <2>1. /\ stream # <<>> /\ Handled
        /\ doubtful' = doubtful \cup {Head(stream).chan}
        /\ UNCHANGED <<cache, listing, fetch, slack, untold>>
    BY <1>3 DEF MoveUnresolved
  <2>2. Head(stream).chan \in Channels
    BY <2>1, HandledType DEF Events
  <2> QED BY <2>1, <2>2, HandledType
<1>4. CASE FindEntry
  <2>1. /\ stream # <<>>
        /\ UNCHANGED <<cache, listing, fetch, slack, doubtful, untold>>
    BY <1>4 DEF FindEntry
  <2>2. CASE Handled
    BY <2>1, <2>2, HandledType
  <2>3. CASE poop' = "found" /\ UNCHANGED <<stream, late>>
    BY <2>1, <2>3
  <2> QED BY <1>4, <2>2, <2>3 DEF FindEntry
<1>5. CASE WriteMember
  <2>1. /\ stream # <<>> /\ Handled
        /\ members' = [members EXCEPT ![Head(stream).chan] =
                         After(Head(stream), @)]
        /\ UNCHANGED <<cached, memberships, listing, fetch, slack, doubtful,
                       untold>>
    BY <1>5 DEF WriteMember
  <2>2. Head(stream).chan \in Channels /\ Head(stream).user \in Users
    BY <2>1, HandledType DEF Events
  <2>3. members' \in [Channels -> SUBSET Users]
    BY <2>1, <2>2 DEF After
  <2> QED BY <2>1, <2>3, HandledType
<1> QED BY <1>1, <1>2, <1>3, <1>4, <1>5

\* So does GetChannelUsers, whoever calls it.
LEMMA FetchType ==
  ASSUME TypeOK, NEW f \in Fetchers,
         \/ \E c \in Channels : GetChannelUsers(f, c)
         \/ GetUsersInConversation(f) \/ FetchFails(f) \/ StoreMembers(f)
  PROVE  TypeOK'
<1> USE MembersAssumption DEF TypeOK, cache, fetch, slack, history
<1>1. ASSUME NEW c \in Channels, GetChannelUsers(f, c) PROVE TypeOK'
  BY <1>1 DEF GetChannelUsers
<1>2. CASE GetUsersInConversation(f)
  <2>1. asking[f] \in Channels
    BY <1>2 DEF GetUsersInConversation
  <2>2. answer' = [answer EXCEPT ![f] = slackMembers[asking[f]]]
    BY <1>2 DEF GetUsersInConversation
  <2>3. answer' \in [Fetchers -> {None} \cup SUBSET Users]
    BY <2>1, <2>2
  <2> QED BY <1>2, <2>1, <2>2, <2>3 DEF GetUsersInConversation
<1>3. CASE FetchFails(f)
  BY <1>3 DEF FetchFails, Return
<1>4. CASE StoreMembers(f)
  <2>1. asking[f] \in Channels /\ answer[f] \in SUBSET Users
    BY <1>4 DEF StoreMembers
  <2> QED BY <1>4, <2>1 DEF StoreMembers, Return
<1> QED BY <1>1, <1>2, <1>3, <1>4

\* And Slack, the network and the start of a bootstrap.
LEMMA SlackType ==
  ASSUME TypeOK,
         \/ \E c \in Channels, u \in Users : Move(c, u)
         \/ Break \/ Reconnect \/ BootstrapChannelUserList
  PROVE  TypeOK'
<1> USE DEF TypeOK, cache, fetch, history
<1>1. ASSUME NEW c \in Channels, NEW u \in Users, Move(c, u) PROVE TypeOK'
  <2> DEFINE e == [chan |-> c, user |-> u, in |-> u \notin slackMembers[c]]
  <2>1. e \in Events
    BY DEF Events
  <2>2. /\ slackMembers' = [slackMembers EXCEPT ![c] = After(e, @)]
        /\ \/ stream' = Append(stream, e) /\ UNCHANGED untold
           \/ untold' = untold \cup {c} /\ UNCHANGED stream
        /\ moves < MaxMoves /\ moves' = moves + 1
        /\ UNCHANGED <<cache, poop, listing, fetch, linked, breaks, late,
                       doubtful>>
    BY <1>1 DEF Move
  <2>3. e.user = u
    OBVIOUS
  <2> HIDE DEF e
  <2>4. After(e, slackMembers[c]) \in SUBSET Users
    BY <2>3 DEF After
  <2>5. slackMembers' \in [Channels -> SUBSET Users]
    BY <2>2, <2>4
  <2>6. stream' \in Seq(Events) /\ (stream # <<>> => stream' # <<>>)
    <3>1. CASE stream' = Append(stream, e)
      <4>1. Append(stream, e) \in Seq(Events) /\ Append(stream, e) # <<>>
        BY <2>1, AppendProperties
      <4> QED BY <3>1, <4>1
    <3>2. CASE stream' = stream
      BY <3>2
    <3> QED BY <2>2, <3>1, <3>2
  <2>7. moves' \in 0 .. MaxMoves
    BY <2>2, MembersBounds
  <2> QED BY <2>2, <2>5, <2>6, <2>7
<1>2. CASE Break
  <2>1. PICK k \in 0 .. Len(stream) :
               (poop = "found" => k > 0) /\ stream' = SubSeq(stream, 1, k)
    BY <1>2 DEF Break
  <2>2. Len(stream) \in Nat /\ \A i \in 1 .. k : stream[i] \in Events
    BY ElementOfSeq, LenProperties
  <2>3. stream' \in Seq(Events) /\ Len(stream') = k
    BY <2>1, <2>2, SubSeqProperties
  <2>4. poop = "found" => stream' # <<>>
    BY <2>1, <2>3, EmptySeq
  <2>5. breaks' \in 0 .. MaxBreaks
    BY <1>2, MembersBounds DEF Break
  <2> QED BY <1>2, <2>3, <2>4, <2>5 DEF Break
<1>3. CASE Reconnect
  BY <1>3 DEF Reconnect
<1>4. CASE BootstrapChannelUserList
  BY <1>4 DEF BootstrapChannelUserList, slack
<1> QED BY <1>1, <1>2, <1>3, <1>4

\* The types are inductive.
LEMMA NextType == ASSUME TypeOK, [Next]_vars PROVE TypeOK'
<1>1. CASE UNCHANGED vars
  BY <1>1 DEF vars, TypeOK
<1> QED BY <1>1, PoopType, FetchType, SlackType DEF Next

\* Every variable keeps its type, and poop has found an entry only while it has
\* an event to handle.
THEOREM TypeCorrect == Spec => []TypeOK
  BY InitType, NextType, PTL DEF Spec

(***************************************************************************)
(* The entry between the two locks                                         *)
(***************************************************************************)

\* Only poop itself takes entries away, and it is busy with the event: the write
\* of a join or a part is never to a nil map, whatever the fetchers do.
THEOREM EntryAlwaysStays == Spec => []EntryStays
<1>1. Init => EntryStays
  BY DEF Init, EntryStays
<1>2. ASSUME TypeOK, EntryStays, [Next]_vars PROVE EntryStays'
  <2> USE <1>2 DEF EntryStays, cache, fetch, slack, history
  <2>1. CASE GetConversations \/ SwapMappings \/ MoveUnresolved \/ WriteMember
    BY <2>1 DEF GetConversations, SwapMappings, MoveUnresolved, WriteMember,
                Handled
  <2>2. CASE FindEntry
    BY <2>2 DEF FindEntry, Handled
  <2>3. ASSUME NEW f \in Fetchers,
               \/ \E c \in Channels : GetChannelUsers(f, c)
               \/ GetUsersInConversation(f) \/ FetchFails(f) \/ StoreMembers(f)
        PROVE  EntryStays'
    BY <2>3 DEF GetChannelUsers, GetUsersInConversation, FetchFails,
                StoreMembers, Return
  <2>4. ASSUME NEW c \in Channels, NEW u \in Users, Move(c, u)
        PROVE  EntryStays'
    <3> SUFFICES ASSUME poop' = "found" PROVE Head(stream').chan \in cached'
      OBVIOUS
    <3> DEFINE e == [chan |-> c, user |-> u, in |-> u \notin slackMembers[c]]
    <3>1. /\ UNCHANGED <<cached, poop>>
          /\ stream' = Append(stream, e) \/ UNCHANGED stream
      BY <2>4 DEF Move
    <3>2. stream \in Seq(Events) /\ stream # <<>> /\ e \in Events
      BY <3>1 DEF TypeOK, Events
    <3> HIDE DEF e
    <3>3. Head(stream') = Head(stream)
      <4>1. Len(stream) \in Nat \ {0} /\ Head(stream) = stream[1]
        BY <3>2, HeadTailProperties, LenProperties, EmptySeq
      <4>2. ASSUME stream' = Append(stream, e) PROVE Head(stream') = stream[1]
        <5>1. stream' \in Seq(Events) /\ stream' # <<>> /\ stream'[1] = stream[1]
          BY <3>2, <4>1, <4>2, AppendProperties
        <5> QED BY <5>1
      <4> QED BY <3>1, <4>1, <4>2
    <3> QED BY <3>1, <3>3
  <2>5. CASE Break
    <3> SUFFICES ASSUME poop' = "found" PROVE Head(stream').chan \in cached'
      OBVIOUS
    <3>1. PICK k \in 0 .. Len(stream) :
                 (poop = "found" => k > 0) /\ stream' = SubSeq(stream, 1, k)
      BY <2>5 DEF Break
    <3>2. UNCHANGED <<cached, poop>> /\ k > 0
      BY <2>5, <3>1 DEF Break
    <3>3. /\ Len(stream) \in Nat /\ stream # <<>>
          /\ \A i \in 1 .. k : stream[i] \in Events
      BY <3>2, ElementOfSeq, LenProperties DEF TypeOK
    <3>4. /\ stream' \in Seq(Events) /\ Len(stream') = k
          /\ stream'[1] = stream[1]
      BY <3>1, <3>2, <3>3, SubSeqProperties
    <3>5. Head(stream') = Head(stream)
      BY <3>2, <3>3, <3>4
    <3> QED BY <3>2, <3>5
  <2>6. CASE Reconnect \/ BootstrapChannelUserList \/ UNCHANGED vars
    BY <2>6 DEF Reconnect, BootstrapChannelUserList, vars
  <2> QED BY <2>1, <2>2, <2>3, <2>4, <2>5, <2>6 DEF Next
<1> QED BY <1>1, <1>2, TypeCorrect, PTL DEF Spec

(***************************************************************************)
(* Fresh entries                                                           *)
(***************************************************************************)

\* No move of u in c is in s, and the last one, if any, says whether he is in m.
About(e, c, u) == e.chan = c /\ e.user = u
Silent(s, c, u) == \A i \in 1 .. Len(s) : ~About(s[i], c, u)
LastSays(s, c, u, m) ==
  \A i \in 1 .. Len(s) :
    About(s[i], c, u) /\ (\A j \in 1 .. Len(s) : j > i => ~About(s[j], c, u))
      => (s[i].in <=> u \in m)

\* Two sets of members agree on u.
Same(u, m, n) == u \in m <=> u \in n

\* While the web socket is up, in a channel whose moves are told: the last
\* waiting move of a user says what Slack has, and if there is none, the answers
\* that were not overtaken and the entries not in doubt say it.
Agree ==
  linked => \A c \in Channels \ untold, u \in Users :
    /\ LastSays(stream, c, u, slackMembers[c])
    /\ Silent(stream, c, u) =>
         /\ \A f \in Fetchers \ late :
              asking[f] = c /\ answer[f] # None =>
                Same(u, answer[f], slackMembers[c])
         /\ poop \in {"select", "found"} /\ c \in cached \ doubtful =>
              Same(u, members[c], slackMembers[c])

\* Handling the first move of a stream: its user is silent only after his last.
LEMMA TailSays ==
  ASSUME NEW s \in Seq(Events), s # <<>>, NEW c, NEW u, NEW m,
         LastSays(s, c, u, m)
  PROVE  /\ LastSays(Tail(s), c, u, m)
         /\ Silent(Tail(s), c, u) =>
              IF About(Head(s), c, u) THEN Head(s).in <=> u \in m
                                      ELSE Silent(s, c, u)
<1>1. /\ Len(s) \in Nat \ {0}
      /\ Len(Tail(s)) = Len(s) - 1
      /\ \A i \in 1 .. Len(Tail(s)) : Tail(s)[i] = s[i + 1]
      /\ Head(s) = s[1]
  BY HeadTailProperties, LenProperties, EmptySeq
<1>2. ASSUME NEW j \in 1 .. Len(s), j # 1
      PROVE  j - 1 \in 1 .. Len(Tail(s)) /\ Tail(s)[j - 1] = s[j]
  <2>1. j - 1 \in 1 .. Len(Tail(s)) /\ (j - 1) + 1 = j
    BY <1>1, <1>2
  <2> QED BY <1>1, <2>1
<1>3. LastSays(Tail(s), c, u, m)
  <2> SUFFICES ASSUME NEW i \in 1 .. Len(Tail(s)), About(Tail(s)[i], c, u),
                      \A j \in 1 .. Len(Tail(s)) :
                        j > i => ~About(Tail(s)[j], c, u)
               PROVE  Tail(s)[i].in <=> u \in m
    BY DEF LastSays
  <2>1. i + 1 \in 1 .. Len(s) /\ s[i + 1] = Tail(s)[i]
    BY <1>1
  <2>2. ASSUME NEW j \in 1 .. Len(s), j > i + 1 PROVE ~About(s[j], c, u)
    <3>1. j - 1 \in 1 .. Len(Tail(s)) /\ Tail(s)[j - 1] = s[j] /\ j - 1 > i
      BY <1>1, <1>2, <2>2
    <3> QED BY <3>1
  <2>3. About(s[i + 1], c, u) => (s[i + 1].in <=> u \in m)
    BY <2>1, <2>2 DEF LastSays
  <2> QED BY <2>1, <2>3
<1>4. ASSUME Silent(Tail(s), c, u)
      PROVE  IF About(Head(s), c, u) THEN Head(s).in <=> u \in m
                                     ELSE Silent(s, c, u)
  <2>1. \A j \in 1 .. Len(s) : j # 1 => ~About(s[j], c, u)
    BY <1>2, <1>4 DEF Silent
  <2>2. 1 \in 1 .. Len(s)
    BY <1>1
  <2>3. CASE About(Head(s), c, u)
    <3>1. \A j \in 1 .. Len(s) : j > 1 => ~About(s[j], c, u)
      BY <1>1, <2>1
    <3> QED BY <1>1, <2>2, <2>3, <3>1 DEF LastSays
  <2>4. CASE ~About(Head(s), c, u)
    BY <1>1, <2>1, <2>4 DEF Silent
  <2> QED BY <2>3, <2>4
<1> QED BY <1>3, <1>4

\* A move at the end of a stream is its user's last and nobody else's.
LEMMA AppendSays ==
  ASSUME NEW s \in Seq(Events), NEW e \in Events, NEW c, NEW u, NEW m
  PROVE  LET t == Append(s, e) IN
         /\ About(e, c, u) =>
              /\ (e.in <=> u \in m) => LastSays(t, c, u, m)
              /\ ~Silent(t, c, u)
         /\ ~About(e, c, u) =>
              /\ LastSays(s, c, u, m) => LastSays(t, c, u, m)
              /\ Silent(t, c, u) => Silent(s, c, u)
<1> DEFINE t == Append(s, e)
<1>1. /\ Len(s) \in Nat
      /\ Len(t) = Len(s) + 1
      /\ \A i \in 1 .. Len(s) : t[i] = s[i]
      /\ t[Len(s) + 1] = e
  BY AppendProperties, LenProperties
<1> HIDE DEF t
<1>2. Len(s) + 1 \in 1 .. Len(t) /\ 1 .. Len(s) \subseteq 1 .. Len(t)
  BY <1>1
<1>3. ASSUME About(e, c, u) PROVE ~Silent(t, c, u)
  BY <1>1, <1>2, <1>3 DEF Silent
<1>4. ASSUME About(e, c, u), e.in <=> u \in m PROVE LastSays(t, c, u, m)
  <2> SUFFICES ASSUME NEW i \in 1 .. Len(t),
                      \A j \in 1 .. Len(t) : j > i => ~About(t[j], c, u)
               PROVE  t[i].in <=> u \in m
    BY DEF LastSays
  <2>1. ~(Len(s) + 1 > i)
    BY <1>1, <1>2, <1>4
  <2>2. i = Len(s) + 1
    BY <1>1, <2>1
  <2> QED BY <1>1, <1>4, <2>2
<1>5. ASSUME ~About(e, c, u), Silent(t, c, u) PROVE Silent(s, c, u)
  BY <1>1, <1>2, <1>5 DEF Silent
<1>6. ASSUME ~About(e, c, u), LastSays(s, c, u, m) PROVE LastSays(t, c, u, m)
  <2> SUFFICES ASSUME NEW i \in 1 .. Len(t), About(t[i], c, u),
                      \A j \in 1 .. Len(t) : j > i => ~About(t[j], c, u)
               PROVE  t[i].in <=> u \in m
    BY DEF LastSays
  <2>1. i # Len(s) + 1
    BY <1>1, <1>6
  <2>2. i \in 1 .. Len(s) /\ t[i] = s[i]
    BY <1>1, <2>1
  <2>3. \A j \in 1 .. Len(s) : j > i => ~About(s[j], c, u)
    BY <1>1, <1>2
  <2>4. s[i].in <=> u \in m
    BY <1>6, <2>2, <2>3 DEF LastSays
  <2> QED BY <2>2, <2>4
<1> QED BY <1>3, <1>4, <1>5, <1>6 DEF t

\* The end of a move: what was silent still is, or the move was the last.
LEMMA HandledSays ==
  ASSUME TypeOK, Agree, linked, stream # <<>>, Handled,
         NEW c \in Channels \ untold, NEW u \in Users
  PROVE  /\ LastSays(stream', c, u, slackMembers[c])
         /\ Silent(stream', c, u) =>
              IF About(Head(stream), c, u)
              THEN Head(stream).in <=> u \in slackMembers[c]
              ELSE Silent(stream, c, u)
  BY TailSays DEF TypeOK, Agree, Handled

\* An answer not overtaken before or by the end of a move is about another
\* channel.
LEMMA HandledAnswers ==
  ASSUME TypeOK, Agree, linked, stream # <<>>, Handled,
         UNCHANGED <<asking, answer, slackMembers>>,
         NEW c \in Channels \ untold, NEW u \in Users,
         Silent(stream', c, u),
         NEW f \in Fetchers \ late', asking[f] = c, answer[f] # None
  PROVE  Same(u, answer[f], slackMembers[c])
<1>1. f \notin late /\ Head(stream).chan # c
  BY DEF Handled, Holding
<1>2. Silent(stream, c, u)
  BY <1>1, HandledSays DEF About
<1> QED BY <1>1, <1>2 DEF Agree

\* A move that cannot be resolved leaves its channel in doubt, and one of a
\* channel without entry has nothing to change.
LEMMA SkipAgree ==
  ASSUME TypeOK, Agree,
         MoveUnresolved \/ (FindEntry /\ Head(stream).chan \notin cached)
  PROVE  Agree'
<1>1. /\ poop = "select" /\ stream # <<>> /\ Handled
      /\ UNCHANGED <<cached, members, asking, answer, slackMembers, linked,
                     untold>>
      /\ doubtful \subseteq doubtful'
      /\ Head(stream).chan \notin cached \ doubtful'
  BY DEF MoveUnresolved, FindEntry, cache, fetch, slack
<1> SUFFICES ASSUME linked, NEW c \in Channels \ untold, NEW u \in Users
             PROVE  /\ LastSays(stream', c, u, slackMembers[c])
                    /\ Silent(stream', c, u) =>
                         /\ \A f \in Fetchers \ late' :
                              asking[f] = c /\ answer[f] # None =>
                                Same(u, answer[f], slackMembers[c])
                         /\ c \in cached \ doubtful' =>
                              Same(u, members[c], slackMembers[c])
  BY <1>1 DEF Agree
<1>2. LastSays(stream', c, u, slackMembers[c])
  BY <1>1, HandledSays
<1>3. ASSUME Silent(stream', c, u), NEW f \in Fetchers \ late',
             asking[f] = c, answer[f] # None
      PROVE  Same(u, answer[f], slackMembers[c])
  BY <1>1, <1>3, HandledAnswers
<1>4. ASSUME Silent(stream', c, u), c \in cached \ doubtful'
      PROVE  Same(u, members[c], slackMembers[c])
  <2>1. ~About(Head(stream), c, u)
    BY <1>1, <1>4 DEF About
  <2>2. Silent(stream, c, u)
    BY <1>1, <1>4, <2>1, HandledSays
  <2> QED BY <1>1, <1>4, <2>2 DEF Agree
<1> QED BY <1>2, <1>3, <1>4

\* The entry is changed the way the move says.
LEMMA WriteAgree == ASSUME TypeOK, Agree, WriteMember PROVE Agree'
<1> DEFINE e == Head(stream)
<1>1. /\ poop = "found" /\ stream # <<>> /\ Handled
      /\ members' = [members EXCEPT ![e.chan] = After(e, @)]
      /\ UNCHANGED <<cached, asking, answer, slackMembers, linked, untold,
                     doubtful>>
  BY DEF WriteMember, TypeOK, fetch, slack
<1>2. e \in Events
  BY <1>1, HandledType
<1>3. e.chan \in Channels /\ e.user \in Users
  BY <1>2 DEF Events
<1> SUFFICES ASSUME linked, NEW c \in Channels \ untold, NEW u \in Users
             PROVE  /\ LastSays(stream', c, u, slackMembers[c])
                    /\ Silent(stream', c, u) =>
                         /\ \A f \in Fetchers \ late' :
                              asking[f] = c /\ answer[f] # None =>
                                Same(u, answer[f], slackMembers[c])
                         /\ c \in cached \ doubtful =>
                              Same(u, members'[c], slackMembers[c])
  BY <1>1 DEF Agree
<1>4. LastSays(stream', c, u, slackMembers[c])
  BY <1>1, HandledSays
<1>5. ASSUME Silent(stream', c, u), NEW f \in Fetchers \ late',
             asking[f] = c, answer[f] # None
      PROVE  Same(u, answer[f], slackMembers[c])
  BY <1>1, <1>5, HandledAnswers
<1>6. ASSUME Silent(stream', c, u), c \in cached \ doubtful
      PROVE  Same(u, members'[c], slackMembers[c])
  <2>1. IF About(e, c, u) THEN e.in <=> u \in slackMembers[c]
                          ELSE Silent(stream, c, u)
    BY <1>1, <1>6, HandledSays
  <2>2. CASE About(e, c, u)
    <3>1. members'[c] = After(e, members[c]) /\ e.user = u
      BY <1>1, <1>3, <2>2 DEF About, TypeOK
    <3>2. u \in members'[c] <=> e.in
      BY <3>1 DEF After
    <3> QED BY <2>1, <2>2, <3>2 DEF Same
  <2>3. CASE ~About(e, c, u)
    <3>1. Same(u, members[c], slackMembers[c])
      BY <1>1, <1>6, <2>1, <2>3 DEF Agree
    <3>2. u \in members'[c] <=> u \in members[c]
      <4>1. CASE c = e.chan
        <5>1. members'[c] = After(e, members[c]) /\ e.user # u
          BY <1>1, <1>3, <2>3, <4>1 DEF About, TypeOK
        <5> QED BY <5>1 DEF After
      <4>2. CASE c # e.chan
        BY <1>1, <1>3, <4>2 DEF TypeOK
      <4> QED BY <4>1, <4>2
    <3> QED BY <3>1, <3>2 DEF Same
  <2> QED BY <2>2, <2>3
<1> QED BY <1>4, <1>5, <1>6

\* A fetch asks for what Slack has now, and stores what it then got.
LEMMA FetchAgree ==
  ASSUME TypeOK, Agree, NEW f \in Fetchers,
         \/ \E c \in Channels : GetChannelUsers(f, c)
         \/ GetUsersInConversation(f) \/ FetchFails(f) \/ StoreMembers(f)
  PROVE  Agree'
<1> USE MembersAssumption
<1>1. ASSUME NEW c \in Channels, GetChannelUsers(f, c) PROVE Agree'
  <2>1. /\ answer[f] = None
        /\ \A g \in Fetchers : asking'[g] # asking[g] => g = f
        /\ UNCHANGED <<cached, members, poop, answer, slackMembers, linked,
                       stream, late, doubtful, untold>>
    BY <1>1 DEF GetChannelUsers, cache, slack, history, TypeOK
  <2>2. \A g \in Fetchers : answer'[g] # None => asking'[g] = asking[g]
    BY <2>1
  <2> QED BY <2>1, <2>2 DEF Agree
<1>2. CASE GetUsersInConversation(f)
  <2>1. /\ answer' = [answer EXCEPT ![f] = slackMembers[asking[f]]]
        /\ late' = late \ {f}
        /\ UNCHANGED <<cached, members, poop, asking, slackMembers, linked,
                       stream, doubtful, untold>>
    BY <1>2 DEF GetUsersInConversation, cache, slack
  <2>2. /\ answer'[f] = slackMembers[asking[f]]
        /\ \A g \in Fetchers \ {f} :
             answer'[g] = answer[g] /\ (g \notin late' => g \notin late)
    BY <2>1 DEF TypeOK
  <2>3. ASSUME linked, NEW c \in Channels \ untold, NEW u \in Users,
               Silent(stream, c, u), NEW g \in Fetchers \ late',
               asking[g] = c, answer'[g] # None
        PROVE  Same(u, answer'[g], slackMembers[c])
    <3>1. CASE g = f
      BY <2>2, <2>3, <3>1 DEF Same
    <3>2. CASE g # f
      BY <2>2, <2>3, <3>2 DEF Agree
    <3> QED BY <3>1, <3>2
  <2> QED BY <2>1, <2>3 DEF Agree
<1>3. CASE FetchFails(f)
  <2>1. /\ answer'[f] = None
        /\ \A g \in Fetchers \ {f} :
             answer'[g] = answer[g] /\ asking'[g] = asking[g]
        /\ UNCHANGED <<cached, members, poop, slackMembers, linked, stream,
                       late, doubtful, untold>>
    BY <1>3 DEF FetchFails, Return, cache, slack, history, TypeOK
  <2> QED BY <2>1 DEF Agree
<1>4. CASE StoreMembers(f)
  <2> DEFINE d == asking[f]
  <2>1. /\ d \in Channels /\ answer[f] # None
        /\ cached' = cached \cup {d}
        /\ members'[d] = answer[f]
        /\ \A c \in Channels \ {d} : members'[c] = members[c]
        /\ doubtful' = IF f \in late THEN doubtful \cup {d} ELSE doubtful \ {d}
        /\ UNCHANGED <<poop, slackMembers, linked, stream, late, untold>>
    BY <1>4 DEF StoreMembers, slack, TypeOK
  <2>2. /\ answer'[f] = None
        /\ \A g \in Fetchers \ {f} :
             answer'[g] = answer[g] /\ asking'[g] = asking[g]
    BY <1>4 DEF StoreMembers, Return, TypeOK
  <2> HIDE DEF d
  <2>3. ASSUME linked, NEW c \in Channels \ untold, NEW u \in Users,
               Silent(stream, c, u), poop \in {"select", "found"},
               c \in cached' \ doubtful'
        PROVE  Same(u, members'[c], slackMembers[c])
    <3>1. CASE c = d
      <4>1. f \in Fetchers \ late
        BY <2>1, <2>3, <3>1
      <4> QED BY <2>1, <2>3, <3>1, <4>1 DEF Agree, d
    <3>2. CASE c # d
      <4>1. c \in cached \ doubtful
        BY <2>1, <2>3, <3>2
      <4> QED BY <2>1, <2>3, <3>2, <4>1 DEF Agree
    <3> QED BY <3>1, <3>2
  <2> QED BY <2>1, <2>2, <2>3 DEF Agree
<1> QED BY <1>1, <1>2, <1>3, <1>4

\* A move that is told waits at the end of the stream; one that is not told
\* leaves its channel out of account.
LEMMA MoveAgree ==
  ASSUME TypeOK, Agree, NEW d \in Channels, NEW v \in Users, Move(d, v)
  PROVE  Agree'
<1> DEFINE e == [chan |-> d, user |-> v, in |-> v \notin slackMembers[d]]
<1>1. /\ slackMembers' = [slackMembers EXCEPT ![d] = After(e, @)]
      /\ \/ stream' = Append(stream, e) /\ UNCHANGED untold
         \/ /\ untold' = untold \cup {d} /\ UNCHANGED stream
      /\ UNCHANGED <<cached, members, poop, asking, answer, linked, late,
                     doubtful>>
  BY DEF Move, cache, fetch
<1>2. e \in Events /\ e.chan = d /\ e.user = v
  BY DEF Events
<1> HIDE DEF e
<1>3. /\ slackMembers'[d] = After(e, slackMembers[d])
      /\ \A c \in Channels \ {d} : slackMembers'[c] = slackMembers[c]
      /\ stream \in Seq(Events)
  BY <1>1 DEF TypeOK
<1> SUFFICES ASSUME linked, NEW c \in Channels \ untold', NEW u \in Users
             PROVE  /\ LastSays(stream', c, u, slackMembers'[c])
                    /\ Silent(stream', c, u) =>
                         /\ \A f \in Fetchers \ late :
                              asking[f] = c /\ answer[f] # None =>
                                Same(u, answer[f], slackMembers'[c])
                         /\ poop \in {"select", "found"}
                            /\ c \in cached \ doubtful =>
                              Same(u, members[c], slackMembers'[c])
  BY <1>1 DEF Agree
<1>4. c \in Channels \ untold
  BY <1>1
<1>5. ASSUME ~About(e, c, u)
      PROVE  \A m : Same(u, m, slackMembers[c]) =>
                      Same(u, m, slackMembers'[c])
  <2>1. u \in slackMembers'[c] <=> u \in slackMembers[c]
    <3>1. CASE c = d
      BY <1>2, <1>3, <1>5, <3>1 DEF About, After
    <3>2. CASE c # d
      BY <1>3, <3>2
    <3> QED BY <3>1, <3>2
  <2> QED BY <2>1 DEF Same
<1>6. CASE stream' = stream /\ untold' = untold \cup {d}
  <2>1. c # d /\ slackMembers'[c] = slackMembers[c]
    BY <1>3, <1>6
  <2> QED BY <1>4, <1>6, <2>1 DEF Agree
<1>7. CASE stream' = Append(stream, e) /\ About(e, c, u)
  <2>1. c = d /\ u = v
    BY <1>2, <1>7 DEF About
  <2>2. e.in <=> u \in slackMembers'[c]
    BY <1>2, <1>3, <2>1 DEF After
  <2>3. LastSays(stream', c, u, slackMembers'[c]) /\ ~Silent(stream', c, u)
    BY <1>2, <1>3, <1>7, <2>2, AppendSays
  <2> QED BY <2>3
<1>8. CASE stream' = Append(stream, e) /\ ~About(e, c, u)
  <2>1. LastSays(stream, c, u, slackMembers[c])
    BY <1>4 DEF Agree
  <2>2. LastSays(stream, c, u, slackMembers'[c])
    <3>1. u \in slackMembers'[c] <=> u \in slackMembers[c]
      BY <1>5, <1>8 DEF Same
    <3> QED BY <2>1, <3>1 DEF LastSays
  <2>3. /\ LastSays(stream', c, u, slackMembers'[c])
        /\ Silent(stream', c, u) => Silent(stream, c, u)
    BY <1>2, <1>3, <1>8, <2>2, AppendSays
  <2> QED BY <1>4, <1>5, <1>8, <2>3 DEF Agree
<1> QED BY <1>1, <1>6, <1>7, <1>8

\* Agree is inductive.
THEOREM AgreeAlways == Spec => [](TypeOK /\ Agree)
<1>1. Init => TypeOK /\ Agree
  <2> SUFFICES ASSUME Init PROVE TypeOK /\ Agree
    OBVIOUS
  <2>1. Len(stream) = 0
    BY EmptySeq DEF Init
  <2>2. \A c \in Channels, u \in Users : LastSays(stream, c, u, slackMembers[c])
    BY <2>1 DEF LastSays
  <2> QED BY <2>2, InitType DEF Init, Agree
<1>2. ASSUME TypeOK, Agree, [Next]_vars PROVE Agree'
  <2> USE <1>2
  <2>1. CASE GetConversations
    BY <2>1 DEF GetConversations, cache, fetch, slack, history, Agree
  <2>2. CASE SwapMappings
    BY <2>2 DEF SwapMappings, slack, Agree
  <2>3. CASE MoveUnresolved
    BY <2>3, SkipAgree
  <2>4. CASE FindEntry
    <3>1. CASE Head(stream).chan \in cached
      BY <2>4, <3>1 DEF FindEntry, cache, fetch, slack, Agree
    <3> QED BY <2>4, <3>1, SkipAgree
  <2>5. CASE WriteMember
    BY <2>5, WriteAgree
  <2>6. ASSUME NEW f \in Fetchers,
               \/ \E c \in Channels : GetChannelUsers(f, c)
               \/ GetUsersInConversation(f) \/ FetchFails(f) \/ StoreMembers(f)
        PROVE  Agree'
    BY <2>6, FetchAgree
  <2>7. ASSUME NEW c \in Channels, NEW u \in Users, Move(c, u) PROVE Agree'
    BY <2>7, MoveAgree
  <2>8. CASE Break
    BY <2>8 DEF Break, Agree
  <2>9. CASE Reconnect
    <3>1. Len(stream') = 0 /\ late' = Fetchers /\ poop' = "connected"
      BY <2>9, EmptySeq DEF Reconnect
    <3>2. \A c \in Channels, u \in Users :
            LastSays(stream', c, u, slackMembers'[c])
      BY <3>1 DEF LastSays
    <3> QED BY <3>1, <3>2 DEF Agree
  <2>10. CASE BootstrapChannelUserList \/ UNCHANGED vars
    BY <2>10 DEF BootstrapChannelUserList, cache, slack, history, vars, Agree
  <2> QED BY <2>1, <2>2, <2>3, <2>4, <2>5, <2>6, <2>7, <2>8, <2>9, <2>10
          DEF Next
<1> QED BY <1>1, <1>2, NextType, PTL DEF Spec

\* An entry says what Slack says, once the moves have been handled, unless a late
\* answer was stored, a move could not be resolved or was not told.
THEOREM MembersAlwaysFresh == Spec => []MembersFresh
<1>1. ASSUME TypeOK, Agree PROVE MembersFresh
  <2> SUFFICES ASSUME linked, poop \in {"select", "found"},
                      NEW c \in cached \ (doubtful \cup untold),
                      c \in Channels, NEW u \in Users, Settled(c, u)
               PROVE  u \in members[c] <=> u \in slackMembers[c]
    BY <1>1 DEF MembersFresh, TypeOK
  <2>1. Silent(stream, c, u)
    BY DEF Settled, Silent, About
  <2>2. c \in Channels \ untold /\ c \in cached \ doubtful
    OBVIOUS
  <2>3. Same(u, members[c], slackMembers[c])
    BY <1>1, <2>1, <2>2 DEF Agree
  <2> QED BY <2>3 DEF Same
<1> QED BY <1>1, AgreeAlways, PTL
=============================================================================
