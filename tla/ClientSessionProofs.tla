------------------------- MODULE ClientSessionProofs -------------------------
(***************************************************************************)
(* TypeOK, ChansInStep, JoinsShown and NickInStep of ClientSession, for    *)
(* any channels and nicks, any lists of channels the client sends and any  *)
(* number of commands and changes.                                         *)
(*                                                                         *)
(* All three rest on Order, where the welcome is in the life of a client.  *)
(* What the client will show once the lines under way have arrived says    *)
(* the rest: InStep of the channels it joined itself, Owed of those Slack  *)
(* has the user in, and NickUnderWay of the nick.                          *)
(***************************************************************************)
EXTENDS ClientSession, SequenceTheorems, FiniteSetTheorems, TLAPS

(***************************************************************************)
(* The inductive invariants                                                *)
(***************************************************************************)

\* A line that welcomes the client.
Greeting(line) == line # None /\ line.cmd = "001"

\* Input has decided on the nick the client is welcomed by.
Decided == state = "registered" /\ doing \notin {"straighten", "copy"}

\* Which lines each goroutine sends, and where the welcome is.
Order ==
  /\ doing = "waiting" => state = "registering" /\ say = None
  /\ state # "registered" =>
       doing \in {"waiting", "read", "join"} /\ ~view.welcomed /\ view.chans = {}
  /\ say # None => \/ say.cmd = "001" /\ doing = "memberships"
                   \/ say.cmd = "NICK" /\ doing \in {"copy", "read"}
                   \/ say.cmd \in {"JOIN", "PART"} /\ doing \in {"rejoin", "join", "read"}
  /\ main # None => main.cmd \in {"NICK", "JOIN", "JOINED"}
  /\ routed # None => routed.cmd \in {"NICK", "PART"}
  /\ hand # None => hand.cmd \in {"001", "NICK", "JOIN", "PART"}
  /\ \A i \in 1 .. Len(events) : events[i].cmd \in {"BURST", "NICK", "JOINED", "PART"}
  /\ view.welcomed \/ Greeting(hand) => Decided
  /\ Decided => view.welcomed \/ Greeting(hand) \/ Greeting(say)
  /\ ~(view.welcomed /\ Greeting(hand))
  /\ Greeting(say) => ~view.welcomed /\ ~Greeting(hand)

\* A line about a channel.
About(line, c) == line # None /\ line.cmd \in {"JOIN", "PART"} /\ line.arg = c

\* While the user keeps his nick, everybody who has one for him has it.
OneNick ==
  /\ selfNick \in {"*", slackNick}
  /\ selfNick = "*" => /\ doing = "waiting" /\ main = None /\ routed = None
                       /\ events # <<>> /\ Head(events).cmd = "BURST"
  /\ \A i \in 1 .. Len(events) :
       events[i].cmd # "NICK" /\ (events[i].cmd = "BURST" => events[i].arg = slackNick)
  /\ ~Renaming(routed)
  /\ \A line \in {say, main, hand} :
       Renaming(line) \/ Greeting(line) => line.arg = slackNick
  /\ view.welcomed => view.nick = slackNick
  /\ Decided => clientNick = slackNick

\* What input says of a channel, and then what is in hand, counts before what
\* the client shows.
Shows(c) ==
  IF About(say, c) THEN say.cmd = "JOIN"
  ELSE IF About(hand, c) THEN hand.cmd = "JOIN"
  ELSE c \in view.chans

\* Until the client is welcomed, whatever it is told of a channel, input has yet
\* to say it again.
InStep(c) ==
  /\ Shows(c) <=> c \in joinedChans
  /\ state # "registered" /\ About(say, c) => say.cmd = "PART"
  /\ ~view.welcomed /\ (c \in view.chans \/ (About(hand, c) /\ hand.cmd = "JOIN")) =>
       About(say, c)

\* What main and the router tell of channels, Slack told them.
Told ==
  /\ main # None /\ main.cmd # "NICK" => main.arg \in touched
  /\ routed # None /\ routed.cmd # "NICK" => routed.arg \in touched

\* The client makes something of what input tells it of channels.
Counted ==
  /\ \A c \in Known : About(say, c) /\ state = "registered" => say.who = slackNick
  /\ \A c \in Known \ touched : About(hand, c) /\ view.welcomed => hand.who = slackNick

ChanInv ==
  used["renames"] = 0 =>
    /\ OneNick /\ Told /\ Counted
    /\ \A c \in Known \ (early \cup touched) : InStep(c)

\* The last event about the channel is that the user joined it.
Coming(c) ==
  \E i \in 1 .. Len(events) :
    /\ events[i].cmd = "JOINED" /\ events[i].arg = c
    /\ \A j \in i + 1 .. Len(events) : ~(events[j].cmd = "PART" /\ events[j].arg = c)

\* Nobody will tell main about the channel.
Settled(c) ==
  \A i \in 1 .. Len(events) :
    ~(events[i].cmd \in {"JOINED", "PART"} /\ events[i].arg = c)

\* Input will join the channel of itself.
ToJoin(c) ==
  \/ c \in memberships /\ (~Decided \/ doing = "memberships")
  \/ doing = "rejoin" /\ \E i \in 1 .. Len(joins) : joins[i] = c
  \/ say # None /\ say.cmd = "JOIN" /\ say.arg = c /\ Decided /\ say.who = slackNick

\* The join is with main, in hand, shown, or up to input.
OnItsWay(c) ==
  \/ /\ main # None /\ main.arg = c
     /\ main.cmd = "JOINED" \/ (main.cmd = "JOIN" /\ view.welcomed /\ main.who = slackNick)
  \/ About(hand, c) /\ hand.cmd = "JOIN" /\ view.welcomed /\ hand.who = slackNick
  \/ /\ ~(About(hand, c) /\ hand.cmd = "PART")
     /\ c \in view.chans \/ ToJoin(c)

\* A channel the user is in that the client has to show.
Owed(c) == Coming(c) \/ (Settled(c) /\ ~Parting(c) /\ OnItsWay(c))

JoinInv ==
  used["renames"] = 0 =>
    /\ \A c \in Known : About(say, c) /\ say.cmd = "PART" => c \in parted
    /\ \A c \in slackIn \ (missed \cup parted) : Owed(c)

\* The changes of nick under way form a chain from the nick main last heard of
\* to the one the user has.
TellsNick(i) == i = 0 \/ events[i].cmd \in {"NICK", "BURST"}
NickAt(i) == IF i = 0 THEN told ELSE events[i].arg
LastBefore(i, j) == TellsNick(i) /\ \A k \in i + 1 .. j - 1 : ~TellsNick(k)

Chain ==
  /\ \A j \in 1 .. Len(events) : \A i \in 0 .. j - 1 :
       events[j].cmd = "NICK" /\ LastBefore(i, j) => events[j].who = NickAt(i)
  /\ linked => \A i \in 0 .. Len(events) :
                 LastBefore(i, Len(events) + 1) => NickAt(i) = slackNick

\* main or the router still has to tell of a change from the nick.
ToldLater(n) == \E line \in {main, routed} : Renaming(line) /\ line.who = n

\* The nick is the one main last heard of, or main or the router will change it.
Current(n) == n = told \/ ToldLater(n)

\* The client's nick once what is in hand is written.
NickShown ==
  IF Greeting(hand) \/ (Renaming(hand) /\ hand.who = view.nick) THEN hand.arg
  ELSE view.nick

\* What input has to say of the nick is overtaken: astray is next.
Overtaken ==
  Renaming(hand) /\ (Renaming(say) \/ Greeting(say)) /\ hand.arg # say.arg

\* One of them at most has to, and it tells the nick main last heard of.
Telling ==
  /\ \A line \in {main, routed} : Renaming(line) => line.arg = told
  /\ ~(Renaming(main) /\ Renaming(routed))

\* What input has to say of the nick is current, and so is what the client shows.
Straight ==
  /\ Renaming(say) \/ Greeting(say) => Current(say.arg)
  /\ view.welcomed \/ Greeting(hand) => Current(NickShown)

NickUnderWay == ~astray => Telling /\ (Decided => Overtaken \/ Straight)

(***************************************************************************)
(* Types                                                                   *)
(***************************************************************************)

\* A line with its parts is one.
LEMMA LineType ==
  ASSUME NEW cmd, NEW who \in Names, NEW arg,
         \/ cmd \in {"001", "NICK", "BURST"} /\ arg \in Names
         \/ cmd \in {"JOIN", "PART", "JOINED"} /\ arg \in Known
  PROVE  Line(cmd, who, arg) \in Lines /\ Line(cmd, who, arg) # None
  BY NoLine DEF Line, Lines

\* What a line has, by its command.
LEMMA LineParts ==
  ASSUME NEW line \in Lines
  PROVE  /\ line # None
         /\ line.who \in Names
         /\ line.cmd \in {"001", "NICK", "BURST", "JOIN", "PART", "JOINED"}
         /\ line.cmd \in {"001", "NICK", "BURST"} => line.arg \in Names
         /\ line.cmd \in {"JOIN", "PART", "JOINED"} => line.arg \in Known
  BY NoLine DEF Lines

\* What main receives is a line, and the rest are lines.
LEMMA EventsType ==
  ASSUME TypeOK, events # <<>>
  PROVE  Head(events) \in Lines /\ Tail(events) \in Seq(Lines)
  BY HeadTailProperties DEF TypeOK

\* One more line keeps the type of the events.
LEMMA AppendType ==
  ASSUME TypeOK, NEW line \in Lines,
         events' = Append(events, line) \/ events' = events
  PROVE  events' \in Seq(Lines)
<1>1. events \in Seq(Lines)
  BY DEF TypeOK
<1>2. Append(events, line) \in Seq(Lines)
  BY <1>1, AppendProperties
<1> QED BY <1>1, <1>2

\* What is left when main has received an event.
LEMMA TailEvents ==
  ASSUME TypeOK, events # <<>>, events' = Tail(events)
  PROVE  /\ Len(events) \in Nat \ {0} /\ Len(events') = Len(events) - 1
         /\ Head(events) = events[1]
         /\ \A i \in 1 .. Len(events') :
              i + 1 \in 1 .. Len(events) /\ events'[i] = events[i + 1]
<1>1. events \in Seq(Lines)
  BY DEF TypeOK
<1> QED BY <1>1, HeadTailProperties, LenProperties, EmptySeq

\* The events and one more.
LEMMA AppendEvents ==
  ASSUME TypeOK, NEW line \in Lines, events' = Append(events, line)
  PROVE  /\ Len(events) \in Nat /\ Len(events') = Len(events) + 1
         /\ events'[Len(events) + 1] = line
         /\ \A i \in 1 .. Len(events) : events'[i] = events[i]
         /\ events' # <<>> /\ (events # <<>> => Head(events') = Head(events))
<1>1. events \in Seq(Lines)
  BY DEF TypeOK
<1>2. /\ Len(events) \in Nat /\ events' \in Seq(Lines) /\ Len(events') = Len(events) + 1
      /\ \A i \in 1 .. Len(events) : events'[i] = events[i]
      /\ events'[Len(events) + 1] = line
  BY <1>1, AppendProperties, LenProperties
<1>3. events' # <<>>
  BY <1>2
<1>4. ASSUME events # <<>> PROVE Head(events') = Head(events)
  <2>1. Len(events) > 0
    BY <1>1, <1>4, EmptySeq
  <2>2. Head(events') = events'[1] /\ Head(events) = events[1]
    BY <1>1, <1>2, <1>3, <1>4, HeadTailProperties
  <2> QED BY <1>2, <2>1, <2>2
<1> QED BY <1>2, <1>3, <1>4

\* The list input takes the memberships from has known channels.
LEMMA MembershipsType ==
  ASSUME TypeOK, GetJoinedChannels
  PROVE  joins' \in Seq(Known)
<1>1. IsFiniteSet(memberships)
  BY SessionAssumption, FS_Subset DEF TypeOK
<1>2. Cardinality(memberships) \in Nat
  BY <1>1, FS_CardinalityType
<1>3. joins' \in [1 .. Cardinality(memberships) -> Known]
  BY DEF GetJoinedChannels, TypeOK
<1> QED BY <1>2, <1>3

\* A change outside keeps the type of the counters.
LEMMA ChangeType ==
  ASSUME TypeOK, NEW kind \in {"commands", "moves", "renames", "breaks"},
         used' = [used EXCEPT ![kind] = @ + 1]
  PROVE  used' \in [{"commands", "moves", "renames", "breaks"} -> Nat]
  BY DEF TypeOK

\* Initially the client is connected and the first burst is due.
LEMMA InitType == Init => TypeOK
<1> SUFFICES ASSUME Init PROVE TypeOK
  OBVIOUS
<1>1. Line("BURST", slackNick, slackNick) \in Lines
  BY LineType DEF Init, Names
<1>2. events \in Seq(Lines)
  BY <1>1 DEF Init
<1> QED BY <1>2, EmptySeq DEF Init, TypeOK, Names

\* The commands keep the types.
LEMMA CommandType ==
  ASSUME TypeOK,
         \/ \E n \in Nicks : NickCmd(n)
         \/ UserCmd \/ \E list \in JoinLists : JoinCmd(list)
         \/ \E c \in Known : PartCmd(c)
  PROVE  TypeOK'
<1> USE DEF TypeOK, fanout, slack, session
<1>1. /\ used' \in [{"commands", "moves", "renames", "breaks"} -> Nat]
      /\ UNCHANGED <<fanout, hand, events, slack, told, touched, missed>>
  BY DEF NickCmd, UserCmd, JoinCmd, PartCmd, Command
<1>2. ASSUME NEW n \in Nicks, NickCmd(n) PROVE TypeOK'
  <2>1. Line("NICK", n, selfNick) \in Lines
    BY LineType DEF Names
  <2>2. say' \in Lines \cup {None} /\ clientNick' \in Names
    BY <1>2, <2>1 DEF NickCmd, Names
  <2>3. view' \in [nick : Names, chans : SUBSET Known, welcomed : BOOLEAN]
    BY <1>2 DEF NickCmd, Names
  <2> QED BY <1>1, <1>2, <2>2, <2>3 DEF NickCmd
<1>3. CASE UserCmd
  BY <1>1, <1>3 DEF UserCmd
<1>4. ASSUME NEW list \in JoinLists, JoinCmd(list) PROVE TypeOK'
  BY <1>1, <1>4, SessionAssumption DEF JoinCmd
<1>5. ASSUME NEW c \in Known, PartCmd(c) PROVE TypeOK'
  <2>1. Line("PART", clientNick, c) \in Lines
    BY LineType
  <2> QED BY <1>1, <1>5, <2>1 DEF PartCmd
<1> QED BY <1>2, <1>3, <1>4, <1>5

\* What input does with them keeps the types.
LEMMA InputType ==
  ASSUME TypeOK,
         Straighten \/ Welcome \/ GetJoinedChannels \/ Rejoin \/ Join \/ JoinsDone
  PROVE  TypeOK'
<1> USE DEF TypeOK, fanout, slack
<1>1. UNCHANGED <<state, fanout, hand, view, events, slack, used, told, touched,
                  missed, parted>>
  BY DEF Straighten, Welcome, GetJoinedChannels, Rejoin, Join, JoinsDone, Go
<1>2. CASE Straighten
  <2>1. Line("NICK", clientNick, selfNick) \in Lines
    BY LineType
  <2> QED BY <1>1, <1>2, <2>1 DEF Straighten
<1>3. CASE Welcome
  <2>1. Line("001", selfNick, selfNick) \in Lines
    BY LineType
  <2> QED BY <1>1, <1>3, <2>1 DEF Welcome
<1>4. CASE GetJoinedChannels
  <2>1. joins' \in Seq(Channels)
    BY <1>4, MembershipsType, SessionAssumption
  <2> QED BY <1>1, <1>4, <2>1 DEF GetJoinedChannels
<1>5. CASE Rejoin \/ Join
  <2>1. joins # <<>> /\ joins' = Tail(joins) /\ HandleChannelJoined(Head(joins))
        /\ UNCHANGED <<clientNick, doing, astray>>
    BY <1>5 DEF Rejoin, Join
  <2>2. joins' \in Seq(Channels)
    BY <2>1, HeadTailProperties
  <2>3. CASE Head(joins) \in Known
    <3>1. Line("JOIN", clientNick, Head(joins)) \in Lines
      BY <2>3, LineType
    <3> QED BY <1>1, <2>1, <2>2, <2>3, <3>1 DEF HandleChannelJoined
  <2>4. CASE Head(joins) \notin Known
    BY <1>1, <2>1, <2>2, <2>4 DEF HandleChannelJoined
  <2> QED BY <2>3, <2>4
<1>6. CASE JoinsDone
  BY <1>1, <1>6, EmptySeq DEF JoinsDone
<1> QED BY <1>2, <1>3, <1>4, <1>5, <1>6

\* main and the router keep the types.
LEMMA MainType ==
  ASSUME TypeOK, ConnectBurst \/ ChannelJoined \/ Route \/ SendChannelJoinedResponse
  PROVE  TypeOK'
<1> USE DEF TypeOK, session, input, slack
<1>1. CASE ConnectBurst \/ ChannelJoined \/ Route
  <2>1. /\ main = None /\ events # <<>> /\ events' = Tail(events)
        /\ UNCHANGED <<session, input, hand, view, slack, used, early, missed>>
    BY <1>1 DEF ConnectBurst, ChannelJoined, Route, MainReceive
  <2>2. Head(events) \in Lines /\ events' \in Seq(Lines)
    BY <2>1, EventsType
  <2>3. CASE ConnectBurst
    <3>1. Head(events).arg \in Names
      BY <2>2, <2>3, LineParts DEF ConnectBurst
    <3>2. Line("NICK", selfNick, selfNick') \in Lines
      BY <2>3, <3>1, LineType DEF ConnectBurst
    <3>3. main' \in Lines \cup {None} /\ selfNick' \in Names /\ told' \in Names
      BY <2>3, <3>1, <3>2 DEF ConnectBurst
    <3>4. astray' \in BOOLEAN /\ UNCHANGED <<routed, touched, parted>>
      BY <2>3 DEF ConnectBurst
    <3> QED BY <2>1, <2>2, <3>3, <3>4
  <2>4. CASE ChannelJoined
    <3>1. Head(events).arg \in Known
      BY <2>2, <2>4, LineParts DEF ChannelJoined
    <3> QED BY <2>1, <2>2, <2>4, <3>1 DEF ChannelJoined
  <2>5. CASE Route
    <3>1. CASE Head(events).cmd = "NICK"
      <4>1. Head(events).arg \in Names
        BY <2>2, <3>1, LineParts
      <4> QED BY <2>1, <2>2, <2>5, <3>1, <4>1 DEF Route
    <3>2. CASE Head(events).cmd = "PART"
      <4>1. Head(events).arg \in Known
        BY <2>2, <3>2, LineParts
      <4> QED BY <2>1, <2>2, <2>5, <3>2, <4>1 DEF Route
    <3> QED BY <2>5, <3>1, <3>2 DEF Route
  <2> QED BY <1>1, <2>3, <2>4, <2>5
<1>2. CASE SendChannelJoinedResponse
  <2>1. main \in Lines /\ main.arg \in Known
    BY <1>2, LineParts DEF SendChannelJoinedResponse
  <2>2. Line("JOIN", clientNick, main.arg) \in Lines
    BY <2>1, LineType
  <2> QED BY <1>2, <2>1, <2>2 DEF SendChannelJoinedResponse
<1> QED BY <1>1, <1>2

\* What a client makes of a line is a view.
LEMMA ShownType ==
  ASSUME TypeOK, NEW l \in Lines
  PROVE  Shown(l, view) \in [nick : Names, chans : SUBSET Known, welcomed : BOOLEAN]
  BY LineParts DEF TypeOK, Shown

\* The writer keeps the types.
LEMMA OutputType ==
  ASSUME TypeOK, Take \/ Write
  PROVE  TypeOK'
<1> USE DEF TypeOK, session, input, fanout, slack, aside
<1>1. CASE Take
  BY <1>1 DEF Take
<1>2. CASE Write
  <2>1. Shown(hand, view) \in [nick : Names, chans : SUBSET Known, welcomed : BOOLEAN]
    BY <1>2, ShownType DEF Write
  <2>2. view' \in [nick : Names, chans : SUBSET Known, welcomed : BOOLEAN]
    BY <1>2, <2>1 DEF Write
  <2> QED BY <1>2, <2>2 DEF Write
<1> QED BY <1>1, <1>2

\* Slack and the network keep the types.
LEMMA OutsideType ==
  ASSUME TypeOK,
         \/ \E n \in Nicks : Rename(n)
         \/ \E c \in Known : JoinInSlack(c) \/ LeaveInSlack(c)
         \/ Break \/ Reconnect
  PROVE  TypeOK'
<1> USE DEF TypeOK, session, input, fanout, Outside
<1>1. ASSUME NEW n \in Nicks, Rename(n) PROVE TypeOK'
  <2>1. Line("NICK", slackNick, n) \in Lines
    BY LineType DEF Names
  <2>2. events' = Append(events, Line("NICK", slackNick, n)) \/ events' = events
    BY <1>1 DEF Rename
  <2>4. events' \in Seq(Lines)
    BY <2>1, <2>2, AppendType
  <2>3. used' \in [{"commands", "moves", "renames", "breaks"} -> Nat]
    BY <1>1, ChangeType DEF Rename, Change
  <2> QED BY <1>1, <2>3, <2>4 DEF Rename
<1>2. ASSUME NEW c \in Known, JoinInSlack(c) PROVE TypeOK'
  <2>1. Line("JOINED", slackNick, c) \in Lines
    BY LineType DEF Names
  <2>2. events' = Append(events, Line("JOINED", slackNick, c)) \/ events' = events
    BY <1>2 DEF JoinInSlack
  <2>4. events' \in Seq(Lines)
    BY <2>1, <2>2, AppendType
  <2>3. used' \in [{"commands", "moves", "renames", "breaks"} -> Nat]
    BY <1>2, ChangeType DEF JoinInSlack, Change
  <2> QED BY <1>2, <2>3, <2>4, ZenonT(60) DEF JoinInSlack
<1>3. ASSUME NEW c \in Known, LeaveInSlack(c) PROVE TypeOK'
  <2>1. Line("PART", slackNick, c) \in Lines
    BY LineType DEF Names
  <2>2. events' = Append(events, Line("PART", slackNick, c)) \/ events' = events
    BY <1>3 DEF LeaveInSlack
  <2>4. events' \in Seq(Lines)
    BY <2>1, <2>2, AppendType
  <2>3. used' \in [{"commands", "moves", "renames", "breaks"} -> Nat]
    BY <1>3, ChangeType DEF LeaveInSlack, Change
  <2> QED BY <1>3, <2>3, <2>4 DEF LeaveInSlack
<1>4. CASE Break
  <2>1. used' \in [{"commands", "moves", "renames", "breaks"} -> Nat]
    BY <1>4, ChangeType DEF Break, Change
  <2> QED BY <1>4, <2>1 DEF Break
<1>5. CASE Reconnect
  <2>1. Line("BURST", slackNick, slackNick) \in Lines
    BY LineType DEF Names
  <2>2. events' \in Seq(Lines)
    BY <1>5, <2>1 DEF Reconnect
  <2> QED BY <1>5, <2>2 DEF Reconnect
<1> QED BY <1>1, <1>2, <1>3, <1>4, <1>5

\* Every step keeps the types.
LEMMA StepType == TypeOK /\ [Next]_vars => TypeOK'
<1> SUFFICES ASSUME TypeOK, [Next]_vars PROVE TypeOK'
  OBVIOUS
<1>1. CASE UNCHANGED vars
  BY <1>1 DEF vars, TypeOK
<1>2. CASE Next
  BY <1>2, CommandType, InputType, MainType, OutputType, OutsideType DEF Next
<1> QED BY <1>1, <1>2

\* The state of the client and of its nick, the lines under way and the events
\* have their types.
THEOREM TypeCorrect == Spec => []TypeOK
  BY InitType, StepType, PTL DEF Spec

(***************************************************************************)
(* The lines under way, and the welcome among them                         *)
(***************************************************************************)

\* The client knows nothing yet, and nothing is under way but the burst.
LEMMA InitOrder == Init => Order
<1> SUFFICES ASSUME Init PROVE Order
  OBVIOUS
<1>1. Len(events) = 1 /\ events[1].cmd = "BURST"
  BY DEF Init, Line
<1> QED BY <1>1 DEF Init, Order, Decided, Greeting

\* What is left of the events, and what is added to them, are events.
LEMMA OrderEvents ==
  ASSUME TypeOK, Order,
         \/ events # <<>> /\ events' = Tail(events)
         \/ \E line \in Lines : /\ events' = Append(events, line)
                                /\ line.cmd \in {"BURST", "NICK", "JOINED", "PART"}
         \/ UNCHANGED events
  PROVE  \A i \in 1 .. Len(events') :
           events'[i].cmd \in {"BURST", "NICK", "JOINED", "PART"}
<1> DEFINE Heard(s) == \A i \in 1 .. Len(s) : s[i].cmd \in {"BURST", "NICK", "JOINED", "PART"}
<1>1. events \in Seq(Lines) /\ Heard(events)
  BY DEF TypeOK, Order
<1>2. CASE events # <<>> /\ events' = Tail(events)
  BY <1>1, <1>2, TailEvents, ZenonT(30)
<1>3. ASSUME NEW line \in Lines, events' = Append(events, line),
             line.cmd \in {"BURST", "NICK", "JOINED", "PART"}
      PROVE  Heard(events')
  <2>1. \A i \in 1 .. Len(events') : i = Len(events) + 1 \/ i \in 1 .. Len(events)
    BY <1>3, AppendEvents
  <2>2. /\ events'[Len(events) + 1] = line
        /\ \A i \in 1 .. Len(events) : events'[i] = events[i]
    BY <1>3, AppendEvents
  <2> QED BY <1>1, <1>3, <2>1, <2>2, ZenonT(30)
<1>4. CASE UNCHANGED events
  BY <1>1, <1>4
<1> QED BY <1>2, <1>3, <1>4

\* The commands keep the order: input has said what it had to.
LEMMA CommandOrder ==
  ASSUME TypeOK, Order,
         \/ \E n \in Nicks : NickCmd(n)
         \/ UserCmd \/ \E list \in JoinLists : JoinCmd(list)
         \/ \E c \in Known : PartCmd(c)
  PROVE  Order'
<1> USE DEF Order, Decided, Greeting, Command, fanout, slack, session
<1>1. UNCHANGED <<fanout, hand, events>> /\ doing = "read" /\ say = None
  BY DEF NickCmd, UserCmd, JoinCmd, PartCmd
<1>2. ASSUME NEW n \in Nicks, NickCmd(n) PROVE Order'
  <2>1. Line("NICK", n, selfNick).cmd = "NICK" /\ Line("NICK", n, selfNick) # None
    BY LineType, SMTT(40) DEF Names, Line, TypeOK
  <2>2. /\ say' = None \/ (say'.cmd = "NICK" /\ state' = state)
        /\ view'.welcomed = view.welcomed /\ view'.chans = view.chans
        /\ \/ state' = state /\ doing' = "read"
           \/ state # "registered" /\ state' = "awaitingUser" /\ doing' = "read"
           \/ state # "registered" /\ state' = "registered" /\ doing' = "straighten"
    BY <1>2, <2>1 DEF NickCmd, TypeOK
  <2> QED BY <1>1, <2>2 DEF TypeOK
<1>3. CASE UserCmd
  <2>2. /\ UNCHANGED <<say, view>>
        /\ \/ state' = state /\ doing' = "read"
           \/ state # "registered" /\ state' = "awaitingNick" /\ doing' = "read"
           \/ state # "registered" /\ state' = "registered" /\ doing' = "straighten"
    BY <1>3 DEF UserCmd, TypeOK
  <2> QED BY <1>1, <2>2 DEF TypeOK
<1>4. ASSUME NEW list \in JoinLists, JoinCmd(list) PROVE Order'
  BY <1>1, <1>4 DEF JoinCmd
<1>5. ASSUME NEW c \in Known, PartCmd(c) PROVE Order'
  <2>1. Line("PART", clientNick, c).cmd = "PART"
    BY DEF Line
  <2> QED BY <1>1, <1>5, <2>1 DEF PartCmd
<1> QED BY <1>2, <1>3, <1>4, <1>5

\* What input does with them keeps the order: it welcomes the client once.
LEMMA InputOrder ==
  ASSUME TypeOK, Order,
         Straighten \/ Welcome \/ GetJoinedChannels \/ Rejoin \/ Join \/ JoinsDone
  PROVE  Order'
<1> USE DEF Order, Decided, Greeting, Go, fanout, slack
<1>1. UNCHANGED <<state, fanout, hand, view, events, slack>>
  BY DEF Straighten, Welcome, GetJoinedChannels, Rejoin, Join, JoinsDone
<1>2. CASE Straighten
  <2>1. Line("NICK", clientNick, selfNick).cmd = "NICK"
    BY DEF Line
  <2> QED BY <1>1, <1>2, <2>1 DEF Straighten
<1>3. CASE Welcome
  <2>1. Line("001", selfNick, selfNick).cmd = "001" /\ Line("001", selfNick, selfNick) # None
    BY LineType DEF TypeOK, Line
  <2> QED BY <1>1, <1>3, <2>1 DEF Welcome
<1>4. CASE GetJoinedChannels
  BY <1>1, <1>4 DEF GetJoinedChannels
<1>5. CASE Rejoin \/ Join
  <2>1. say = None /\ HandleChannelJoined(Head(joins))
        /\ doing \in {"rejoin", "join"} /\ UNCHANGED doing
    BY <1>5 DEF Rejoin, Join
  <2>2. say' = None \/ say'.cmd = "JOIN"
    BY <2>1 DEF HandleChannelJoined, Line
  <2> QED BY <1>1, <2>1, <2>2
<1>6. CASE JoinsDone
  BY <1>1, <1>6 DEF JoinsDone
<1> QED BY <1>2, <1>3, <1>4, <1>5, <1>6

\* main and the router keep the order.
LEMMA MainOrder ==
  ASSUME TypeOK, Order,
         ConnectBurst \/ ChannelJoined \/ Route \/ SendChannelJoinedResponse
  PROVE  Order'
<1> USE DEF session, input, slack
<1>1. UNCHANGED <<session, input, hand, view>>
  BY DEF ConnectBurst, ChannelJoined, Route, SendChannelJoinedResponse, MainReceive
<1>2. \A i \in 1 .. Len(events') : events'[i].cmd \in {"BURST", "NICK", "JOINED", "PART"}
  BY OrderEvents DEF ConnectBurst, ChannelJoined, Route, SendChannelJoinedResponse, MainReceive
<1>3. main' # None => main'.cmd \in {"NICK", "JOIN", "JOINED"}
  BY DEF ConnectBurst, ChannelJoined, Route, SendChannelJoinedResponse, MainReceive, Line, Order
<1>4. routed' # None => routed'.cmd \in {"NICK", "PART"}
  BY DEF ConnectBurst, ChannelJoined, Route, SendChannelJoinedResponse, MainReceive, Order
<1> QED BY <1>1, <1>2, <1>3, <1>4 DEF Order, Decided, Greeting

\* A line passes into hand, and from there to the client if it is registered.
LEMMA OutputOrder ==
  ASSUME TypeOK, Order, Take \/ Write
  PROVE  Order'
<1> USE DEF Order, Decided, Greeting, session, input, fanout, aside, slack
<1>1. CASE Take
  <2>1. UNCHANGED <<session, view, events>> /\ hand = None
    BY <1>1 DEF Take
  <2>2. CASE say # None /\ hand' = say /\ say' = None /\ UNCHANGED <<main, routed, doing>>
    BY <2>1, <2>2
  <2>3. CASE /\ main # None /\ main.cmd # "JOINED" /\ hand' = main /\ main' = None
             /\ doing' = (IF doing = "waiting" THEN "read" ELSE doing)
             /\ UNCHANGED <<say, routed>>
    <3>1. hand'.cmd \in {"NICK", "JOIN"} /\ main' = None /\ UNCHANGED <<say, routed>>
      BY <2>3
    <3>2. CASE doing = "waiting"
      <4>1. doing' = "read" /\ state = "registering" /\ say = None
        BY <2>3, <3>2
      <4> QED BY <2>1, <3>1, <3>2, <4>1
    <3>3. CASE doing # "waiting"
      <4>1. UNCHANGED doing
        BY <2>3, <3>3
      <4> QED BY <2>1, <3>1, <3>3, <4>1
    <3> QED BY <3>2, <3>3
  <2>4. CASE routed # None /\ hand' = routed /\ routed' = None /\ UNCHANGED <<say, main, doing>>
    BY <2>1, <2>4
  <2> HIDE DEF Order
  <2> QED BY <1>1, <2>2, <2>3, <2>4 DEF Take
<1>2. CASE Write
  <2>1. /\ UNCHANGED <<session, input, fanout, events>>
        /\ hand # None /\ hand' = None
        /\ view' = IF state = "registered" THEN Shown(hand, view) ELSE view
    BY <1>2 DEF Write
  <2>2. state = "registered" => (view'.welcomed <=> view.welcomed \/ Greeting(hand))
    BY <2>1 DEF Shown, TypeOK
  <2> QED BY <2>1, <2>2
<1> QED BY <1>1, <1>2

\* Slack and the network keep the order.
LEMMA OutsideOrder ==
  ASSUME TypeOK, Order,
         \/ \E n \in Nicks : Rename(n)
         \/ \E c \in Known : JoinInSlack(c) \/ LeaveInSlack(c)
         \/ Break \/ Reconnect
  PROVE  Order'
<1> USE DEF session, input, fanout
<1>1. UNCHANGED <<session, input, fanout, hand, view>>
  BY DEF Rename, JoinInSlack, LeaveInSlack, Break, Reconnect, Outside
<1> DEFINE Heard == \A i \in 1 .. Len(events') :
                      events'[i].cmd \in {"BURST", "NICK", "JOINED", "PART"}
<1>2. ASSUME NEW n \in Nicks, Rename(n) PROVE Heard
  <2>1. Line("NICK", slackNick, n) \in Lines /\ Line("NICK", slackNick, n).cmd = "NICK"
    BY LineType DEF Line, Names, TypeOK
  <2> QED BY <1>2, <2>1, OrderEvents DEF Rename
<1>3. ASSUME NEW c \in Known, JoinInSlack(c) PROVE Heard
  <2>1. Line("JOINED", slackNick, c) \in Lines /\ Line("JOINED", slackNick, c).cmd = "JOINED"
    BY LineType DEF Line, Names, TypeOK
  <2> QED BY <1>3, <2>1, OrderEvents DEF JoinInSlack
<1>4. ASSUME NEW c \in Known, LeaveInSlack(c) PROVE Heard
  <2>1. Line("PART", slackNick, c) \in Lines /\ Line("PART", slackNick, c).cmd = "PART"
    BY LineType DEF Line, Names, TypeOK
  <2> QED BY <1>4, <2>1, OrderEvents DEF LeaveInSlack
<1>5. ASSUME Break PROVE Heard
  <2>1. UNCHANGED events
    BY <1>5 DEF Break
  <2> QED BY <2>1, OrderEvents
<1>6. ASSUME Reconnect PROVE Heard
  <2>1. Len(events') = 1 /\ events'[1].cmd = "BURST"
    BY <1>6 DEF Reconnect, Line
  <2>2. \A i \in 1 .. Len(events') : i = 1
    BY <2>1
  <2> QED BY <2>1, <2>2
<1>7. Heard
  BY <1>2, <1>3, <1>4, <1>5, <1>6
<1> QED BY <1>1, <1>7 DEF Order, Decided, Greeting

\* Every step keeps the order.
LEMMA StepOrder == TypeOK /\ Order /\ [Next]_vars => Order'
<1> SUFFICES ASSUME TypeOK, Order, [Next]_vars PROVE Order'
  OBVIOUS
<1>1. CASE UNCHANGED vars
  BY <1>1 DEF vars, Order, Decided, Greeting
<1>2. CASE Next
  BY <1>2, CommandOrder, InputOrder, MainOrder, OutputOrder, OutsideOrder DEF Next
<1> QED BY <1>1, <1>2

(***************************************************************************)
(* While the user keeps his nick                                           *)
(***************************************************************************)

\* A run without a change of nick has none in its last step.
LEMMA NoRename ==
  ASSUME TypeOK, [Next]_vars, used'["renames"] = 0
  PROVE  used["renames"] = 0 /\ UNCHANGED slackNick /\ ~\E n \in Nicks : Rename(n)
<1>1. ASSUME NEW n \in Nicks, Rename(n) PROVE FALSE
  BY <1>1 DEF Rename, Change, TypeOK
<1>2. CASE UNCHANGED vars
  BY <1>1, <1>2 DEF vars
<1>3. CASE \/ \E n \in Nicks : NickCmd(n)
           \/ UserCmd \/ \E list \in JoinLists : JoinCmd(list)
           \/ \E c \in Known : PartCmd(c)
  BY <1>1, <1>3 DEF NickCmd, UserCmd, JoinCmd, PartCmd, Command, slack, TypeOK
<1>4. CASE Straighten \/ Welcome \/ GetJoinedChannels \/ Rejoin \/ Join \/ JoinsDone
  BY <1>1, <1>4 DEF Straighten, Welcome, GetJoinedChannels, Rejoin, Join, JoinsDone, Go, slack
<1>5. CASE ConnectBurst \/ ChannelJoined \/ Route \/ SendChannelJoinedResponse
  BY <1>1, <1>5 DEF ConnectBurst, ChannelJoined, Route, SendChannelJoinedResponse,
                    MainReceive, slack
<1>6. CASE Take \/ Write
  BY <1>1, <1>6 DEF Take, Write, slack
<1>7. CASE \/ \E c \in Known : JoinInSlack(c) \/ LeaveInSlack(c)
           \/ Break \/ Reconnect
  BY <1>1, <1>7 DEF JoinInSlack, LeaveInSlack, Break, Reconnect, Change, TypeOK
<1> QED BY <1>1, <1>2, <1>3, <1>4, <1>5, <1>6, <1>7 DEF Next

\* Before the first burst nobody has a nick for the user.
LEMMA InitOneNick == Init => OneNick
<1> SUFFICES ASSUME Init PROVE OneNick
  OBVIOUS
<1>1. /\ Len(events) = 1 /\ events[1].cmd = "BURST" /\ events[1].arg = slackNick
      /\ events # <<>> /\ Head(events).cmd = "BURST"
  BY DEF Init, Line
<1> QED BY <1>1 DEF Init, OneNick, Decided, Renaming, Greeting

\* Commands and what input does with them: every nick input uses is the server's.
LEMMA InputOneNick ==
  ASSUME TypeOK, Order, OneNick, UNCHANGED slackNick,
         \/ \E n \in Nicks : NickCmd(n)
         \/ UserCmd \/ \E list \in JoinLists : JoinCmd(list)
         \/ \E c \in Known : PartCmd(c)
         \/ Straighten \/ Welcome \/ GetJoinedChannels \/ Rejoin \/ Join \/ JoinsDone
  PROVE  OneNick'
<1> DEFINE Saying == Renaming(say') \/ Greeting(say') => say'.arg = slackNick
           Named == /\ view'.welcomed => view'.nick = slackNick
                    /\ Decided' => clientNick' = slackNick
           Begun == doing' # "waiting" /\ doing # "waiting" /\ selfNick = slackNick
<1>1. UNCHANGED <<selfNick, main, routed, hand, events>>
  BY DEF NickCmd, UserCmd, JoinCmd, PartCmd, Command, Straighten, Welcome,
         GetJoinedChannels, Rejoin, Join, JoinsDone, Go, fanout
<1>2. ASSUME NEW n \in Nicks, NickCmd(n) PROVE Saying /\ Named /\ Begun
  BY <1>2 DEF NickCmd, Command, Line, Renaming, Greeting, Decided, OneNick, Order, TypeOK
<1>3. ASSUME UserCmd PROVE Saying /\ Named /\ Begun
  BY <1>3 DEF UserCmd, Command, Renaming, Greeting, Decided, OneNick, Order, TypeOK
<1>4. ASSUME NEW list \in JoinLists, JoinCmd(list) PROVE Saying /\ Named /\ Begun
  BY <1>4 DEF JoinCmd, Command, session, Renaming, Greeting, Decided, OneNick
<1>5. ASSUME NEW c \in Known, PartCmd(c) PROVE Saying /\ Named /\ Begun
  BY <1>5 DEF PartCmd, Command, Line, Renaming, Greeting, Decided, OneNick
<1>6. ASSUME Straighten PROVE Saying /\ Named /\ Begun
  BY <1>6 DEF Straighten, Go, Line, Renaming, Greeting, Decided, OneNick
<1>7. ASSUME Welcome PROVE Saying /\ Named /\ Begun
  BY <1>7 DEF Welcome, Go, Line, Renaming, Greeting, Decided, OneNick
<1>8. ASSUME GetJoinedChannels PROVE Saying /\ Named /\ Begun
  BY <1>8 DEF GetJoinedChannels, Go, Renaming, Greeting, Decided, OneNick
<1>9. ASSUME Rejoin \/ Join PROVE Saying /\ Named /\ Begun
  BY <1>9 DEF Rejoin, Join, HandleChannelJoined, Go, Line, Renaming, Greeting, Decided, OneNick
<1>10. ASSUME JoinsDone PROVE Saying /\ Named /\ Begun
  BY <1>10 DEF JoinsDone, Go, Renaming, Greeting, Decided, OneNick
<1>11. Saying /\ Named /\ Begun
  BY <1>2, <1>3, <1>4, <1>5, <1>6, <1>7, <1>8, <1>9, <1>10
<1> QED BY <1>1, <1>11, SessionAssumption DEF OneNick, Renaming, Greeting, TypeOK

\* main and the router: the first burst has the user's nick, and so have all.
LEMMA MainOneNick ==
  ASSUME TypeOK, Order, OneNick, UNCHANGED slackNick,
         ConnectBurst \/ ChannelJoined \/ Route \/ SendChannelJoinedResponse
  PROVE  OneNick'
<1> DEFINE Heard == \A i \in 1 .. Len(events') :
                      /\ events'[i].cmd # "NICK"
                      /\ events'[i].cmd = "BURST" => events'[i].arg = slackNick
<1>1. UNCHANGED <<state, doing, say, hand, view, clientNick>>
  BY DEF ConnectBurst, ChannelJoined, Route, SendChannelJoinedResponse, MainReceive,
         session, input
<1>2. CASE ConnectBurst \/ ChannelJoined \/ Route
  <2>1. main = None /\ events # <<>> /\ events' = Tail(events)
    BY <1>2 DEF ConnectBurst, ChannelJoined, Route, MainReceive
  <2>2. Heard /\ Head(events).cmd # "NICK"
        /\ (Head(events).cmd = "BURST" => Head(events).arg = slackNick)
    BY <2>1, TailEvents DEF OneNick
  <2>3. CASE ConnectBurst
    <3>1. selfNick' = slackNick /\ UNCHANGED routed
          /\ (Renaming(main') => main'.arg = slackNick) /\ ~Greeting(main')
      BY <2>2, <2>3 DEF ConnectBurst, Line, Renaming, Greeting
    <3>2. slackNick # "*"
      BY SessionAssumption DEF TypeOK
    <3> QED BY <1>1, <2>2, <3>1, <3>2 DEF OneNick, Renaming, Greeting, Decided
  <2>4. CASE ChannelJoined \/ Route
    <3>1. UNCHANGED selfNick /\ selfNick = slackNick
          /\ Head(events).cmd \in {"JOINED", "PART"}
      BY <2>2, <2>4 DEF ChannelJoined, Route, OneNick
    <3>2. main' = main \/ main' = Head(events)
      BY <2>4 DEF ChannelJoined, Route
    <3>3. routed' = routed \/ routed' = Head(events)
      BY <2>4 DEF ChannelJoined, Route
    <3>4. ~Renaming(routed') /\ (Renaming(main') \/ Greeting(main') => main'.arg = slackNick)
      BY <3>1, <3>2, <3>3 DEF OneNick, Renaming, Greeting
    <3>5. slackNick # "*"
      BY SessionAssumption DEF TypeOK
    <3> QED BY <1>1, <2>2, <3>1, <3>4, <3>5 DEF OneNick, Renaming, Greeting, Decided
  <2> QED BY <1>2, <2>3, <2>4
<1>3. CASE SendChannelJoinedResponse
  <2>1. main'.cmd = "JOIN" /\ main # None /\ UNCHANGED <<selfNick, routed, events>>
    BY <1>3 DEF SendChannelJoinedResponse, Line
  <2> QED BY <1>1, <2>1, SessionAssumption DEF OneNick, Renaming, Greeting, Decided, TypeOK
<1> QED BY <1>2, <1>3

\* A line passes on, and the client takes its nick from it.
LEMMA OutputOneNick ==
  ASSUME TypeOK, Order, OneNick, UNCHANGED slackNick, Take \/ Write
  PROVE  OneNick'
<1>1. UNCHANGED <<state, clientNick, selfNick, events>>
  BY DEF Take, Write, session, fanout
<1>2. CASE Take
  <2>1. /\ UNCHANGED view
        /\ say' \in {say, None} /\ main' \in {main, None} /\ routed' \in {routed, None}
        /\ hand' \in {say, main, routed}
        /\ doing' = doing \/ (doing = "waiting" /\ main # None)
    BY <1>2 DEF Take
  <2>2. \A line \in {say', main', hand'} : Renaming(line) \/ Greeting(line) => line.arg = slackNick
    BY <2>1 DEF OneNick, Order, Renaming, Greeting
  <2>3. ~Renaming(routed')
    BY <2>1 DEF OneNick, Renaming
  <2>4. selfNick = "*" => doing' = "waiting" /\ main' = None /\ routed' = None
    BY <2>1 DEF OneNick
  <2>5. Decided' => Decided
    BY <1>1, <2>1 DEF Decided, Order
  <2> QED BY <1>1, <2>1, <2>2, <2>3, <2>4, <2>5 DEF OneNick
<1>3. CASE Write
  <2>1. /\ UNCHANGED <<doing, say, main, routed>> /\ hand # None /\ hand' = None
        /\ view' = IF state = "registered" THEN Shown(hand, view) ELSE view
    BY <1>3 DEF Write, input, fanout
  <2>2. view'.welcomed => view'.nick = slackNick
    BY <2>1 DEF Shown, OneNick, Renaming, Greeting, TypeOK
  <2> QED BY <1>1, <2>1, <2>2 DEF OneNick, Renaming, Greeting, Decided
<1> QED BY <1>2, <1>3

\* Slack and the network, but for a change of nick.
LEMMA OutsideOneNick ==
  ASSUME TypeOK, Order, OneNick, UNCHANGED slackNick,
         \/ \E c \in Known : JoinInSlack(c) \/ LeaveInSlack(c)
         \/ Break \/ Reconnect
  PROVE  OneNick'
<1>1. UNCHANGED <<state, doing, say, main, routed, hand, view, clientNick, selfNick>>
  BY DEF JoinInSlack, LeaveInSlack, Break, Reconnect, Outside, session, input, fanout
<1> DEFINE Heard == \A i \in 1 .. Len(events') :
                      /\ events'[i].cmd # "NICK"
                      /\ events'[i].cmd = "BURST" => events'[i].arg = slackNick
           Headed == events # <<>> /\ Head(events).cmd = "BURST" =>
                       events' # <<>> /\ Head(events').cmd = "BURST"
<1>2. ASSUME NEW line \in Lines, line.cmd \in {"JOINED", "PART"}, events' = Append(events, line)
      PROVE  Heard /\ Headed
  <2>1. \A i \in 1 .. Len(events') : i = Len(events) + 1 \/ i \in 1 .. Len(events)
    BY <1>2, AppendEvents
  <2> QED BY <1>2, <2>1, AppendEvents DEF OneNick
<1>3. ASSUME NEW c \in Known, JoinInSlack(c) \/ LeaveInSlack(c) PROVE Heard /\ Headed
  <2>1. /\ Line("JOINED", slackNick, c) \in Lines /\ Line("JOINED", slackNick, c).cmd = "JOINED"
        /\ Line("PART", slackNick, c) \in Lines /\ Line("PART", slackNick, c).cmd = "PART"
    BY LineType DEF Line, Names, TypeOK
  <2>2. \/ UNCHANGED events
        \/ events' = Append(events, Line("JOINED", slackNick, c))
        \/ events' = Append(events, Line("PART", slackNick, c))
    BY <1>3 DEF JoinInSlack, LeaveInSlack
  <2>3. UNCHANGED events => Heard /\ Headed
    BY DEF OneNick
  <2> QED BY <1>2, <2>1, <2>2, <2>3
<1>4. ASSUME Break PROVE Heard /\ Headed
  BY <1>4 DEF Break, OneNick
<1>5. ASSUME Reconnect PROVE Heard /\ Headed
  <2>1. Len(events') = 1 /\ events'[1].cmd = "BURST" /\ events'[1].arg = slackNick
        /\ events' # <<>> /\ Head(events').cmd = "BURST"
    BY <1>5 DEF Reconnect, Line
  <2>2. \A i \in 1 .. Len(events') : i = 1
    BY <2>1
  <2> QED BY <2>1, <2>2
<1>6. Heard /\ Headed
  BY <1>3, <1>4, <1>5
<1> QED BY <1>1, <1>6 DEF OneNick, Renaming, Greeting, Decided

\* No step but a change of nick parts what the user's nick is taken to be.
LEMMA StepOneNick ==
  ASSUME TypeOK, Order, OneNick, [Next]_vars, used'["renames"] = 0
  PROVE  OneNick'
<1>1. UNCHANGED slackNick /\ ~\E n \in Nicks : Rename(n)
  BY NoRename
<1>2. CASE UNCHANGED vars
  BY <1>2 DEF vars, OneNick, Renaming, Greeting, Decided
<1>3. CASE Next
  BY <1>1, <1>3, InputOneNick, MainOneNick, OutputOneNick, OutsideOneNick DEF Next
<1> QED BY <1>2, <1>3

(***************************************************************************)
(* The channels the client joins and parts itself                          *)
(***************************************************************************)

\* A step of main, the router, Slack or the network: input, what is in hand and
\* the client stay.
Apart == UNCHANGED <<session, input, hand, view, early>> /\ touched \subseteq touched'

\* Those are such steps.
LEMMA AreApart ==
  ASSUME \/ ConnectBurst \/ ChannelJoined \/ Route \/ SendChannelJoinedResponse
         \/ \E c \in Known : JoinInSlack(c) \/ LeaveInSlack(c)
         \/ Break \/ Reconnect
  PROVE  Apart
  BY DEF Apart, ConnectBurst, ChannelJoined, Route, SendChannelJoinedResponse, MainReceive,
         JoinInSlack, LeaveInSlack, Break, Reconnect, Outside, session, input

\* A command, or what input does with it: the line it then says, if it is about
\* a channel, puts the channel right.
LEMMA InputSays ==
  ASSUME TypeOK, Order, OneNick,
         \/ \E n \in Nicks : NickCmd(n)
         \/ UserCmd \/ \E list \in JoinLists : JoinCmd(list)
         \/ \E c \in Known : PartCmd(c)
         \/ Straighten \/ Welcome \/ GetJoinedChannels \/ Rejoin \/ Join \/ JoinsDone
  PROVE  /\ say = None
         /\ UNCHANGED <<main, routed, hand, touched>>
         /\ view'.welcomed = view.welcomed /\ view'.chans = view.chans
         /\ \A c \in Known : ~About(say', c) =>
              /\ c \in joinedChans' <=> c \in joinedChans
              /\ c \in early' <=> c \in early
         /\ \A c \in Known : About(say', c) =>
              /\ say'.cmd = "JOIN" <=> c \in joinedChans'
              /\ state' = state
              /\ state = "registered" => say'.who = slackNick
              /\ state # "registered" /\ say'.cmd = "JOIN" => c \in early'
<1> DEFINE Apt == /\ view'.welcomed = view.welcomed /\ view'.chans = view.chans
                  /\ \A c \in Known : ~About(say', c) =>
                       /\ c \in joinedChans' <=> c \in joinedChans
                       /\ c \in early' <=> c \in early
                  /\ \A c \in Known : About(say', c) =>
                       /\ say'.cmd = "JOIN" <=> c \in joinedChans'
                       /\ state' = state
                       /\ state = "registered" => say'.who = slackNick
                       /\ state # "registered" /\ say'.cmd = "JOIN" => c \in early'
<1>1. say = None /\ UNCHANGED <<main, routed, hand, touched>>
  BY DEF NickCmd, UserCmd, JoinCmd, PartCmd, Command, Straighten, Welcome,
         GetJoinedChannels, Rejoin, Join, JoinsDone, Go, fanout
<1>2. ASSUME NEW n \in Nicks, NickCmd(n) PROVE Apt
  BY <1>1, <1>2 DEF NickCmd, Line, About, TypeOK
<1>3. ASSUME UserCmd PROVE Apt
  BY <1>1, <1>3 DEF UserCmd, About
<1>4. ASSUME NEW list \in JoinLists, JoinCmd(list) PROVE Apt
  BY <1>1, <1>4 DEF JoinCmd, session, About
<1>5. ASSUME NEW d \in Known, PartCmd(d) PROVE Apt
  <2>1. say' = Line("PART", clientNick, d) /\ say' # None
    BY <1>5, LineType DEF PartCmd, TypeOK
  <2>2. \A c \in Known : About(say', c) <=> c = d
    BY <2>1 DEF About, Line
  <2>3. state = "registered" => clientNick = slackNick
    BY <1>5 DEF PartCmd, Command, OneNick, Decided
  <2> QED BY <1>5, <2>1, <2>2, <2>3 DEF PartCmd, Line
<1>6. ASSUME Straighten \/ Welcome PROVE Apt
  BY <1>1, <1>6 DEF Straighten, Welcome, Go, Line, About
<1>7. ASSUME GetJoinedChannels \/ JoinsDone PROVE Apt
  BY <1>1, <1>7 DEF GetJoinedChannels, JoinsDone, Go, About
<1>8. ASSUME Rejoin \/ Join PROVE Apt
  <2>1. /\ HandleChannelJoined(Head(joins)) /\ doing \in {"rejoin", "join"}
        /\ UNCHANGED <<state, view>>
    BY <1>8 DEF Rejoin, Join, Go
  <2>2. CASE Head(joins) \notin Known
    BY <1>1, <2>1, <2>2 DEF HandleChannelJoined, About
  <2>3. CASE Head(joins) \in Known
    <3>1. say' = Line("JOIN", clientNick, Head(joins)) /\ say' # None
      BY <2>1, <2>3, LineType DEF HandleChannelJoined, TypeOK
    <3>2. \A c \in Known : About(say', c) <=> c = Head(joins)
      BY <3>1 DEF About, Line
    <3>3. state = "registered" => clientNick = slackNick
      BY <2>1 DEF OneNick, Decided
    <3> QED BY <2>1, <2>3, <3>1, <3>2, <3>3 DEF HandleChannelJoined, Line
  <2> QED BY <2>2, <2>3
<1>9. Apt
  BY <1>2, <1>3, <1>4, <1>5, <1>6, <1>7, <1>8
<1> QED BY <1>1, <1>9

\* What main and the router hold of channels is what Slack told.
LEMMA StepTold ==
  ASSUME TypeOK, Order, OneNick, Told, [Next]_vars
  PROVE  Told' /\ touched \subseteq touched'
<1>1. CASE UNCHANGED vars
  BY <1>1 DEF vars, Told
<1>2. CASE \/ \E n \in Nicks : NickCmd(n)
           \/ UserCmd \/ \E list \in JoinLists : JoinCmd(list)
           \/ \E c \in Known : PartCmd(c)
           \/ Straighten \/ Welcome \/ GetJoinedChannels \/ Rejoin \/ Join \/ JoinsDone
  BY <1>2, InputSays DEF Told
<1>3. CASE ConnectBurst \/ ChannelJoined \/ Route
  BY <1>3 DEF ConnectBurst, ChannelJoined, Route, MainReceive, Line, Told
<1>4. CASE SendChannelJoinedResponse
  BY <1>4 DEF SendChannelJoinedResponse, Line, Told
<1>5. CASE Take \/ Write
  BY <1>5 DEF Take, Write, fanout, aside, Told
<1>6. CASE \/ \E n \in Nicks : Rename(n)
           \/ \E c \in Known : JoinInSlack(c) \/ LeaveInSlack(c)
           \/ Break \/ Reconnect
  BY <1>6 DEF Rename, JoinInSlack, LeaveInSlack, Break, Reconnect, Outside, fanout, Told
<1> QED BY <1>1, <1>2, <1>3, <1>4, <1>5, <1>6 DEF Next

\* A line about a channel that is not about one of Slack's moves is taken from
\* input.
LEMMA TakenFromInput ==
  ASSUME TypeOK, Order, OneNick, Told, Take, NEW c \in Known \ touched, About(hand', c)
  PROVE  say # None /\ hand' = say /\ say' = None
<1>1. CASE /\ main # None /\ main.cmd # "JOINED" /\ hand' = main
  <2>1. main.cmd # "NICK"
    BY <1>1 DEF About
  <2> QED BY <1>1, <2>1 DEF About, Told
<1>2. CASE routed # None /\ hand' = routed
  <2>1. routed.cmd # "NICK"
    BY <1>2 DEF About
  <2> QED BY <1>2, <2>1 DEF About, Told
<1> QED BY <1>1, <1>2 DEF Take

\* What input says counts, and what the writer took of it does.
LEMMA StepCounted ==
  ASSUME TypeOK, Order, OneNick, Told, Counted, [Next]_vars, UNCHANGED slackNick,
         ~\E n \in Nicks : Rename(n)
  PROVE  Counted'
<1> SUFFICES ASSUME NEW c \in Known
             PROVE  /\ About(say', c) /\ state' = "registered" => say'.who = slackNick
                    /\ c \notin touched' /\ About(hand', c) /\ view'.welcomed =>
                         hand'.who = slackNick
  BY DEF Counted, About
<1>1. CASE UNCHANGED vars
  BY <1>1 DEF vars, Counted, About
<1>2. CASE \/ \E n \in Nicks : NickCmd(n)
           \/ UserCmd \/ \E list \in JoinLists : JoinCmd(list)
           \/ \E d \in Known : PartCmd(d)
           \/ Straighten \/ Welcome \/ GetJoinedChannels \/ Rejoin \/ Join \/ JoinsDone
  BY <1>2, InputSays DEF Counted, About
<1>3. CASE Take
  <2>1. UNCHANGED <<state, view, touched>> /\ say' \in {say, None}
    BY <1>3 DEF Take, session, aside
  <2>2. view.welcomed => state = "registered"
    BY DEF Order
  <2>3. c \notin touched /\ About(hand', c) => hand' = say
    BY <1>3, TakenFromInput
  <2> QED BY <2>1, <2>2, <2>3 DEF Counted, About
<1>4. CASE Write
  BY <1>4 DEF Write, session, input, Counted, About
<1>5. CASE Apart
  BY <1>5 DEF Apart, session, input, Counted, About
<1> QED BY <1>1, <1>2, <1>3, <1>4, <1>5, AreApart DEF Next

\* What the client will show of a channel stays in step with joinedChans.
LEMMA StepInStep ==
  ASSUME TypeOK, Order, OneNick, Told, Counted, [Next]_vars, UNCHANGED slackNick,
         ~\E n \in Nicks : Rename(n),
         NEW c \in Known, c \notin early', c \notin touched',
         c \notin early /\ c \notin touched => InStep(c)
  PROVE  InStep(c)'
<1>1. c \notin touched
  BY StepTold
<1>2. CASE UNCHANGED vars
  BY <1>1, <1>2 DEF vars, InStep, Shows, About
<1>3. CASE \/ \E n \in Nicks : NickCmd(n)
           \/ UserCmd \/ \E list \in JoinLists : JoinCmd(list)
           \/ \E d \in Known : PartCmd(d)
           \/ Straighten \/ Welcome \/ GetJoinedChannels \/ Rejoin \/ Join \/ JoinsDone
  <2>1. CASE About(say', c)
    BY <1>3, <2>1, InputSays DEF InStep, Shows, About
  <2>2. CASE ~About(say', c)
    <3>1. c \notin early /\ InStep(c)
      BY <1>1, <1>3, <2>2, InputSays
    <3>2. ~About(say, c)
      BY <1>3, InputSays DEF About
    <3> QED BY <1>3, <2>2, <3>1, <3>2, InputSays DEF InStep, Shows, About
  <2> QED BY <2>1, <2>2
<1>4. CASE Take
  <2>1. /\ UNCHANGED <<state, view, joinedChans, early>> /\ hand = None
        /\ \/ say # None /\ hand' = say /\ say' = None
           \/ UNCHANGED say
    BY <1>4 DEF Take, session, aside
  <2>2. InStep(c) /\ ~About(hand, c)
    BY <1>1, <2>1 DEF About
  <2>3. CASE About(hand', c)
    <3>1. say # None /\ hand' = say /\ say' = None
      BY <1>1, <1>4, <2>3, TakenFromInput
    <3>2. About(say, c) /\ ~About(say', c)
      BY <2>3, <3>1 DEF About
    <3>3. state = "registered" => view.welcomed
      BY <2>1, <3>1, <3>2 DEF About, Order, Decided, Greeting
    <3>4. view.welcomed \/ (view.chans = {} /\ say.cmd = "PART")
      BY <2>2, <3>2, <3>3 DEF InStep, Order
    <3> QED BY <2>1, <2>2, <2>3, <3>1, <3>2, <3>4 DEF InStep, Shows, About
  <2>4. CASE ~About(hand', c)
    <3>1. About(say', c) <=> About(say, c)
      BY <2>1, <2>4 DEF About
    <3>2. About(say, c) => UNCHANGED say
      BY <2>1, <2>4 DEF About
    <3> QED BY <2>1, <2>2, <2>4, <3>1, <3>2 DEF InStep, Shows
  <2> QED BY <2>3, <2>4
<1>5. CASE Write
  <2>1. /\ UNCHANGED <<state, say, joinedChans, early>> /\ hand # None /\ hand' = None
        /\ view' = IF state = "registered" THEN Shown(hand, view) ELSE view
    BY <1>5 DEF Write, session, input, aside
  <2>2. InStep(c) /\ ~About(hand', c) /\ (About(say', c) <=> About(say, c))
    BY <1>1, <2>1 DEF About
  <2>3. CASE state # "registered"
    <3>1. ~view.welcomed /\ view.chans = {} /\ UNCHANGED view
      BY <2>1, <2>3 DEF Order
    <3> QED BY <2>1, <2>2, <3>1 DEF InStep, Shows, About
  <2>4. CASE state = "registered" /\ About(hand, c)
    <3>1. view'.welcomed = view.welcomed
      BY <2>1, <2>4 DEF Shown, About, TypeOK
    <3>2. view.welcomed => (c \in view'.chans <=> hand.cmd = "JOIN")
      BY <1>1, <2>1, <2>4 DEF Shown, About, Counted, OneNick, TypeOK
    <3>3. c \in view'.chans => c \in view.chans \/ hand.cmd = "JOIN"
      BY <2>1, <2>4 DEF Shown, About, TypeOK
    <3> QED BY <2>1, <2>2, <2>4, <3>1, <3>2, <3>3 DEF InStep, Shows, About
  <2>5. CASE state = "registered" /\ ~About(hand, c)
    <3>1. c \in view'.chans <=> c \in view.chans
      BY <2>1, <2>5 DEF Shown, About, TypeOK
    <3>2. view.welcomed => view'.welcomed
      BY <2>1, <2>5 DEF Shown, TypeOK
    <3> QED BY <2>1, <2>2, <2>5, <3>1, <3>2 DEF InStep, Shows, About
  <2> QED BY <2>3, <2>4, <2>5
<1>6. CASE Apart
  BY <1>1, <1>6 DEF Apart, session, input, InStep, Shows, About
<1> QED BY <1>2, <1>3, <1>4, <1>5, <1>6, AreApart DEF Next

\* Initially the client is in no channel and nothing is said of any.
LEMMA InitChans == Init => ChanInv
<1> SUFFICES ASSUME Init PROVE ChanInv
  OBVIOUS
<1>1. OneNick
  BY InitOneNick
<1> QED BY <1>1 DEF Init, ChanInv, Told, Counted, InStep, Shows, About

\* Every step keeps it.
LEMMA StepChans == TypeOK /\ Order /\ ChanInv /\ [Next]_vars => ChanInv'
<1> SUFFICES ASSUME TypeOK, Order, ChanInv, [Next]_vars, used'["renames"] = 0
             PROVE  /\ OneNick' /\ Told' /\ Counted'
                    /\ \A c \in Known : c \notin early' /\ c \notin touched' => InStep(c)'
  BY DEF ChanInv
<1>1. used["renames"] = 0 /\ UNCHANGED slackNick /\ ~\E n \in Nicks : Rename(n)
  BY NoRename
<1>2. /\ OneNick /\ Told /\ Counted
      /\ \A c \in Known : c \notin early /\ c \notin touched => InStep(c)
  BY <1>1 DEF ChanInv
<1>3. OneNick' /\ Told' /\ Counted'
  BY <1>1, <1>2, StepOneNick, StepTold, StepCounted
<1>4. ASSUME NEW c \in Known, c \notin early', c \notin touched' PROVE InStep(c)'
  BY <1>1, <1>2, <1>4, StepInStep
<1> QED BY <1>3, <1>4

\* When nothing is under way, what the client will show is what it shows.
LEMMA ChansFollow == TypeOK /\ ChanInv => ChansInStep
<1> SUFFICES ASSUME TypeOK, ChanInv, Quiet, used["renames"] = 0,
                    NEW c \in Channels \ (early \cup touched)
             PROVE  c \in view.chans <=> c \in joinedChans
  BY DEF ChansInStep
<1>1. CASE c \in Known
  BY <1>1 DEF ChanInv, InStep, Shows, About, Quiet
<1>2. CASE c \notin Known
  BY <1>2 DEF TypeOK
<1> QED BY <1>1, <1>2

\* Whatever order the client registers, joins and parts in, once all is quiet it
\* shows itself in the channels the server has it in, but for those joined before
\* registration and those Slack moved the user in or out of.
THEOREM ChansAlwaysInStep == Spec => []ChansInStep
<1>1. Init => TypeOK /\ Order /\ ChanInv
  BY InitType, InitOrder, InitChans
<1>2. TypeOK /\ Order /\ ChanInv /\ [Next]_vars => (TypeOK /\ Order /\ ChanInv)'
  BY StepType, StepOrder, StepChans
<1>3. TypeOK /\ Order /\ ChanInv => ChansInStep
  BY ChansFollow
<1> QED BY <1>1, <1>2, <1>3, PTL DEF Spec

(***************************************************************************)
(* The channels the user is in in Slack                                    *)
(***************************************************************************)

\* Receiving an event keeps what the other events say of a channel.
LEMMA TailOwed ==
  ASSUME TypeOK, NEW c \in Known, events # <<>>, events' = Tail(events)
  PROVE  /\ Settled(c) => Settled(c)'
         /\ Coming(c) => \/ Coming(c)'
                         \/ /\ Settled(c)'
                            /\ Head(events).cmd = "JOINED" /\ Head(events).arg = c
<1>1. /\ Len(events) \in Nat \ {0} /\ Len(events') = Len(events) - 1
      /\ Head(events) = events[1]
      /\ \A i \in 1 .. Len(events') : i + 1 \in 1 .. Len(events) /\ events'[i] = events[i + 1]
  BY TailEvents
<1>2. Settled(c) => Settled(c)'
  BY <1>1 DEF Settled
<1>3. ASSUME Coming(c)
      PROVE  Coming(c)' \/ (Settled(c)' /\ Head(events).cmd = "JOINED" /\ Head(events).arg = c)
  <2>1. PICK i \in 1 .. Len(events) :
          /\ events[i].cmd = "JOINED" /\ events[i].arg = c
          /\ \A j \in i + 1 .. Len(events) : ~(events[j].cmd = "PART" /\ events[j].arg = c)
    BY <1>3 DEF Coming
  <2>2. CASE i > 1
    <3>1. i - 1 \in 1 .. Len(events') /\ events'[i - 1] = events[i]
      BY <1>1, <2>2
    <3>2. \A j \in (i - 1) + 1 .. Len(events') : j \in 1 .. Len(events') /\ j + 1 \in i + 1 .. Len(events)
      BY <1>1, <2>2
    <3>3. \A j \in (i - 1) + 1 .. Len(events') : ~(events'[j].cmd = "PART" /\ events'[j].arg = c)
      BY <1>1, <2>1, <3>2
    <3> QED BY <2>1, <3>1, <3>3 DEF Coming
  <2>3. CASE i = 1 /\ ~Settled(c)'
    <3>1. PICK k \in 1 .. Len(events') : events'[k].cmd \in {"JOINED", "PART"} /\ events'[k].arg = c
      BY <2>3 DEF Settled
    <3>2. \A j \in 1 .. Len(events') : ~(events'[j].cmd = "PART" /\ events'[j].arg = c)
      BY <1>1, <2>1, <2>3
    <3>3. \A j \in k + 1 .. Len(events') : j \in 1 .. Len(events')
      BY <1>1
    <3> QED BY <3>1, <3>2, <3>3 DEF Coming
  <2>4. CASE i = 1 /\ Settled(c)'
    BY <1>1, <2>1, <2>4
  <2> QED BY <2>2, <2>3, <2>4
<1> QED BY <1>2, <1>3

\* So does one more event, if it is not about the channel; if it is a join of
\* the channel, that is the last.
LEMMA AppendOwed ==
  ASSUME TypeOK, NEW c \in Known, NEW line \in Lines, events' = Append(events, line)
  PROVE  /\ line.arg # c /\ Settled(c) => Settled(c)'
         /\ line.arg # c /\ Coming(c) => Coming(c)'
         /\ line.cmd = "JOINED" /\ line.arg = c => Coming(c)'
<1>1. /\ Len(events) \in Nat /\ Len(events') = Len(events) + 1
      /\ events'[Len(events) + 1] = line
      /\ \A i \in 1 .. Len(events) : events'[i] = events[i]
  BY AppendEvents
<1>2. \A i \in 1 .. Len(events') : i = Len(events) + 1 \/ i \in 1 .. Len(events)
  BY <1>1
<1>3. line.arg # c /\ Settled(c) => Settled(c)'
  BY <1>1, <1>2 DEF Settled
<1>4. ASSUME line.arg # c, Coming(c) PROVE Coming(c)'
  <2>1. PICK i \in 1 .. Len(events) :
          /\ events[i].cmd = "JOINED" /\ events[i].arg = c
          /\ \A j \in i + 1 .. Len(events) : ~(events[j].cmd = "PART" /\ events[j].arg = c)
    BY <1>4 DEF Coming
  <2>2. i \in 1 .. Len(events') /\ events'[i] = events[i]
    BY <1>1
  <2>3. \A j \in i + 1 .. Len(events') : j = Len(events) + 1 \/ j \in i + 1 .. Len(events)
    BY <1>1
  <2>4. \A j \in i + 1 .. Len(events) : events'[j] = events[j]
    BY <1>1
  <2>5. \A j \in i + 1 .. Len(events') : ~(events'[j].cmd = "PART" /\ events'[j].arg = c)
    BY <1>1, <1>4, <2>1, <2>3, <2>4
  <2> QED BY <2>1, <2>2, <2>5 DEF Coming
<1>5. ASSUME line.cmd = "JOINED", line.arg = c PROVE Coming(c)'
  <2>1. Len(events) + 1 \in 1 .. Len(events')
    BY <1>1
  <2>2. \A j \in (Len(events) + 1) + 1 .. Len(events') : FALSE
    BY <1>1
  <2> QED BY <1>1, <1>5, <2>1, <2>2 DEF Coming
<1> QED BY <1>3, <1>4, <1>5

\* What input has yet to join it joins, or has joined by a line of its own.
LEMMA InputToJoin ==
  ASSUME TypeOK, Order, OneNick, UNCHANGED slackNick,
         \/ \E n \in Nicks : NickCmd(n)
         \/ UserCmd \/ \E list \in JoinLists : JoinCmd(list)
         \/ \E c \in Known : PartCmd(c)
         \/ Straighten \/ Welcome \/ GetJoinedChannels \/ Rejoin \/ Join \/ JoinsDone,
         NEW c \in Known, ToJoin(c)
  PROVE  ToJoin(c)'
<1>1. say = None
  BY InputSays
<1>2. UNCHANGED memberships
  BY DEF NickCmd, UserCmd, JoinCmd, PartCmd, Command, Straighten, Welcome,
         GetJoinedChannels, Rejoin, Join, JoinsDone, Go, slack
<1>3. CASE c \in memberships /\ ~Decided
  <2>1. doing \notin {"memberships", "rejoin"}
    BY <1>3 DEF Decided, Order
  <2>2. doing = "join" => state # "registered"
    BY <1>3 DEF Decided
  <2>3. ~Decided' \/ doing' = "memberships"
    BY <1>3, <2>1, <2>2 DEF Decided, TypeOK, NickCmd, UserCmd, JoinCmd, PartCmd, Command,
       Straighten, Welcome, GetJoinedChannels, Rejoin, Join, JoinsDone, Go, session
  <2> QED BY <1>2, <1>3, <2>3 DEF ToJoin
<1>4. CASE c \in memberships /\ doing = "memberships"
  <2>1. GetJoinedChannels
    BY <1>4 DEF NickCmd, UserCmd, JoinCmd, PartCmd, Command,
       Straighten, Welcome, Rejoin, Join, JoinsDone, Go
  <2>2. doing' = "rejoin" /\ \E i \in DOMAIN joins' : joins'[i] = c
    BY <1>4, <2>1 DEF GetJoinedChannels
  <2>3. DOMAIN joins' = 1 .. Len(joins')
    BY <2>1, MembershipsType, LenProperties
  <2> QED BY <2>2, <2>3 DEF ToJoin
<1>5. CASE doing = "rejoin" /\ \E i \in 1 .. Len(joins) : joins[i] = c
  <2>1. PICK i \in 1 .. Len(joins) : joins[i] = c
    BY <1>5
  <2>2. joins \in Seq(Channels) /\ joins # <<>>
    BY <2>1, EmptySeq DEF TypeOK
  <2>3. Rejoin
    BY <1>5, <2>2 DEF NickCmd, UserCmd, JoinCmd, PartCmd, Command,
       Straighten, Welcome, GetJoinedChannels, Join, JoinsDone, Go
  <2>4. /\ joins' = Tail(joins) /\ HandleChannelJoined(Head(joins))
        /\ UNCHANGED <<doing, state>>
    BY <2>3 DEF Rejoin, Go
  <2>5. Head(joins) = joins[1] /\ Len(joins') = Len(joins) - 1
        /\ \A j \in 1 .. Len(joins') : joins'[j] = joins[j + 1]
    BY <2>2, <2>4, HeadTailProperties
  <2>6. CASE i = 1
    <3>1. say' = Line("JOIN", clientNick, c) /\ say' # None
      BY <2>1, <2>4, <2>5, <2>6, LineType DEF HandleChannelJoined, TypeOK
    <3>2. Decided /\ Decided' /\ clientNick = slackNick
      BY <1>5, <2>4 DEF Decided, Order, OneNick
    <3> QED BY <3>1, <3>2 DEF ToJoin, Line
  <2>7. CASE i > 1
    <3>1. i - 1 \in 1 .. Len(joins') /\ joins'[i - 1] = c
      BY <2>1, <2>2, <2>5, <2>7
    <3> QED BY <1>5, <2>4, <3>1 DEF ToJoin
  <2> QED BY <2>6, <2>7
<1> QED BY <1>1, <1>3, <1>4, <1>5 DEF ToJoin

\* Input keeps what the client is owed: it parts only what the client left.
LEMMA InputOwed ==
  ASSUME TypeOK, Order, OneNick, UNCHANGED slackNick,
         \/ \E n \in Nicks : NickCmd(n)
         \/ UserCmd \/ \E list \in JoinLists : JoinCmd(list)
         \/ \E c \in Known : PartCmd(c)
         \/ Straighten \/ Welcome \/ GetJoinedChannels \/ Rejoin \/ Join \/ JoinsDone,
         NEW c \in Known, Owed(c)
  PROVE  Owed(c)'
<1>1. /\ UNCHANGED <<main, routed, hand, events>>
      /\ view'.welcomed = view.welcomed /\ view'.chans = view.chans
  BY InputSays DEF NickCmd, UserCmd, JoinCmd, PartCmd, Command, Straighten, Welcome,
         GetJoinedChannels, Rejoin, Join, JoinsDone, Go
<1>2. ToJoin(c) => ToJoin(c)'
  BY InputToJoin
<1>3. Coming(c) => Coming(c)'
  BY <1>1 DEF Coming
<1>4. Settled(c) /\ ~Parting(c) => Settled(c)' /\ ~Parting(c)'
  BY <1>1 DEF Settled, Parting
<1>5. OnItsWay(c) => OnItsWay(c)'
  BY <1>1, <1>2 DEF OnItsWay, About
<1> QED BY <1>3, <1>4, <1>5 DEF Owed

\* main and the router keep it: a part the router still has when main hears of a
\* join makes the channel one of parted.
LEMMA MainOwed ==
  ASSUME TypeOK, Order, OneNick, UNCHANGED slackNick,
         ConnectBurst \/ ChannelJoined \/ Route \/ SendChannelJoinedResponse,
         NEW c \in Known, c \notin missed', c \notin parted', Owed(c)
  PROVE  Owed(c)'
<1>1. UNCHANGED <<state, clientNick, doing, joins, say, hand, view, memberships>>
  BY DEF ConnectBurst, ChannelJoined, Route, SendChannelJoinedResponse, MainReceive,
         session, input, slack
<1>2. ToJoin(c) => ToJoin(c)'
  BY <1>1 DEF ToJoin, Decided
<1>3. CASE ConnectBurst \/ ChannelJoined \/ Route
  <2>1. main = None /\ events # <<>> /\ events' = Tail(events)
    BY <1>3 DEF ConnectBurst, ChannelJoined, Route, MainReceive
  <2>2. OnItsWay(c) => OnItsWay(c)'
    BY <1>1, <1>2, <2>1 DEF OnItsWay, About
  <2>3. CASE Settled(c) /\ ~Parting(c) /\ OnItsWay(c)
    <3>1. ~(Head(events).cmd \in {"JOINED", "PART"} /\ Head(events).arg = c)
      BY <2>1, <2>3, TailEvents DEF Settled
    <3>2. ~Parting(c)'
      BY <1>3, <2>3, <3>1 DEF ConnectBurst, ChannelJoined, Route, Parting
    <3> QED BY <2>1, <2>2, <2>3, <3>2, TailOwed DEF Owed
  <2>4. CASE Settled(c)' /\ Head(events).cmd = "JOINED" /\ Head(events).arg = c
    <3>1. ChannelJoined
      BY <1>3, <2>4 DEF ConnectBurst, Route
    <3>2. main' = Head(events) /\ UNCHANGED routed /\ ~Parting(c)
      BY <2>4, <3>1 DEF ChannelJoined
    <3>3. main' # None
      BY <2>1, <3>2, EventsType, LineParts
    <3> QED BY <2>4, <3>2, <3>3 DEF Owed, OnItsWay, Parting
  <2>5. CASE Coming(c)'
    BY <2>5 DEF Owed
  <2> QED BY <2>1, <2>3, <2>4, <2>5, TailOwed DEF Owed
<1>4. CASE SendChannelJoinedResponse
  <2>1. /\ main # None /\ main.cmd = "JOINED" /\ main' = Line("JOIN", clientNick, main.arg)
        /\ UNCHANGED <<routed, events>>
        /\ main.arg = c => view.welcomed
    BY <1>4 DEF SendChannelJoinedResponse
  <2>2. main' # None
    BY <2>1, LineParts, LineType DEF TypeOK
  <2>3. view.welcomed => clientNick = slackNick
    BY DEF Order, OneNick
  <2>4. OnItsWay(c) => OnItsWay(c)'
    BY <1>1, <1>2, <2>1, <2>2, <2>3 DEF OnItsWay, About, Line
  <2>5. Coming(c) => Coming(c)'
    BY <2>1 DEF Coming
  <2>6. Settled(c) /\ ~Parting(c) => Settled(c)' /\ ~Parting(c)'
    BY <2>1 DEF Settled, Parting
  <2> QED BY <2>4, <2>5, <2>6 DEF Owed
<1> QED BY <1>3, <1>4

\* The lines that pass to the client keep it: no part of the channel is among them.
LEMMA OutputOwed ==
  ASSUME TypeOK, Order, OneNick, UNCHANGED slackNick, Take \/ Write,
         NEW c \in Known, ~(About(say, c) /\ say.cmd = "PART"), Owed(c)
  PROVE  Owed(c)'
<1>1. UNCHANGED <<state, clientNick, joins, memberships, events>>
  BY DEF Take, Write, session, input, fanout, slack
<1>2. Coming(c) => Coming(c)'
  BY <1>1 DEF Coming
<1>3. Settled(c) => Settled(c)'
  BY <1>1 DEF Settled
<1>4. CASE Take
  <2>1. UNCHANGED view /\ hand = None
    BY <1>4 DEF Take
  <2>2. ~Parting(c) => ~Parting(c)'
    BY <1>4 DEF Take, Parting
  <2>3. CASE say # None /\ hand' = say /\ say' = None /\ UNCHANGED <<main, routed, doing>>
    <3>1. ~(About(hand', c) /\ hand'.cmd = "PART")
      BY <2>3 DEF About
    <3>2. say.cmd = "JOIN" /\ Decided => view.welcomed
      BY <2>1, <2>3 DEF Order, Greeting
    <3>3. ToJoin(c) => \/ ToJoin(c)'
                       \/ About(hand', c) /\ hand'.cmd = "JOIN" /\ view'.welcomed
                            /\ hand'.who = slackNick'
      BY <1>1, <2>1, <2>3, <3>2 DEF ToJoin, Decided, About
    <3>4. OnItsWay(c) => OnItsWay(c)'
      BY <2>1, <2>3, <3>1, <3>3 DEF OnItsWay, About
    <3> QED BY <1>2, <1>3, <2>2, <3>4 DEF Owed
  <2>4. CASE /\ main # None /\ main.cmd # "JOINED" /\ hand' = main /\ main' = None
             /\ doing' = (IF doing = "waiting" THEN "read" ELSE doing)
             /\ UNCHANGED <<say, routed>>
    <3>1. hand'.cmd # "PART"
      BY <2>4 DEF Order
    <3>2. ToJoin(c) => ToJoin(c)'
      BY <1>1, <2>4 DEF ToJoin, Decided, Order
    <3>3. OnItsWay(c) => OnItsWay(c)'
      BY <2>1, <2>4, <3>1, <3>2 DEF OnItsWay, About
    <3> QED BY <1>2, <1>3, <2>2, <3>3 DEF Owed
  <2>5. CASE routed # None /\ hand' = routed /\ routed' = None /\ UNCHANGED <<say, main, doing>>
    <3>1. ~Parting(c) => ~(About(hand', c) /\ hand'.cmd = "PART")
      BY <2>5 DEF About, Parting
    <3>2. ToJoin(c) => ToJoin(c)'
      BY <1>1, <2>5 DEF ToJoin, Decided
    <3>3. OnItsWay(c) /\ ~Parting(c) => OnItsWay(c)'
      BY <2>1, <2>5, <3>1, <3>2 DEF OnItsWay, About
    <3> QED BY <1>2, <1>3, <2>2, <3>3 DEF Owed
  <2> QED BY <1>4, <2>3, <2>4, <2>5 DEF Take
<1>5. CASE Write
  <2>1. /\ UNCHANGED <<doing, say, main, routed>> /\ hand # None /\ hand' = None
        /\ view' = IF state = "registered" THEN Shown(hand, view) ELSE view
    BY <1>5 DEF Write, input, fanout
  <2>2. view.welcomed => view'.welcomed
    BY <2>1 DEF Shown, TypeOK
  <2>3. c \in view.chans /\ ~(About(hand, c) /\ hand.cmd = "PART") => c \in view'.chans
    BY <2>1 DEF Shown, About, TypeOK
  <2>4. About(hand, c) /\ hand.cmd = "JOIN" /\ view.welcomed /\ hand.who = slackNick =>
          c \in view'.chans
    BY <2>1 DEF Shown, About, OneNick, Order, Decided, TypeOK
  <2>5. ToJoin(c) => ToJoin(c)'
    BY <1>1, <2>1 DEF ToJoin, Decided
  <2>6. OnItsWay(c) => OnItsWay(c)'
    BY <2>1, <2>2, <2>3, <2>4, <2>5 DEF OnItsWay, About
  <2>7. ~Parting(c) => ~Parting(c)'
    BY <2>1 DEF Parting
  <2> QED BY <1>2, <1>3, <2>6, <2>7 DEF Owed
<1> QED BY <1>4, <1>5

\* Slack and the network keep it, and what the user joins there is on its way.
LEMMA OutsideOwed ==
  ASSUME TypeOK, Order, OneNick, UNCHANGED slackNick,
         \/ \E d \in Known : JoinInSlack(d) \/ LeaveInSlack(d)
         \/ Break \/ Reconnect,
         NEW c \in Known, c \in slackIn', c \notin missed',
         c \in slackIn /\ c \notin missed => Owed(c)
  PROVE  Owed(c)'
<1>1. UNCHANGED <<state, clientNick, doing, joins, say, main, routed, hand, view>>
  BY DEF JoinInSlack, LeaveInSlack, Break, Reconnect, Outside, session, input, fanout
<1>2. UNCHANGED memberships => (ToJoin(c) => ToJoin(c)')
  BY <1>1 DEF ToJoin, Decided
<1>3. (ToJoin(c) => ToJoin(c)') => (OnItsWay(c) => OnItsWay(c)')
  BY <1>1 DEF OnItsWay, About
<1>4. ~Parting(c) => ~Parting(c)'
  BY <1>1 DEF Parting
<1>5. ASSUME NEW d \in Known, JoinInSlack(d) \/ LeaveInSlack(d) PROVE Owed(c)'
  <2>1. /\ Line("JOINED", slackNick, d) \in Lines /\ Line("JOINED", slackNick, d).cmd = "JOINED"
        /\ Line("JOINED", slackNick, d).arg = d
        /\ Line("PART", slackNick, d) \in Lines /\ Line("PART", slackNick, d).arg = d
    BY LineType DEF Line, Names, TypeOK
  <2>2. CASE d = c
    <3>1. events' = Append(events, Line("JOINED", slackNick, c))
      BY <1>5, <2>2 DEF JoinInSlack, LeaveInSlack
    <3> QED BY <2>1, <2>2, <3>1, AppendOwed DEF Owed
  <2>3. CASE d # c
    <3>1. Owed(c) /\ UNCHANGED memberships
      BY <1>5, <2>3 DEF JoinInSlack, LeaveInSlack
    <3>2. \/ UNCHANGED events
          \/ events' = Append(events, Line("JOINED", slackNick, d))
          \/ events' = Append(events, Line("PART", slackNick, d))
      BY <1>5 DEF JoinInSlack, LeaveInSlack
    <3>3. (Coming(c) => Coming(c)') /\ (Settled(c) => Settled(c)')
      <4>1. CASE UNCHANGED events
        BY <4>1 DEF Coming, Settled
      <4>2. CASE events' = Append(events, Line("JOINED", slackNick, d))
        BY <2>1, <2>3, <4>2, AppendOwed
      <4>3. CASE events' = Append(events, Line("PART", slackNick, d))
        BY <2>1, <2>3, <4>3, AppendOwed
      <4> QED BY <3>2, <4>1, <4>2, <4>3
    <3> QED BY <1>2, <1>3, <1>4, <3>1, <3>3 DEF Owed
  <2> QED BY <2>2, <2>3
<1>6. CASE Break
  <2>1. UNCHANGED <<events, memberships>> /\ Owed(c)
    BY <1>6 DEF Break
  <2>2. (Coming(c) => Coming(c)') /\ (Settled(c) => Settled(c)')
    BY <2>1 DEF Coming, Settled
  <2> QED BY <1>2, <1>3, <1>4, <2>1, <2>2 DEF Owed
<1>7. CASE Reconnect
  <2>1. /\ events = <<>> /\ memberships' = slackIn /\ Owed(c) /\ c \in slackIn
        /\ events' = <<Line("BURST", slackNick, slackNick)>>
    BY <1>7 DEF Reconnect
  <2>2. Settled(c)'
    <3>1. Len(events') = 1 /\ events'[1].cmd = "BURST"
      BY <2>1 DEF Line
    <3>2. \A i \in 1 .. Len(events') : i = 1
      BY <3>1
    <3> QED BY <3>1, <3>2 DEF Settled
  <2>3. ~Coming(c)
    BY <2>1 DEF Coming
  <2>4. ToJoin(c) => ToJoin(c)'
    BY <1>1, <2>1 DEF ToJoin, Decided
  <2> QED BY <1>3, <1>4, <2>1, <2>2, <2>3, <2>4 DEF Owed
<1> QED BY <1>5, <1>6, <1>7

\* Initially input will join the client to all the user is in.
LEMMA InitJoins == Init => JoinInv
<1> SUFFICES ASSUME Init, NEW c \in slackIn PROVE Owed(c)
  BY DEF Init, JoinInv, About
<1>1. Len(events) = 1 /\ events[1].cmd = "BURST"
  BY DEF Init, Line
<1>2. \A i \in 1 .. Len(events) : i = 1
  BY <1>1
<1>3. Settled(c)
  BY <1>1, <1>2 DEF Settled
<1>4. ToJoin(c)
  BY DEF Init, ToJoin, Decided
<1> QED BY <1>3, <1>4 DEF Init, Owed, OnItsWay, Parting, About

\* What input parts, the client left; and parted only grows.
LEMMA StepParted ==
  ASSUME TypeOK, [Next]_vars
  PROVE  /\ parted \subseteq parted'
         /\ \A c \in Known : About(say', c) /\ say'.cmd = "PART" =>
              c \in parted' \/ (About(say, c) /\ say.cmd = "PART")
<1>1. CASE UNCHANGED vars
  BY <1>1 DEF vars, About
<1>2. CASE (\E n \in Nicks : NickCmd(n)) \/ UserCmd \/ \E list \in JoinLists : JoinCmd(list)
  BY <1>2 DEF NickCmd, UserCmd, JoinCmd, Command, session, Line, About
<1>3. ASSUME NEW d \in Known, PartCmd(d)
      PROVE  parted \subseteq parted' /\ \A c \in Known : About(say', c) => c \in parted'
  BY <1>3 DEF PartCmd, Line, About
<1>4. CASE Straighten \/ Welcome \/ GetJoinedChannels \/ Rejoin \/ Join \/ JoinsDone
  BY <1>4 DEF Straighten, Welcome, GetJoinedChannels, Rejoin, Join, JoinsDone,
              HandleChannelJoined, Go, Line, About
<1>5. CASE ConnectBurst \/ ChannelJoined \/ Route \/ SendChannelJoinedResponse
  BY <1>5 DEF ConnectBurst, ChannelJoined, Route, SendChannelJoinedResponse, MainReceive,
              input, About
<1>6. CASE Take \/ Write
  BY <1>6 DEF Take, Write, aside, input, About
<1>7. CASE \/ \E n \in Nicks : Rename(n)
           \/ \E c \in Known : JoinInSlack(c) \/ LeaveInSlack(c)
           \/ Break \/ Reconnect
  BY <1>7 DEF Rename, JoinInSlack, LeaveInSlack, Break, Reconnect, Outside, input, About
<1> QED BY <1>1, <1>2, <1>3, <1>4, <1>5, <1>6, <1>7 DEF Next

\* Only Slack moves the user, and only the server misses a join.
LEMMA StepMoves ==
  ASSUME TypeOK, [Next]_vars,
         ~\E d \in Known : JoinInSlack(d) \/ LeaveInSlack(d)
  PROVE  slackIn' = slackIn /\ missed \subseteq missed'
  BY DEF Next, vars, NickCmd, UserCmd, JoinCmd, PartCmd, Command, Straighten, Welcome,
         GetJoinedChannels, Rejoin, Join, JoinsDone, Go, ConnectBurst, ChannelJoined, Route,
         SendChannelJoinedResponse, MainReceive, Take, Write, Rename, Break, Reconnect,
         slack, aside

\* Every step keeps it.
LEMMA StepJoins == TypeOK /\ Order /\ ChanInv /\ JoinInv /\ [Next]_vars => JoinInv'
<1> SUFFICES ASSUME TypeOK, Order, ChanInv, JoinInv, [Next]_vars, used'["renames"] = 0
             PROVE  /\ \A c \in Known : About(say', c) /\ say'.cmd = "PART" => c \in parted'
                    /\ \A c \in slackIn' : c \notin missed' /\ c \notin parted' => Owed(c)'
  BY DEF JoinInv, About
<1>1. used["renames"] = 0 /\ UNCHANGED slackNick /\ ~\E n \in Nicks : Rename(n)
  BY NoRename
<1>2. /\ OneNick
      /\ \A c \in Known : About(say, c) /\ say.cmd = "PART" => c \in parted
      /\ \A c \in slackIn : c \notin missed /\ c \notin parted => Owed(c)
  BY <1>1 DEF ChanInv, JoinInv
<1>3. \A c \in Known : About(say', c) /\ say'.cmd = "PART" => c \in parted'
  BY <1>2, StepParted
<1>4. ASSUME NEW c \in slackIn', c \notin missed', c \notin parted' PROVE Owed(c)'
  <2>1. c \in Known /\ c \notin parted /\ ~(About(say, c) /\ say.cmd = "PART")
    BY <1>2, <1>4, StepType, StepParted DEF TypeOK
  <2>2. CASE \/ \E d \in Known : JoinInSlack(d) \/ LeaveInSlack(d)
             \/ Break \/ Reconnect
    BY <1>1, <1>2, <1>4, <2>1, <2>2, OutsideOwed
  <2>3. CASE ~\E d \in Known : JoinInSlack(d) \/ LeaveInSlack(d)
    <3>1. Owed(c)
      BY <1>2, <1>4, <2>1, <2>3, StepMoves
    <3>2. CASE UNCHANGED vars
      BY <3>1, <3>2 DEF vars, Owed, Coming, Settled, Parting, OnItsWay, ToJoin, Decided, About
    <3>3. CASE \/ \E n \in Nicks : NickCmd(n)
               \/ UserCmd \/ \E list \in JoinLists : JoinCmd(list)
               \/ \E d \in Known : PartCmd(d)
               \/ Straighten \/ Welcome \/ GetJoinedChannels \/ Rejoin \/ Join \/ JoinsDone
      BY <1>1, <1>2, <2>1, <3>1, <3>3, InputOwed
    <3>4. CASE ConnectBurst \/ ChannelJoined \/ Route \/ SendChannelJoinedResponse
      BY <1>1, <1>2, <1>4, <2>1, <3>1, <3>4, MainOwed
    <3>5. CASE Take \/ Write
      BY <1>1, <1>2, <2>1, <3>1, <3>5, OutputOwed
    <3> QED BY <1>1, <2>2, <2>3, <3>2, <3>3, <3>4, <3>5 DEF Next
  <2> QED BY <2>2, <2>3
<1> QED BY <1>3, <1>4

\* When nothing is under way, what is owed is shown.
LEMMA JoinsFollow == TypeOK /\ Order /\ JoinInv => JoinsShown
<1> SUFFICES ASSUME TypeOK, Order, JoinInv, Quiet, used["renames"] = 0,
                    NEW c \in slackIn, c \notin missed, c \notin parted
             PROVE  c \in view.chans
  BY DEF JoinsShown
<1>1. Owed(c)
  BY DEF JoinInv
<1>2. ~Coming(c)
  BY DEF Coming, Quiet
<1>3. ~ToJoin(c)
  BY DEF ToJoin, Quiet, Order
<1> QED BY <1>1, <1>2, <1>3 DEF Owed, OnItsWay, About, Quiet

\* Once all is quiet the client shows the channels the user is in, but for those
\* it left and the joins that were lost on the way or overtook a part.
THEOREM JoinsAlwaysShown == Spec => []JoinsShown
<1>1. Init => TypeOK /\ Order /\ ChanInv /\ JoinInv
  BY InitType, InitOrder, InitChans, InitJoins
<1>2. TypeOK /\ Order /\ ChanInv /\ JoinInv /\ [Next]_vars =>
        (TypeOK /\ Order /\ ChanInv /\ JoinInv)'
  BY StepType, StepOrder, StepChans, StepJoins
<1>3. TypeOK /\ Order /\ JoinInv => JoinsShown
  BY JoinsFollow
<1> QED BY <1>1, <1>2, <1>3, PTL DEF Spec

(***************************************************************************)
(* The nick                                                                *)
(***************************************************************************)

\* Receiving an event keeps the chain, as main hears of the nick in it.
LEMMA TailChain ==
  ASSUME TypeOK, Chain, events # <<>>, events' = Tail(events),
         told' = IF Head(events).cmd \in {"NICK", "BURST"} THEN Head(events).arg ELSE told,
         UNCHANGED <<linked, slackNick>>
  PROVE  Chain'
<1>1. PICK m \in Nat : Len(events') = m
  <2>1. Len(events') \in Nat
    BY TailEvents
  <2> QED BY <2>1
<1>2. /\ Len(events) = m + 1 /\ Head(events) = events[1]
      /\ \A i \in 1 .. m : i + 1 \in 1 .. m + 1 /\ events'[i] = events[i + 1]
  BY <1>1, TailEvents
<1> DEFINE z == IF TellsNick(1) THEN 1 ELSE 0
           was(i) == IF i = 0 THEN z ELSE i + 1
<1>3. ASSUME NEW i \in 0 .. m, TellsNick(i)'
      PROVE  NickAt(i)' = NickAt(was(i)) /\ TellsNick(was(i))
  BY <1>2, <1>3 DEF NickAt, TellsNick
<1>4. ASSUME NEW j \in 1 .. m + 1, NEW i \in 0 .. j - 1, LastBefore(i, j)'
      PROVE  /\ was(i) \in 0 .. (j + 1) - 1 /\ LastBefore(was(i), j + 1)
             /\ NickAt(i)' = NickAt(was(i))
  <2>1. i \in 0 .. m /\ TellsNick(i)' /\ was(i) \in 0 .. j /\ (j + 1) - 1 = j
    BY <1>4 DEF LastBefore
  <2>2. ASSUME NEW k \in was(i) + 1 .. j PROVE ~TellsNick(k)
    <3>1. CASE k = 1
      BY <1>4, <2>1, <2>2, <3>1 DEF TellsNick
    <3>2. CASE k # 1
      <4>1. k - 1 \in i + 1 .. j - 1 /\ k - 1 \in 1 .. m /\ k # 0 /\ k - 1 # 0
        BY <2>1, <2>2, <3>2
      <4>2. ~TellsNick(k - 1)'
        BY <1>4, <4>1 DEF LastBefore
      <4>3. events'[k - 1] = events[k]
        BY <1>2, <4>1
      <4> QED BY <4>1, <4>2, <4>3 DEF TellsNick
    <3> QED BY <3>1, <3>2
  <2>3. NickAt(i)' = NickAt(was(i)) /\ TellsNick(was(i))
    BY <1>3, <2>1
  <2> HIDE DEF was
  <2> QED BY <2>1, <2>2, <2>3 DEF LastBefore
<1> HIDE DEF was
<1>5. ASSUME NEW j \in 1 .. m, NEW i \in 0 .. j - 1, events'[j].cmd = "NICK", LastBefore(i, j)'
      PROVE  events'[j].who = NickAt(i)'
  <2>1. j + 1 \in 1 .. Len(events) /\ events'[j] = events[j + 1] /\ j \in 1 .. m + 1
    BY <1>2
  <2>2. /\ was(i) \in 0 .. (j + 1) - 1 /\ LastBefore(was(i), j + 1)
        /\ NickAt(i)' = NickAt(was(i))
    BY <1>4, <1>5, <2>1
  <2> QED BY <1>5, <2>1, <2>2 DEF Chain
<1>6. ASSUME linked, NEW i \in 0 .. m, LastBefore(i, m + 1)'
      PROVE  NickAt(i)' = slackNick
  <2>1. m + 1 \in 1 .. m + 1 /\ i \in 0 .. (m + 1) - 1
    OBVIOUS
  <2>2. /\ was(i) \in 0 .. ((m + 1) + 1) - 1 /\ LastBefore(was(i), (m + 1) + 1)
        /\ NickAt(i)' = NickAt(was(i))
    BY <1>4, <1>6, <2>1
  <2>3. was(i) \in 0 .. Len(events) /\ LastBefore(was(i), Len(events) + 1)
    BY <1>2, <2>2
  <2> QED BY <1>6, <2>2, <2>3 DEF Chain
<1> QED BY <1>1, <1>5, <1>6 DEF Chain

\* So does one more event: a change of nick starts from the nick he has.
LEMMA AppendChain ==
  ASSUME TypeOK, Chain, NEW line \in Lines, events' = Append(events, line), linked,
         \/ line.cmd \in {"JOINED", "PART"} /\ UNCHANGED slackNick
         \/ line.cmd = "NICK" /\ line.who = slackNick /\ line.arg = slackNick',
         UNCHANGED <<told, linked>>
  PROVE  Chain'
<1>1. PICK m \in Nat : Len(events) = m
  BY AppendEvents
<1>2. /\ Len(events') = m + 1 /\ events'[m + 1] = line
      /\ \A i \in 1 .. m : events'[i] = events[i]
  BY <1>1, AppendEvents
<1>3. ASSUME NEW i \in 0 .. m
      PROVE  (TellsNick(i)' <=> TellsNick(i)) /\ NickAt(i)' = NickAt(i)
  BY <1>2 DEF TellsNick, NickAt
<1>4. ASSUME NEW j \in 1 .. m + 1, NEW i \in 0 .. j - 1, LastBefore(i, j)'
      PROVE  LastBefore(i, j)
  <2>1. i \in 0 .. m /\ \A k \in i + 1 .. j - 1 : k \in 0 .. m
    OBVIOUS
  <2> QED BY <1>3, <1>4, <2>1 DEF LastBefore
<1>5. ASSUME NEW j \in 1 .. m + 1, NEW i \in 0 .. j - 1, events'[j].cmd = "NICK",
             LastBefore(i, j)'
      PROVE  events'[j].who = NickAt(i)'
  <2>1. LastBefore(i, j) /\ i \in 0 .. m /\ NickAt(i)' = NickAt(i)
    BY <1>3, <1>4, <1>5
  <2>2. CASE j \in 1 .. m
    BY <1>1, <1>2, <1>5, <2>1, <2>2 DEF Chain
  <2>3. CASE j = m + 1
    <3>1. NickAt(i) = slackNick
      BY <1>1, <2>1, <2>3 DEF Chain
    <3> QED BY <1>2, <1>5, <2>1, <2>3, <3>1
  <2>4. j \in 1 .. m \/ j = m + 1
    OBVIOUS
  <2> QED BY <2>2, <2>3, <2>4
<1>6. ASSUME NEW i \in 0 .. m + 1, LastBefore(i, (m + 1) + 1)'
      PROVE  NickAt(i)' = slackNick'
  <2>1. CASE i = m + 1
    <3>1. line.cmd = "NICK"
      BY <1>2, <1>6, <2>1 DEF LastBefore, TellsNick
    <3> QED BY <1>2, <2>1, <3>1 DEF NickAt
  <2>2. CASE i \in 0 .. m
    <3>1. m + 1 \in i + 1 .. ((m + 1) + 1) - 1
      BY <2>2
    <3>2. ~TellsNick(m + 1)'
      BY <1>6, <3>1 DEF LastBefore
    <3>3. UNCHANGED slackNick
      BY <1>2, <3>2 DEF TellsNick
    <3>4. LastBefore(i, m + 1)'
      <4>1. \A k \in i + 1 .. (m + 1) - 1 : k \in i + 1 .. ((m + 1) + 1) - 1
        BY <2>2
      <4> QED BY <1>6, <4>1 DEF LastBefore
    <3>5. i \in 0 .. (m + 1) - 1 /\ m + 1 \in 1 .. m + 1
      BY <2>2
    <3>6. LastBefore(i, m + 1) /\ NickAt(i)' = NickAt(i)
      BY <1>3, <1>4, <2>2, <3>4, <3>5
    <3> QED BY <1>1, <2>2, <3>3, <3>6 DEF Chain
  <2> QED BY <2>1, <2>2
<1> QED BY <1>2, <1>5, <1>6 DEF Chain

\* A new connection starts with a burst, which is the chain.
LEMMA BurstChain ==
  ASSUME events' = <<Line("BURST", slackNick, slackNick)>>, UNCHANGED slackNick
  PROVE  Chain'
<1>1. Len(events') = 1 /\ events'[1].cmd = "BURST" /\ events'[1].arg = slackNick
  BY DEF Line
<1>2. ASSUME NEW i \in 0 .. 1, LastBefore(i, 2)' PROVE i = 1
  <2>1. TellsNick(1)'
    BY <1>1 DEF TellsNick
  <2>2. i = 0 => 1 \in i + 1 .. 2 - 1
    OBVIOUS
  <2> QED BY <1>2, <2>1, <2>2 DEF LastBefore
<1>3. ASSUME NEW i \in 0 .. 1, LastBefore(i, 2)' PROVE NickAt(i)' = slackNick
  BY <1>1, <1>2, <1>3 DEF NickAt
<1>4. \A j \in 1 .. Len(events') : events'[j].cmd # "NICK"
  <2>1. \A j \in 1 .. Len(events') : j = 1
    BY <1>1
  <2> QED BY <1>1, <2>1
<1>5. Len(events') + 1 = 2
  BY <1>1
<1> QED BY <1>1, <1>3, <1>4, <1>5 DEF Chain

\* So does the first one.
LEMMA InitChain == Init => Chain
<1> SUFFICES ASSUME Init PROVE Chain
  OBVIOUS
<1>1. Len(events) = 1 /\ events[1].cmd = "BURST" /\ events[1].arg = slackNick
  BY DEF Init, Line
<1>2. ASSUME NEW i \in 0 .. 1, LastBefore(i, 2) PROVE i = 1
  <2>1. TellsNick(1)
    BY <1>1 DEF TellsNick
  <2>2. i = 0 => 1 \in i + 1 .. 2 - 1
    OBVIOUS
  <2> QED BY <1>2, <2>1, <2>2 DEF LastBefore
<1>3. ASSUME NEW i \in 0 .. 1, LastBefore(i, 2) PROVE NickAt(i) = slackNick
  BY <1>1, <1>2, <1>3 DEF NickAt
<1>4. \A j \in 1 .. Len(events) : events[j].cmd # "NICK"
  <2>1. \A j \in 1 .. Len(events) : j = 1
    BY <1>1
  <2> QED BY <1>1, <2>1
<1>5. Len(events) + 1 = 2
  BY <1>1
<1> QED BY <1>1, <1>3, <1>4, <1>5 DEF Chain

\* The chain stays if nobody tells main of anything.
LEMMA ChainStays ==
  ASSUME Chain, UNCHANGED <<events, told>>, linked' => linked /\ UNCHANGED slackNick
  PROVE  Chain'
<1>1. \A i, j : LastBefore(i, j)' <=> LastBefore(i, j)
  BY DEF LastBefore, TellsNick
<1>2. \A i : NickAt(i)' = NickAt(i)
  BY DEF NickAt
<1> QED BY <1>1, <1>2 DEF Chain

\* Every step keeps the chain.
LEMMA StepChain ==
  ASSUME TypeOK, Chain, [Next]_vars
  PROVE  Chain'
<1>1. CASE \/ UNCHANGED vars
           \/ \E n \in Nicks : NickCmd(n)
           \/ UserCmd \/ \E list \in JoinLists : JoinCmd(list)
           \/ \E d \in Known : PartCmd(d)
  <2>1. UNCHANGED <<events, told, slackNick, linked>>
    BY <1>1 DEF vars, NickCmd, UserCmd, JoinCmd, PartCmd, Command, slack
  <2> QED BY <2>1, ChainStays
<1>2. CASE Straighten \/ Welcome \/ GetJoinedChannels \/ Rejoin \/ Join \/ JoinsDone
  <2>1. UNCHANGED <<events, told, slackNick, linked>>
    BY <1>2 DEF Straighten, Welcome, GetJoinedChannels, Rejoin, Join, JoinsDone, Go, slack
  <2> QED BY <2>1, ChainStays
<1>3. CASE SendChannelJoinedResponse \/ Take \/ Write
  <2>1. UNCHANGED <<events, told, slackNick, linked>>
    BY <1>3 DEF SendChannelJoinedResponse, Take, Write, slack
  <2> QED BY <2>1, ChainStays
<1>4. CASE Break
  <2>1. UNCHANGED <<events, told>> /\ ~linked'
    BY <1>4 DEF Break, Outside
  <2> QED BY <2>1, ChainStays
<1>5. CASE ConnectBurst \/ ChannelJoined \/ Route
  <2>1. /\ events # <<>> /\ events' = Tail(events) /\ UNCHANGED <<linked, slackNick>>
    BY <1>5 DEF ConnectBurst, ChannelJoined, Route, MainReceive, slack
  <2>2. told' = IF Head(events).cmd \in {"NICK", "BURST"} THEN Head(events).arg ELSE told
    BY <1>5 DEF ConnectBurst, ChannelJoined, Route
  <2> QED BY <2>1, <2>2, TailChain
<1>6. ASSUME NEW n \in Nicks, Rename(n) PROVE Chain'
  <2>1. /\ Line("NICK", slackNick, n) \in Lines /\ Line("NICK", slackNick, n).cmd = "NICK"
        /\ Line("NICK", slackNick, n).who = slackNick /\ Line("NICK", slackNick, n).arg = n
    BY LineType DEF Line, Names, TypeOK
  <2>2. slackNick' = n /\ UNCHANGED <<told, linked>>
    BY <1>6 DEF Rename, Outside
  <2>3. CASE linked
    <3>1. events' = Append(events, Line("NICK", slackNick, n))
      BY <1>6, <2>3 DEF Rename
    <3> QED BY <2>1, <2>2, <2>3, <3>1, AppendChain
  <2>4. CASE ~linked
    <3>1. UNCHANGED events
      BY <1>6, <2>4 DEF Rename
    <3> QED BY <2>2, <2>4, <3>1, ChainStays
  <2> QED BY <2>3, <2>4
<1>7. ASSUME NEW c \in Known, JoinInSlack(c) \/ LeaveInSlack(c) PROVE Chain'
  <2>1. /\ Line("JOINED", slackNick, c) \in Lines /\ Line("JOINED", slackNick, c).cmd = "JOINED"
        /\ Line("PART", slackNick, c) \in Lines /\ Line("PART", slackNick, c).cmd = "PART"
    BY LineType DEF Line, Names, TypeOK
  <2>2. UNCHANGED <<told, linked, slackNick>>
    BY <1>7 DEF JoinInSlack, LeaveInSlack, Outside
  <2>3. \/ linked /\ events' = Append(events, Line("JOINED", slackNick, c))
        \/ linked /\ events' = Append(events, Line("PART", slackNick, c))
        \/ UNCHANGED events
    BY <1>7 DEF JoinInSlack, LeaveInSlack
  <2>4. CASE linked /\ events' = Append(events, Line("JOINED", slackNick, c))
    BY <2>1, <2>2, <2>4, AppendChain
  <2>5. CASE linked /\ events' = Append(events, Line("PART", slackNick, c))
    BY <2>1, <2>2, <2>5, AppendChain
  <2>6. CASE UNCHANGED events
    BY <2>2, <2>6, ChainStays
  <2> QED BY <2>3, <2>4, <2>5, <2>6
<1>8. CASE Reconnect
  BY <1>8, BurstChain DEF Reconnect
<1> QED BY <1>1, <1>2, <1>5, <1>6, <1>7, <1>8, <1>3, <1>4 DEF Next

\* A line of the router's that changes the nick starts from the one main heard of.
LEMMA NextChange ==
  ASSUME TypeOK, Chain, events # <<>>, Head(events).cmd = "NICK"
  PROVE  Head(events).who = told
<1>1. Head(events) = events[1] /\ 1 \in 1 .. Len(events)
  BY HeadTailProperties, LenProperties, EmptySeq DEF TypeOK
<1>2. LastBefore(0, 1)
  BY DEF LastBefore, TellsNick
<1>3. 0 \in 0 .. 1 - 1
  OBVIOUS
<1> QED BY <1>1, <1>2, <1>3 DEF Chain, NickAt

\* Input decides on the nick main last heard of, or the use of selfUser was one
\* while it was outdated.
LEMMA InputNick ==
  ASSUME TypeOK, Order, NickUnderWay,
         \/ \E n \in Nicks : NickCmd(n)
         \/ UserCmd \/ \E list \in JoinLists : JoinCmd(list)
         \/ \E c \in Known : PartCmd(c)
         \/ Straighten \/ Welcome \/ GetJoinedChannels \/ Rejoin \/ Join \/ JoinsDone
  PROVE  NickUnderWay'
<1> DEFINE Decides == Decided' /\ (Renaming(say') \/ Greeting(say')) =>
                        say'.arg = selfNick /\ (~astray' => told = selfNick)
           Before == Decided' => Decided \/ Welcome
           Keeps == /\ say = None /\ (~astray' => ~astray)
                    /\ view'.welcomed = view.welcomed
                    /\ view.welcomed => view'.nick = view.nick
<1>1. UNCHANGED <<main, routed, hand, told, selfNick>>
  BY DEF NickCmd, UserCmd, JoinCmd, PartCmd, Command, Straighten, Welcome,
         GetJoinedChannels, Rejoin, Join, JoinsDone, Go, fanout
<1>2. ASSUME NEW n \in Nicks, NickCmd(n) PROVE Decides /\ Before /\ Keeps
  <2>1. Decided' => state = "registered" /\ Decided
    BY <1>2 DEF NickCmd, Command, Decided, TypeOK
  <2>2. state = "registered" =>
          say' = Line("NICK", n, selfNick) /\ astray' = (astray \/ told # selfNick)
    BY <1>2 DEF NickCmd
  <2>3. Line("NICK", n, selfNick).arg = selfNick
    BY DEF Line
  <2>4. Keeps
    BY <1>2 DEF NickCmd, Command, TypeOK
  <2> QED BY <2>1, <2>2, <2>3, <2>4
<1>3. ASSUME UserCmd PROVE Decides /\ Before /\ Keeps
  BY <1>3 DEF UserCmd, Command, Renaming, Greeting, Decided, TypeOK
<1>4. ASSUME NEW list \in JoinLists, JoinCmd(list) PROVE Decides /\ Before /\ Keeps
  BY <1>4 DEF JoinCmd, Command, session, Renaming, Greeting, Decided
<1>5. ASSUME NEW c \in Known, PartCmd(c) PROVE Decides /\ Before /\ Keeps
  BY <1>5 DEF PartCmd, Command, Line, Renaming, Greeting, Decided
<1>6. ASSUME Straighten PROVE Decides /\ Before /\ Keeps
  <2>1. ~Decided' /\ say = None /\ UNCHANGED <<astray, view>>
    BY <1>6 DEF Straighten, Go, Decided
  <2> QED BY <2>1
<1>7. ASSUME Welcome PROVE Decides /\ Before /\ Keeps
  BY <1>7 DEF Welcome, Go, Line, Renaming, Greeting, Decided
<1>8. ASSUME GetJoinedChannels PROVE Decides /\ Before /\ Keeps
  BY <1>8 DEF GetJoinedChannels, Go, Renaming, Greeting, Decided
<1>9. ASSUME Rejoin \/ Join PROVE Decides /\ Before /\ Keeps
  BY <1>9 DEF Rejoin, Join, HandleChannelJoined, Go, Line, Renaming, Greeting, Decided
<1>10. ASSUME JoinsDone PROVE Decides /\ Before /\ Keeps
  BY <1>10 DEF JoinsDone, Go, Renaming, Greeting, Decided
<1>11. Decides /\ Before /\ Keeps
  BY <1>2, <1>3, <1>4, <1>5, <1>6, <1>7, <1>8, <1>9, <1>10
<1> SUFFICES ASSUME ~astray' PROVE Telling' /\ (Decided' => Straight')
  BY DEF NickUnderWay
<1>12. Telling /\ (Decided => Straight)
  BY <1>11 DEF NickUnderWay, Overtaken, Renaming, Greeting
<1>13. Telling'
  BY <1>1, <1>12 DEF Telling, Renaming
<1>14. Decided' => (Renaming(say') \/ Greeting(say') => Current(say'.arg))
  BY <1>11 DEF Current
<1>15. ASSUME Decided', view.welcomed \/ Greeting(hand) PROVE Current(NickShown)
  <2>1. Decided
    BY <1>15 DEF Order
  <2> QED BY <1>12, <1>15, <2>1 DEF Straight
<1>16. view.welcomed \/ Greeting(hand) => NickShown' = NickShown
  BY <1>1, <1>11 DEF NickShown, Greeting, Renaming
<1>17. ASSUME Decided' PROVE Straight'
  <2>1. Renaming(say)' \/ Greeting(say)' => Current(say.arg)'
    BY <1>1, <1>14, <1>17 DEF Current, ToldLater, Renaming, Greeting
  <2>2. view'.welcomed \/ Greeting(hand)' => view.welcomed \/ Greeting(hand)
    BY <1>1, <1>11 DEF Greeting
  <2>3. view.welcomed \/ Greeting(hand) => Current(NickShown)'
    BY <1>1, <1>15, <1>16, <1>17 DEF Current, ToldLater, Renaming
  <2> QED BY <2>1, <2>2, <2>3 DEF Straight
<1> QED BY <1>13, <1>17

\* A change of nick main or the router is about to tell starts from the nick it
\* last heard of.
LEMMA MainNick ==
  ASSUME TypeOK, Order, Chain, NickUnderWay,
         ConnectBurst \/ ChannelJoined \/ Route \/ SendChannelJoinedResponse
  PROVE  NickUnderWay'
<1>1. UNCHANGED <<state, doing, say, hand, view>> /\ (~astray' => ~astray)
  <2>1. CASE ConnectBurst
    BY <2>1 DEF ConnectBurst, MainReceive, session, input
  <2>2. CASE ChannelJoined \/ Route \/ SendChannelJoinedResponse
    BY <2>2 DEF ChannelJoined, Route, SendChannelJoinedResponse, MainReceive, session, input
  <2> QED BY <2>1, <2>2
<1> SUFFICES ASSUME ~astray' PROVE Telling' /\ (Decided' => Overtaken' \/ Straight')
  BY DEF NickUnderWay
<1>2. Telling /\ (Decided => Overtaken \/ Straight)
  BY <1>1 DEF NickUnderWay
<1>3. /\ Decided' = Decided /\ Overtaken' = Overtaken /\ NickShown' = NickShown
      /\ Renaming(say)' = Renaming(say) /\ Greeting(say)' = Greeting(say)
      /\ Greeting(hand)' = Greeting(hand)
  BY <1>1 DEF Decided, Overtaken, NickShown, Renaming, Greeting
<1>4. ASSUME Telling', \A n : Current(n) => (n = told' \/ \E line \in {main', routed'} : Renaming(line) /\ line.who = n)
      PROVE  Telling' /\ (Decided' => Overtaken' \/ Straight')
  <2>1. Current(say.arg) => Current(say.arg)'
    BY <1>1, <1>4 DEF Current, ToldLater, Renaming
  <2>2. Current(NickShown) => Current(NickShown)'
    BY <1>3, <1>4 DEF Current, ToldLater, Renaming
  <2>3. Straight => Straight'
    BY <1>1, <1>3, <2>1, <2>2 DEF Straight
  <2> QED BY <1>2, <1>3, <1>4, <2>3
<1>5. CASE ConnectBurst
  <2>1. /\ main = None /\ told = selfNick /\ ~Renaming(routed) /\ UNCHANGED routed
        /\ told' = selfNick'
        /\ main' = IF selfNick # selfNick' THEN Line("NICK", selfNick, selfNick') ELSE None
    BY <1>5 DEF ConnectBurst, MainReceive
  <2>2. selfNick \in Names /\ selfNick' \in Names
    BY StepType, <1>5 DEF TypeOK, Next
  <2>3. selfNick # selfNick' =>
          /\ Renaming(main') /\ main'.who = selfNick /\ main'.arg = selfNick'
    BY <2>1, <2>2, LineType DEF Renaming, Line
  <2>4. Telling'
    BY <2>1, <2>3 DEF Telling, Renaming
  <2>5. \A n : Current(n) => n = told
    BY <2>1 DEF Current, ToldLater, Renaming
  <2> QED BY <1>4, <2>1, <2>3, <2>4, <2>5
<1>6. CASE ChannelJoined
  <2>1. main = None /\ main'.cmd = "JOINED" /\ UNCHANGED <<routed, told>>
    BY <1>6 DEF ChannelJoined, MainReceive
  <2>2. ~Renaming(main) /\ ~Renaming(main')
    BY <2>1 DEF Renaming
  <2>3. Telling'
    BY <1>2, <2>1, <2>2 DEF Telling, Renaming
  <2> QED BY <1>4, <2>1, <2>2, <2>3 DEF Current, ToldLater
<1>7. CASE Route
  <2>1. /\ main = None /\ routed = None /\ events # <<>> /\ UNCHANGED main
        /\ routed' = Head(events) /\ routed' # None
        /\ Head(events).cmd \in {"NICK", "PART"}
        /\ told' = IF Head(events).cmd = "NICK" THEN Head(events).arg ELSE told
    BY <1>7, EventsType, LineParts DEF Route, MainReceive
  <2>2. Telling'
    BY <2>1 DEF Telling, Renaming
  <2>3. \A n : Current(n) => n = told
    BY <2>1 DEF Current, ToldLater, Renaming
  <2>4. CASE Head(events).cmd = "NICK"
    <3>1. Renaming(routed') /\ routed'.who = told
      BY <2>1, <2>4, NextChange DEF Renaming
    <3> QED BY <1>4, <2>2, <2>3, <3>1
  <2>5. CASE Head(events).cmd # "NICK"
    BY <1>4, <2>1, <2>2, <2>3, <2>5
  <2> QED BY <2>4, <2>5
<1>8. CASE SendChannelJoinedResponse
  <2>1. main.cmd = "JOINED" /\ main'.cmd = "JOIN" /\ UNCHANGED <<routed, told>>
    BY <1>8 DEF SendChannelJoinedResponse, Line
  <2>2. ~Renaming(main) /\ ~Renaming(main')
    BY <2>1 DEF Renaming
  <2>3. Telling'
    BY <1>2, <2>1, <2>2 DEF Telling, Renaming
  <2> QED BY <1>4, <2>1, <2>2, <2>3 DEF Current, ToldLater
<1> QED BY <1>5, <1>6, <1>7, <1>8

\* A change of nick goes out before what input has to say, and that is overtaken,
\* or both are the same nick, or input's goes first.
LEMMA TakeNick ==
  ASSUME TypeOK, Order, NickUnderWay, Take
  PROVE  NickUnderWay'
<1>1. UNCHANGED <<state, view, told, astray>> /\ hand = None
  BY DEF Take, session
<1> SUFFICES ASSUME ~astray PROVE Telling' /\ (Decided' => Overtaken' \/ Straight')
  BY <1>1 DEF NickUnderWay
<1>2. Telling /\ (Decided => Straight)
  BY <1>1 DEF NickUnderWay, Overtaken, Renaming
<1>3. NickShown = view.nick /\ ~Greeting(hand)
  BY <1>1 DEF NickShown, Renaming, Greeting
<1>4. CASE say # None /\ hand' = say /\ say' = None /\ UNCHANGED <<main, routed, doing>>
  <2>1. Telling'
    BY <1>1, <1>2, <1>4 DEF Telling, Renaming
  <2>2. ASSUME Decided' PROVE Straight'
    <3>1. Straight
      BY <1>1, <1>2, <1>4, <2>2 DEF Decided
    <3>2. ~Renaming(say') /\ ~Greeting(say')
      BY <1>4 DEF Renaming, Greeting
    <3>3. NickShown' = IF Greeting(say) \/ (Renaming(say) /\ say.who = view.nick)
                       THEN say.arg ELSE view.nick
      BY <1>1, <1>4 DEF NickShown, Greeting, Renaming
    <3>4. view.welcomed \/ Greeting(say) => Current(NickShown')
      BY <1>3, <3>1, <3>3 DEF Straight
    <3>5. Current(NickShown') => Current(NickShown)'
      BY <1>1, <1>4 DEF Current, ToldLater, Renaming
    <3> QED BY <1>1, <1>4, <3>2, <3>4, <3>5 DEF Straight, Renaming, Greeting
  <2> QED BY <2>1, <2>2
<1>5. ASSUME NEW line \in {main, routed}, line # None, line.cmd # "JOINED", hand' = line,
             UNCHANGED say, Decided' => Decided,
             \/ line = main /\ main' = None /\ UNCHANGED routed
             \/ line = routed /\ routed' = None /\ UNCHANGED main
      PROVE  Telling' /\ (Decided' => Overtaken' \/ Straight')
  <2>1. Telling'
    BY <1>1, <1>2, <1>5 DEF Telling, Renaming
  <2>2. ~Greeting(hand') /\ hand' # None
    BY <1>5 DEF Greeting, Order
  <2>3. CASE Renaming(line)
    <3>1. line.arg = told /\ \A n : Current(n) => n = told \/ n = line.who
      BY <1>2, <1>5, <2>3 DEF Telling, Current, ToldLater
    <3>2. \A n : n = told => (n = told' \/ \E l \in {main', routed'} : Renaming(l) /\ l.who = n)
      BY <1>1
    <3>3. ASSUME Decided', ~Overtaken' PROVE Straight'
      <4>1. Straight
        BY <1>2, <1>5, <3>3
      <4>2. Renaming(say) \/ Greeting(say) => say.arg = told
        BY <1>5, <2>3, <3>1, <3>3 DEF Overtaken, Renaming, Greeting
      <4>3. view.welcomed => NickShown' = told
        <5>1. view.welcomed => view.nick = told \/ view.nick = line.who
          BY <1>3, <3>1, <4>1 DEF Straight
        <5>2. NickShown' = IF line.who = view.nick THEN line.arg ELSE view.nick
          BY <1>1, <1>5, <2>2, <2>3 DEF NickShown, Renaming, Greeting
        <5> QED BY <3>1, <5>1, <5>2
      <4> QED BY <1>1, <1>5, <2>2, <4>2, <4>3 DEF Straight, Current, Renaming, Greeting
    <3> QED BY <2>1, <3>3
  <2>4. CASE ~Renaming(line)
    <3>1. NickShown' = view.nick
      BY <1>1, <1>5, <2>2, <2>4 DEF NickShown, Renaming, Greeting
    <3>2. \A n : Current(n) =>
            (n = told' \/ \E l \in {main', routed'} : Renaming(l) /\ l.who = n)
      BY <1>1, <1>5, <2>4 DEF Current, ToldLater
    <3>3. Current(say.arg) => Current(say.arg)'
      BY <1>5, <3>2 DEF Current, ToldLater, Renaming
    <3>4. Current(view.nick) => Current(NickShown)'
      BY <3>1, <3>2 DEF Current, ToldLater, Renaming
    <3>5. Straight => Straight'
      BY <1>1, <1>3, <1>5, <2>2, <3>3, <3>4 DEF Straight, Renaming, Greeting
    <3> QED BY <1>2, <1>5, <2>1, <3>5
  <2> QED BY <2>3, <2>4
<1>6. CASE /\ main # None /\ main.cmd # "JOINED" /\ hand' = main /\ main' = None
           /\ doing' = (IF doing = "waiting" THEN "read" ELSE doing)
           /\ UNCHANGED <<say, routed>>
  <2>1. Decided' => Decided
    BY <1>1, <1>6 DEF Decided, Order
  <2> QED BY <1>5, <1>6, <2>1
<1>7. CASE routed # None /\ hand' = routed /\ routed' = None /\ UNCHANGED <<say, main, doing>>
  <2>1. routed.cmd # "JOINED" /\ (Decided' => Decided)
    BY <1>1, <1>7 DEF Decided, Order
  <2> QED BY <1>5, <1>7, <2>1
<1> QED BY <1>4, <1>6, <1>7 DEF Take

\* What is overtaken leads astray; else the client shows what was in hand.
LEMMA WriteNick ==
  ASSUME TypeOK, Order, NickUnderWay, Write
  PROVE  NickUnderWay'
<1>1. /\ UNCHANGED <<state, doing, say, main, routed, told>> /\ hand # None /\ hand' = None
      /\ view' = IF state = "registered" THEN Shown(hand, view) ELSE view
      /\ astray' = (astray \/ Overtaken)
  BY DEF Write, session, input, fanout, Overtaken, Renaming, Greeting
<1> SUFFICES ASSUME ~astray' PROVE Telling' /\ (Decided' => Straight')
  BY DEF NickUnderWay
<1>2. Telling /\ (Decided => Straight)
  BY <1>1 DEF NickUnderWay
<1>3. Telling'
  BY <1>1, <1>2 DEF Telling, Renaming
<1>4. ASSUME Decided' PROVE Straight'
  <2>1. Decided /\ Straight /\ state = "registered"
    BY <1>1, <1>2, <1>4 DEF Decided
  <2>2. view'.welcomed => view.welcomed \/ Greeting(hand)
    BY <1>1, <2>1 DEF Shown, Greeting, TypeOK
  <2>3. NickShown' = NickShown /\ ~Greeting(hand')
    <3>1. NickShown' = view'.nick /\ ~Greeting(hand')
      BY <1>1 DEF NickShown, Greeting, Renaming
    <3>2. view'.nick = NickShown
      BY <1>1, <2>1 DEF NickShown, Shown, Greeting, Renaming, TypeOK
    <3> QED BY <3>1, <3>2
  <2>4. Current(NickShown) => Current(NickShown)'
    BY <1>1, <2>3 DEF Current, ToldLater, Renaming
  <2>5. Current(say.arg) => Current(say.arg)'
    BY <1>1 DEF Current, ToldLater, Renaming
  <2> QED BY <1>1, <2>1, <2>2, <2>3, <2>4, <2>5 DEF Straight, Renaming, Greeting
<1> QED BY <1>3, <1>4

\* Slack and the network are not part of it.
LEMMA OutsideNick ==
  ASSUME NickUnderWay,
         \/ \E n \in Nicks : Rename(n)
         \/ \E c \in Known : JoinInSlack(c) \/ LeaveInSlack(c)
         \/ Break \/ Reconnect
  PROVE  NickUnderWay'
<1>1. Outside
  BY DEF Rename, JoinInSlack, LeaveInSlack, Break, Reconnect
<1> QED BY <1>1 DEF Outside, session, input, fanout, NickUnderWay, Telling, Decided, Overtaken,
             Straight, Current, ToldLater, NickShown, Renaming, Greeting

\* Every step keeps it.
LEMMA StepNick ==
  ASSUME TypeOK, Order, Chain, NickUnderWay, [Next]_vars
  PROVE  NickUnderWay'
<1>1. CASE UNCHANGED vars
  BY <1>1 DEF vars, NickUnderWay, Telling, Decided, Overtaken, Straight, Current, ToldLater,
              NickShown, Renaming, Greeting
<1>2. CASE Next
  BY <1>2, InputNick, MainNick, TakeNick, WriteNick, OutsideNick DEF Next
<1> QED BY <1>1, <1>2

\* When nothing is under way, the client shows the nick the user has.
LEMMA NickFollowsSlack == TypeOK /\ Order /\ Chain /\ NickUnderWay => NickInStep
<1> SUFFICES ASSUME TypeOK, Order, Chain, NickUnderWay, Quiet, ~astray
             PROVE  view.nick = slackNick
  BY DEF NickInStep
<1>1. Decided /\ ~Overtaken
  BY DEF Quiet, Order, Overtaken, Renaming
<1>2. Current(view.nick)
  BY <1>1 DEF NickUnderWay, Straight, NickShown, Quiet, Renaming, Greeting
<1>3. view.nick = told
  BY <1>2 DEF Current, ToldLater, Quiet, Renaming
<1>4. Len(events) = 0 /\ linked
  BY DEF Quiet
<1>5. 0 \in 0 .. Len(events) /\ LastBefore(0, Len(events) + 1)
  BY <1>4 DEF LastBefore, TellsNick
<1> QED BY <1>3, <1>4, <1>5 DEF Chain, NickAt

\* However registrations, commands, changes of nick and reconnections interleave,
\* once all is quiet the client goes by the nick the user has in Slack, unless
\* the run went astray: selfUser was used while outdated, or a change of nick and
\* what was decided before it could overtake each other.
THEOREM NickAlwaysInStep == Spec => []NickInStep
<1>1. Init => TypeOK /\ Order /\ Chain /\ NickUnderWay
  <2>1. Init => NickUnderWay
    BY DEF Init, NickUnderWay, Telling, Decided, Renaming
  <2> QED BY <2>1, InitType, InitOrder, InitChain
<1>2. TypeOK /\ Order /\ Chain /\ NickUnderWay /\ [Next]_vars =>
        (TypeOK /\ Order /\ Chain /\ NickUnderWay)'
  BY StepType, StepOrder, StepChain, StepNick
<1>3. TypeOK /\ Order /\ Chain /\ NickUnderWay => NickInStep
  BY NickFollowsSlack
<1> QED BY <1>1, <1>2, <1>3, PTL DEF Spec
=============================================================================
