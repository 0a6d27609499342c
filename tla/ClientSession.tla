---------------------------- MODULE ClientSession ----------------------------
(***************************************************************************)
(* What one IRC client is told of its own nick and channels: registration, *)
(* JOIN and PART (irc/client.go), and the events of Slack that main hands  *)
(* on (main.go, irc/server.go).  Four goroutines meet at the client's      *)
(* outgoingMessages:                                                       *)
(*                                                                         *)
(*   input   handleConnInput, which reads the client's commands            *)
(*   main    writeMessageLoop: bursts and joins it fans out itself, the    *)
(*           rest it hands to the router                                   *)
(*   router  HandleOutgoingMessageRouting, one line at a time              *)
(*   output  handleConnOutput, which writes a line if the client is        *)
(*           registered by then                                            *)
(*                                                                         *)
(* The channel is unbuffered: a sender waits until output has nothing in   *)
(* hand.  Other clients only delay main and the router.  A line is its     *)
(* command, the nick of its prefix and its argument; replies that change   *)
(* nothing of what the client knows of itself are left out.                *)
(*                                                                         *)
(* view is what the client makes of the lines: a JOIN, PART or NICK counts *)
(* if the prefix has the client's nick, and 001 names the client.  events  *)
(* is all that is under way between Slack and main.  GetUsers and          *)
(* GetConversations are part of Reconnect: UserDirectory and               *)
(* ChannelMembers have them in their steps.                                *)
(*                                                                         *)
(* Bounds, guards of the client, Slack and the network only: MaxCommands   *)
(* commands and MaxChanges outside of it: joins and parts of the user in   *)
(* Slack, changes of his nick, losses of the web socket.                   *)
(***************************************************************************)
EXTENDS Naturals, Sequences, FiniteSets

CONSTANTS
  Channels,
  Known,        \* the channels Slack has
  Nicks,        \* names, "*" not among them
  JoinLists,    \* the lists of channels the client may send with JOIN
  None,         \* no line, no event
  MaxCommands, MaxChanges

ASSUME SessionAssumption ==
  /\ Known \subseteq Channels
  /\ JoinLists \subseteq Seq(Channels)
  /\ "*" \notin Nicks
  /\ IsFiniteSet(Known)
ASSUME SessionBounds == {MaxCommands, MaxChanges} \subseteq Nat

VARIABLES
  state,        \* clientConnection.state
  clientNick,   \* clientConnection.clientUser, its nick
  selfNick,     \* Server.selfUser, its nick, "*" before the first burst
  joinedChans,  \* clientConnection.joinedChans
  doing,        \* where input is
  joins,        \* the channels input has yet to join
  say,          \* the line input is sending, or None
  main,         \* the event main is fanning out, or the line it is sending
  routed,       \* the line the router is sending, or None
  hand,         \* the line output has in hand, or None
  view,         \* external: the nick and the channels the client shows, and
                \* whether it was welcomed
  events,       \* external: events on their way to main
  slackNick,    \* external: the user's nick in Slack
  slackIn,      \* external: the channels he is in
  memberships,  \* SlackClient.channelMemberships
  linked,       \* external: the web socket is up
  used,         \* external: commands, moves, renames and breaks so far
  told,         \* history: the nick main last heard of
  astray,       \* history: selfUser was used while outdated, or a change of
                \* nick and what input or main had decided to say could
                \* overtake each other
  early,        \* history: channels input joined before registration
  touched,      \* history: channels Slack told the user joined or left
  missed,       \* history: channels whose last join was told too early or not at
                \* all, or an earlier one too early since
  parted        \* history: channels the client left, or whose part the router
                \* still had when main fanned out a join

session == <<state, clientNick, joinedChans>>
input == <<doing, joins, say>>
fanout == <<selfNick, main, routed>>
slack == <<slackNick, slackIn, memberships, linked>>
aside == <<early, touched, missed, parted>>
vars == <<state, clientNick, selfNick, joinedChans, doing, joins, say, main,
          routed, hand, view, events, slackNick, slackIn, memberships, linked,
          used, told, astray, early, touched, missed, parted>>

\* A line: its command, the nick of its prefix, its argument.  The events main
\* receives have the same form: NICK and PART are lines for the router, BURST
\* has the user's nick and JOINED the channel he joined.
Line(cmd, who, arg) == [cmd |-> cmd, who |-> who, arg |-> arg]
Names == Nicks \cup {"*"}
Lines == [cmd : {"001", "NICK", "BURST"}, who : Names, arg : Names]
           \cup [cmd : {"JOIN", "PART", "JOINED"}, who : Names, arg : Known]
ASSUME NoLine == None \notin Lines

TypeOK ==
  /\ state \in {"registering", "awaitingNick", "awaitingUser", "registered"}
  /\ clientNick \in Names /\ selfNick \in Names
  /\ joinedChans \subseteq Known
  /\ doing \in {"waiting", "read", "straighten", "copy", "memberships",
                "rejoin", "join"}
  /\ joins \in Seq(Channels)
  /\ {say, main, routed, hand} \subseteq Lines \cup {None}
  /\ view \in [nick : Names, chans : SUBSET Known, welcomed : BOOLEAN]
  /\ events \in Seq(Lines)
  /\ slackNick \in Nicks /\ slackIn \subseteq Known /\ memberships \subseteq Known
  /\ linked \in BOOLEAN
  /\ used \in [{"commands", "moves", "renames", "breaks"} -> Nat]
  /\ told \in Names /\ astray \in BOOLEAN
  /\ early \cup touched \cup missed \cup parted \subseteq Known

\* The client is connected; the first burst is due, and input waits for it.
Init ==
  /\ state = "registering" /\ clientNick = "*" /\ selfNick = "*"
  /\ joinedChans = {}
  /\ doing = "waiting" /\ joins = <<>>
  /\ say = None /\ main = None /\ routed = None /\ hand = None
  /\ view = [nick |-> "*", chans |-> {}, welcomed |-> FALSE]
  /\ slackNick \in Nicks /\ slackIn \in SUBSET Known /\ memberships = slackIn
  /\ events = <<Line("BURST", slackNick, slackNick)>>
  /\ linked = TRUE
  /\ used = [k \in {"commands", "moves", "renames", "breaks"} |-> 0]
  /\ told = "*" /\ astray = FALSE
  /\ early = {} /\ touched = {} /\ missed = {} /\ parted = {}

Changes == used["moves"] + used["renames"] + used["breaks"]

\* One more change outside.
Change(kind) ==
  /\ Changes < MaxChanges
  /\ used' = [used EXCEPT ![kind] = @ + 1]

(***************************************************************************)
(* input: the commands                                                     *)
(***************************************************************************)

\* The client sends a command and input reads it.
Command ==
  /\ doing = "read" /\ say = None
  /\ used["commands"] < MaxCommands
  /\ used' = [used EXCEPT !["commands"] = @ + 1]
  /\ UNCHANGED <<fanout, hand, events, slack, told, touched, missed>>

\* NICK: registration goes on, or the client is told the nick it has to have.
\* Until it is welcomed it takes its own for granted.
NickCmd(n) ==
  /\ Command
  /\ IF state \in {"registering", "awaitingNick"}
     THEN clientNick' = n /\ UNCHANGED say
     ELSE say' = Line("NICK", n, selfNick) /\ UNCHANGED clientNick
  /\ astray' = (astray \/ (state \notin {"registering", "awaitingNick"} /\
                             told # selfNick))
  /\ state' = CASE state = "registering" -> "awaitingUser"
                [] state = "awaitingNick" -> "registered"
                [] OTHER -> state
  /\ doing' = IF state = "awaitingNick" THEN "straighten" ELSE "read"
  /\ view' = IF view.welcomed THEN view ELSE [view EXCEPT !.nick = n]
  /\ UNCHANGED <<joinedChans, joins, early, parted>>

UserCmd ==
  /\ Command
  /\ state' = CASE state = "registering" -> "awaitingNick"
                [] state = "awaitingUser" -> "registered"
                [] OTHER -> state
  /\ doing' = IF state = "awaitingUser" THEN "straighten" ELSE "read"
  /\ UNCHANGED <<clientNick, joinedChans, joins, say, view, early, parted, astray>>

\* JOIN, registered or not, of a list of channels.
JoinCmd(list) ==
  /\ Command
  /\ joins' = list
  /\ doing' = "join"
  /\ UNCHANGED <<session, say, view, early, parted, astray>>

\* Mutant of PartCmd: the client is told, but the server forgets to.
PartCmdKeeps(c) ==
  /\ Command
  /\ c \in joinedChans
  /\ say' = Line("PART", clientNick, c)
  /\ early' = early \ {c}
  /\ parted' = parted \cup {c}
  /\ UNCHANGED <<session, doing, joins, view, astray>>

\* PART of a channel joinedChans has; of any other it is ignored.
PartCmd(c) ==
  /\ Command
  /\ c \in joinedChans
  /\ joinedChans' = joinedChans \ {c}
  /\ say' = Line("PART", clientNick, c)
  /\ early' = early \ {c}
  /\ parted' = parted \cup {c}
  /\ UNCHANGED <<state, clientNick, doing, joins, view, astray>>

(***************************************************************************)
(* input: what it does with them                                           *)
(***************************************************************************)

\* A step of input that reads no command, once its last line is taken.
Go(from) ==
  /\ doing = from
  /\ say = None
  /\ UNCHANGED <<state, fanout, hand, view, events, slack, used, told, touched,
                 missed, parted>>

\* finishRegistration: "set the client straight if its nick is wrong".
Straighten ==
  /\ Go("straighten")
  /\ say' = IF clientNick # selfNick THEN Line("NICK", clientNick, selfNick)
            ELSE None
  /\ doing' = "copy"
  /\ UNCHANGED <<clientNick, joinedChans, joins, astray, early>>

\* The client takes over the user of the server, and is welcomed by his nick.
Welcome ==
  /\ Go("copy")
  /\ clientNick' = selfNick
  /\ say' = Line("001", selfNick, selfNick)
  /\ doing' = "memberships"
  /\ astray' = (astray \/ told # selfNick)
  /\ UNCHANGED <<joinedChans, joins, early>>

\* GetJoinedChannels, in the order of a Go map.
GetJoinedChannels ==
  /\ Go("memberships")
  /\ joins' \in {p \in [1 .. Cardinality(memberships) -> memberships] :
                   \A c \in memberships : \E i \in DOMAIN p : p[i] = c}
  /\ doing' = "rejoin"
  /\ UNCHANGED <<clientNick, joinedChans, say, astray, early>>

\* Mutant of HandleChannelJoined: without asking whether the channel exists.
HandleChannelJoinedUnasked(c) ==
  /\ joinedChans' = joinedChans \cup {c}
  /\ say' = Line("JOIN", clientNick, c)
  /\ early' = IF state = "registered" THEN early \ {c} ELSE early \cup {c}

\* handleChannelJoined: joinedChans is updated even if the client is not told,
\* because it is not registered.
HandleChannelJoined(c) ==
  IF c \in Known
  THEN /\ joinedChans' = joinedChans \cup {c}
       /\ say' = Line("JOIN", clientNick, c)
       /\ early' = IF state = "registered" THEN early \ {c} ELSE early \cup {c}
  ELSE UNCHANGED <<joinedChans, say, early>>

\* Mutant of Rejoin: channels joined before registration are not told again.
RejoinNew ==
  /\ Go("rejoin")
  /\ joins # <<>>
  /\ joins' = Tail(joins)
  /\ IF Head(joins) \in joinedChans
     THEN UNCHANGED <<joinedChans, say, early>>
     ELSE HandleChannelJoined(Head(joins))
  /\ UNCHANGED <<clientNick, doing, astray>>

\* One of the memberships.
Rejoin ==
  /\ Go("rejoin")
  /\ joins # <<>>
  /\ joins' = Tail(joins)
  /\ HandleChannelJoined(Head(joins))
  /\ UNCHANGED <<clientNick, doing, astray>>

\* One of the client's list.
Join ==
  /\ Go("join")
  /\ joins # <<>>
  /\ Head(joins) \notin joinedChans
  /\ joins' = Tail(joins)
  /\ HandleChannelJoined(Head(joins))
  /\ UNCHANGED <<clientNick, doing, astray>>

\* The list is through, or has a channel joinedChans has: the rest is dropped.
JoinsDone ==
  /\ \E from \in {"rejoin", "join"} :
       /\ Go(from)
       /\ joins # <<>> => from = "join" /\ Head(joins) \in joinedChans
  /\ joins' = <<>>
  /\ doing' = "read"
  /\ UNCHANGED <<clientNick, joinedChans, say, astray, early>>

(***************************************************************************)
(* main and the router                                                     *)
(***************************************************************************)

\* main takes the next event; what is for the router it can only take if the
\* router has nothing left to send.
MainReceive ==
  /\ main = None
  /\ events # <<>>
  /\ events' = Tail(events)
  /\ UNCHANGED <<session, input, hand, view, slack, used, early, missed>>

\* The router still has to tell of a change of nick.
Renaming(line) == line # None /\ line.cmd = "NICK"

\* Mutant of ConnectBurst: the clients are not informed.
ConnectBurstSilent ==
  /\ MainReceive
  /\ Head(events).cmd = "BURST"
  /\ selfNick' = Head(events).arg
  /\ told' = selfNick'
  /\ astray' = (astray \/ told # selfNick \/ Renaming(routed))
  /\ main' = IF selfNick = "*" THEN Line("NICK", selfNick, selfNick') ELSE None
  /\ UNCHANGED <<routed, touched, parted>>

\* HandleConnectBurst: the clients are informed if the user's nick changed.
ConnectBurst ==
  /\ MainReceive
  /\ Head(events).cmd = "BURST"
  /\ selfNick' = Head(events).arg
  /\ told' = selfNick'
  /\ astray' = (astray \/ told # selfNick \/ Renaming(routed))
  /\ main' = IF selfNick # selfNick' THEN Line("NICK", selfNick, selfNick')
             ELSE None
  /\ UNCHANGED <<routed, touched, parted>>

\* The router still has to tell that the user left the channel.
Parting(c) == routed # None /\ routed.cmd = "PART" /\ routed.arg = c

\* HandleChannelJoined of the server: main asks Slack about the channel, to fan
\* the join out itself.
ChannelJoined ==
  /\ MainReceive
  /\ Head(events).cmd = "JOINED"
  /\ main' = Head(events)
  /\ LET c == Head(events).arg IN
       /\ touched' = touched \cup {c}
       /\ parted' = IF Parting(c) THEN parted \cup {c} ELSE parted
  /\ UNCHANGED <<selfNick, routed, told, astray>>

\* A user's own changes of nick and parts go to the router, once it is free.
Route ==
  /\ MainReceive
  /\ Head(events).cmd \in {"NICK", "PART"}
  /\ routed = None
  /\ routed' = Head(events)
  /\ IF Head(events).cmd = "NICK"
     THEN told' = Head(events).arg /\ UNCHANGED touched
     ELSE touched' = touched \cup {Head(events).arg} /\ UNCHANGED told
  /\ UNCHANGED <<selfNick, main, astray, parted>>

\* The line for this client has the nick the gateway has for it by then.
SendChannelJoinedResponse ==
  /\ main # None /\ main.cmd = "JOINED"
  /\ main' = Line("JOIN", clientNick, main.arg)
  /\ missed' = IF view.welcomed THEN missed ELSE missed \cup {main.arg}
  /\ UNCHANGED <<session, input, selfNick, routed, hand, view, events, slack,
                 used, told, astray, early, touched, parted>>

(***************************************************************************)
(* output                                                                  *)
(***************************************************************************)

\* A line is taken from whoever sends one.  After main's first, the burst is
\* over and input starts.
Take ==
  /\ hand = None
  /\ \/ say # None /\ hand' = say /\ say' = None /\ UNCHANGED <<main, routed, doing>>
     \/ /\ main # None /\ main.cmd # "JOINED" /\ hand' = main /\ main' = None
        /\ doing' = IF doing = "waiting" THEN "read" ELSE doing
        /\ UNCHANGED <<say, routed>>
     \/ /\ routed # None /\ hand' = routed /\ routed' = None
        /\ UNCHANGED <<say, main, doing>>
  /\ UNCHANGED <<session, joins, selfNick, view, events, slack, used, told,
                 astray, aside>>

\* What a client makes of a line.
Shown(l, v) ==
  CASE l.cmd = "001" -> [v EXCEPT !.nick = l.arg, !.welcomed = TRUE]
    [] l.cmd = "NICK" /\ l.who = v.nick -> [v EXCEPT !.nick = l.arg]
    [] l.cmd = "JOIN" /\ l.who = v.nick -> [v EXCEPT !.chans = @ \cup {l.arg}]
    [] l.cmd = "PART" /\ l.who = v.nick -> [v EXCEPT !.chans = @ \ {l.arg}]
    [] OTHER -> v

\* The line is written, or dropped if the client is not registered now.
Write ==
  /\ hand # None
  /\ hand' = None
  /\ view' = IF state = "registered" THEN Shown(hand, view) ELSE view
  /\ astray' = (\/ astray
                \/ /\ hand.cmd = "NICK" /\ say # None /\ say.cmd \in {"001", "NICK"}
                   /\ hand.arg # say.arg)
  /\ UNCHANGED <<session, input, fanout, events, slack, used, told, aside>>

(***************************************************************************)
(* Slack and the network                                                   *)
(***************************************************************************)

Outside == UNCHANGED <<session, input, fanout, hand, view, told, astray, early,
                       touched, parted>>

\* The user changes his nick.
Rename(n) ==
  /\ n # slackNick
  /\ Change("renames")
  /\ slackNick' = n
  /\ events' = IF linked THEN Append(events, Line("NICK", slackNick, n))
               ELSE events
  /\ Outside /\ UNCHANGED <<slackIn, memberships, linked, missed>>

\* He joins a channel there.  main is not told if the web socket is down, nor if
\* poop cannot resolve the user or the channel: of that it complains instead.
JoinInSlack(c) ==
  /\ c \notin slackIn
  /\ Change("moves")
  /\ slackIn' = slackIn \cup {c}
  /\ \/ /\ linked
        /\ events' = Append(events, Line("JOINED", slackNick, c))
        /\ missed' = missed \ {c}
     \/ missed' = missed \cup {c} /\ UNCHANGED events
  /\ Outside /\ UNCHANGED <<slackNick, memberships, linked>>

\* He leaves one, which main is not told in the same cases.
LeaveInSlack(c) ==
  /\ c \in slackIn
  /\ Change("moves")
  /\ slackIn' = slackIn \ {c}
  /\ \/ linked /\ events' = Append(events, Line("PART", slackNick, c))
     \/ UNCHANGED events
  /\ Outside /\ UNCHANGED <<slackNick, memberships, linked, missed>>

Break ==
  /\ linked
  /\ Change("breaks")
  /\ linked' = FALSE
  /\ Outside /\ UNCHANGED <<slackNick, slackIn, memberships, events, missed>>

\* bootstrapMappings, after main has received all of the old connection.
Reconnect ==
  /\ ~linked
  /\ events = <<>>
  /\ linked' = TRUE
  /\ memberships' = slackIn
  /\ events' = <<Line("BURST", slackNick, slackNick)>>
  /\ Outside /\ UNCHANGED <<slackNick, slackIn, used, missed>>

Next ==
  \/ \E n \in Nicks : NickCmd(n) \/ Rename(n)
  \/ UserCmd \/ (\E list \in JoinLists : JoinCmd(list))
  \/ Straighten \/ Welcome \/ GetJoinedChannels \/ Rejoin \/ Join \/ JoinsDone
  \/ ConnectBurst \/ ChannelJoined \/ Route \/ SendChannelJoinedResponse
  \/ Take \/ Write
  \/ \E c \in Known : JoinInSlack(c) \/ LeaveInSlack(c) \/ PartCmd(c)
  \/ Break \/ Reconnect

Spec == Init /\ [][Next]_vars

(***************************************************************************)
(* Properties                                                              *)
(***************************************************************************)

\* The client is welcomed, and nobody has anything left to tell it.
Quiet ==
  /\ view.welcomed /\ linked /\ events = <<>> /\ doing = "read"
  /\ say = None /\ main = None /\ routed = None /\ hand = None

\* The client goes by the nick the user has in Slack, through registrations in
\* any order, changes of nick and reconnections, unless Server.selfUser was used
\* while user_change had made it outdated, a change of nick went out between the
\* server's decision on a welcome or an answer to NICK and that line, or a burst
\* came while the router still had one.
NickInStep == Quiet /\ ~astray => view.nick = slackNick

\* "Set the client straight if its nick is wrong": a client goes by the nick the
\* user has in Slack.
NickFollows == Quiet => view.nick = slackNick

\* The client shows itself in the channels the server thinks it is in, whatever
\* order it joins and parts in, but for those the server joined it to before
\* registration and those Slack moved the user in or out of.
ChansInStep ==
  Quiet /\ used["renames"] = 0 =>
    \A c \in Channels \ (early \cup touched) :
      c \in view.chans <=> c \in joinedChans

\* The client shows the channels the user is in in Slack, unless it left them
\* itself, a part was overtaken by a later join, or the join was told before it
\* was welcomed, or not at all.
JoinsShown ==
  Quiet /\ used["renames"] = 0 =>
    slackIn \subseteq view.chans \cup missed \cup parted
=============================================================================
