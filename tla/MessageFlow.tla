----------------------------- MODULE MessageFlow -----------------------------
(***************************************************************************)
(* One message at a time, from an IRC client to Slack and other clients    *)
(* and from Slack to the clients, with what becomes of its text, sender    *)
(* and target: handleConnInput and its answers (irc/client.go),            *)
(* SendPrivmsg and the getters of corpusCallosum (main.go),                *)
(* postProcessClientMessage, and handleMessageEvent                        *)
(* (gateway/message_handler.go).                                           *)
(*                                                                         *)
(* Who waits for whom is in ClientFanout, whether an echo is suppressed in *)
(* EchoSuppression, registration, JOIN lists, PART and NICK in             *)
(* ClientSession: the client here is registered and not in the channel it  *)
(* joins, and its nick is the user's.  A failing answer of Slack is a      *)
(* choice of the step that asks; a user or channel it does answer for is   *)
(* cached.  A channel is identified by the name it has in channelInfo.     *)
(*                                                                         *)
(* The inverse maps need not be right: an entry of nickToUserMap may be    *)
(* stale (UserDirectory shows how it gets so), and until bootstrapMappings *)
(* has regenerated them both maps may be those of before.                  *)
(***************************************************************************)
EXTENDS MessageText, IrcLines

CONSTANTS
  Me,          \* the gateway's user
  Workspace,   \* the users the directory was loaded with, Me among them
  Channels,    \* names of channels, with their "#"
  Listed,      \* the channels the directory knows
  NickMaps,    \* what nickToUserMap may be at first
  NameMaps,    \* what channelNameToIDMap may be while the directory is reloaded
  Members,     \* [Channels -> Seq(Users)], as GetChannelUsers has them
  Topic,       \* [Channels -> texts], "" is <<>>
  SetBy,       \* [Channels -> Users \cup {None}], who set the topic
  NamesLimit,  \* 400
  Motd,        \* a sequence of texts, the lines of the configured MOTD
  ClientLines, \* the lines a client may send
  SlackEvents, \* the message events of Slack
  None

ASSUME FlowAssumption ==
  /\ Me \in Workspace /\ Workspace \subseteq Users /\ Listed \subseteq Channels
  /\ Members \in [Channels -> Seq(Users)]
  /\ SetBy \in [Channels -> Users \cup {None}] /\ None \notin Users
  /\ NamesLimit \in Nat
  /\ \A m \in NickMaps : m \in [DOMAIN m -> Users] /\ DOMAIN m \subseteq NickText
  /\ \A m \in NameMaps : m \in [DOMAIN m -> Channels] /\ DOMAIN m \subseteq Channels

\* What is read by a bufio.Scanner is one line.
Line == Seq(Atoms \ {"\n"})

\* The words of the code itself, in commands and replies.
Wording == DOMAIN Needs \cup
  {"", "001", "002", "005", "311", "312", "315", "318", "324", "329", "331", "332",
   "333", "352", "353", "366", "372", "375", "376", "401", "403", "421", "461",
   "malformed", "PONG", "server", "localhost", "tanya", "*tanya", "SLACK", "shared",
   "*", "=", "[", "]", "0", "H", "+nt", "ctime", "name", "End", "of /WHO list",
   "of /WHOIS list", "of /NAMES list", "Slack IRC Gateway", "Unknown command",
   "Not enough parameters", "No such nick/channel", "No such channel",
   "- tanya Message of the Day -", "End of /MOTD command.", "No topic is set.",
   "Welcome", "to tanya", "Your host", "is tanya", "MAP", "are supported",
   "by this server", "NICKLEN=32", "connected to slack!", "failed to send message"}

ASSUME WorldAssumption ==
  /\ Wording \subseteq STRING
  /\ Channels \subseteq Atoms \ (Marks \cup Users)
  /\ Topic \in [Channels -> Seq(Atoms)]
  /\ Motd \in Seq(Line) /\ ClientLines \subseteq Line
  /\ SlackEvents \subseteq
       [user : Users \cup {"USLACKBOT", None}, conv : Channels \cup Users,
        sub : STRING, text : Seq(Atoms), fallbacks : Seq(Seq(Atoms)),
        files : Line, link : Users \cup {None}]
  /\ \A e \in SlackEvents : e.link # None => e.fallbacks # <<>>
  /\ None \notin Line \cup SlackEvents /\ "USLACKBOT" \notin Users

VARIABLES
  userInfo,    \* SlackClient.userInfo
  nickToUserMap,
  channelInfo, \* SlackClient.channelInfo
  channelNameToIDMap,
  reloading,   \* bootstrapMappings has yet to call regenerateReverseMappings
  dmInfo,      \* SlackClient.dmInfo: the users whose DM is known
  line,        \* the line last read, or None
  incoming,    \* the PRIVMSG the server has to route, or None
  posted,      \* what Slack was sent for it, or None
  relayed,     \* the message the other clients get of it, or None
  answers,     \* the messages written to the client for line
  event,       \* the Slack event last handled, or None
  shown,       \* the messages all clients get of it
  panicked     \* the process is gone

userMaps == <<userInfo, nickToUserMap>>
channelMaps == <<channelInfo, channelNameToIDMap, reloading>>
client == <<line, incoming, posted, relayed, answers>>
vars == <<userMaps, channelMaps, dmInfo, client, event, shown, panicked>>

Texts == Seq(STRING)
Messages == [prefix : Texts, cmd : STRING, params : Seq(Texts)]

TypeOK ==
  /\ Me \in userInfo /\ userInfo \subseteq Users
  /\ nickToUserMap \in [DOMAIN nickToUserMap -> Users]
  /\ channelInfo \subseteq Channels
  /\ channelNameToIDMap \in [DOMAIN channelNameToIDMap -> Channels]
  /\ reloading \in BOOLEAN
  /\ dmInfo \subseteq userInfo
  /\ line \in {None} \cup Texts
  /\ incoming \in {None} \cup Messages
  /\ posted \in {None} \cup [conv : Channels \cup Users, text : Texts]
  /\ relayed \in {None} \cup Messages
  /\ answers \in Seq(Messages) /\ shown \in Seq(Messages)
  /\ event \in {None} \cup SlackEvents
  /\ panicked \in BOOLEAN

\* The directory has been loaded, and nothing said yet.
Init ==
  /\ userInfo = Workspace
  /\ nickToUserMap \in NickMaps
  /\ channelInfo = Listed
  /\ \/ reloading = TRUE /\ channelNameToIDMap \in NameMaps
     \/ reloading = FALSE /\ channelNameToIDMap = [c \in Listed |-> c]
  /\ dmInfo \in {{}, userInfo}
  /\ line = None /\ incoming = None /\ posted = None /\ relayed = None
  /\ answers = <<>> /\ event = None /\ shown = <<>> /\ panicked = FALSE

\* Only the first character is looked at.
IsTargetChannel(target) ==
  Starts(target, "#") \/ \E c \in Channels : Starts(target, c)
IsDmChannel(conv) == conv \in Users

\* ResolveNameToChannel panics: the entry of c is that of a channel with another
\* name.
StaleName(c) ==
  \E k \in DOMAIN channelNameToIDMap :
    c = <<k>> /\ channelNameToIDMap[k] \in channelInfo \ {k}

\* ResolveNameToChannel finds the channel.
ChannelExists(c) ==
  \E k \in channelInfo \cap DOMAIN channelNameToIDMap :
    c = <<k>> /\ channelNameToIDMap[k] = k

\* The entries of nickToUserMap ResolveNickToUser goes by.
Owner ==
  [n \in {k \in DOMAIN nickToUserMap : nickToUserMap[k] \in userInfo} |->
     nickToUserMap[n]]

\* GetUserFromNick, where it does not panic, as a prefix, which is empty if there
\* is no such user.
GetUserFromNick(nick) == IF nick \in DOMAIN Owner THEN <<Owner[nick]>> ELSE <<>>

\* The maps from the nicks of us to them, which keep one user of each nick: the
\* order in which they are written is not that of us.
Inverses(us) ==
  {f \in [{Nick[u] : u \in us} -> us] : \A n \in DOMAIN f : Nick[f[n]] = n}

\* ResolveUser stores what it found: the users known are those of known now.
Store(known) ==
  /\ userInfo' = known
  /\ \E found \in Inverses(known \ userInfo) :
       nickToUserMap' =
         [n \in DOMAIN nickToUserMap \cup DOMAIN found |->
            IF n \in DOMAIN found THEN found[n] ELSE nickToUserMap[n]]

\* ResolveChannel: the channel c is known now.
StoreChannel(c) ==
  /\ channelInfo' = channelInfo \cup {c}
  /\ channelNameToIDMap' =
       IF c \in channelInfo THEN channelNameToIDMap
       ELSE [k \in DOMAIN channelNameToIDMap \cup {c} |->
               IF k = c THEN c ELSE channelNameToIDMap[k]]
  /\ UNCHANGED reloading

\* Those known, and the users of us that Slack answers for now.
Answered(known, us) == {known \cup found : found \in SUBSET (us \ known)}

(***************************************************************************)
(* handleConnInput: a line is read and answered                            *)
(***************************************************************************)

\* What was said of the last message is forgotten.
Idle ==
  /\ ~panicked
  /\ line = None /\ incoming = None /\ posted = None /\ relayed = None
  /\ answers = <<>> /\ event = None /\ shown = <<>>

Forget ==
  /\ ~panicked /\ incoming = None
  /\ line' = None /\ posted' = None /\ relayed' = None /\ answers' = <<>>
  /\ event' = None /\ shown' = <<>>
  /\ UNCHANGED <<userMaps, channelMaps, dmInfo, incoming, panicked>>

\* The maps are those of the directory again, of whichever users of a nick come
\* last; not between a step and what is said of it.
RegenerateReverseMappings ==
  /\ ~panicked /\ reloading /\ posted = None /\ answers = <<>>
  /\ reloading' = FALSE
  /\ nickToUserMap' \in Inverses(userInfo)
  /\ channelNameToIDMap' = [c \in channelInfo |-> c]
  /\ UNCHANGED <<userInfo, channelInfo, dmInfo, client, event, shown, panicked>>

\* The line l is read, which is the message m or an error.
Read(l) ==
  /\ line' = l
  /\ UNCHANGED <<channelMaps, dmInfo, posted, relayed, event, shown>>

Parsed(m, cmd) == ~Malformed(m) /\ m.cmd = cmd

\* What is looked up for m has a stale entry.
LooksUpStale(m) ==
  \/ Parsed(m, "WHOIS") /\ Stale(m.params[1], Owner)
  \/ Parsed(m, "JOIN") /\ StaleName(m.params[1])
  \/ Parsed(m, "TOPIC") /\ Len(m.params) = 1 /\ StaleName(m.params[1])
  \/ Parsed(m, "WHO") /\ m.params # <<>> /\ StaleName(m.params[1])
  \/ Parsed(m, "MODE") /\ m.params # <<>> /\ IsTargetChannel(m.params[1])
       /\ StaleName(m.params[1])

\* The replies n, in a row, to the client.
Write(n) == answers' = [i \in DOMAIN n |-> Reply(n[i], Nick[Me])]

\* ResolveNameToChannel or ResolveNickToUser panics before anything is answered.
ReadStale(l, m) ==
  /\ Read(l)
  /\ LooksUpStale(m)
  /\ panicked' = TRUE
  /\ UNCHANGED <<userMaps, incoming, answers>>

\* A line that is no command is answered with its error, if it has one.
ReadMalformed(l, m) ==
  /\ Read(l)
  /\ Malformed(m)
  /\ LET n == m.error
     IN Write(IF n.code = "malformed" THEN <<>> ELSE <<n>>)
  /\ UNCHANGED <<userMaps, incoming, panicked>>

ReadPrivmsg(l, m) ==
  /\ Read(l)
  /\ Parsed(m, "PRIVMSG")
  /\ incoming' = ParseMessage(m)
  /\ Write(<<>>)
  /\ UNCHANGED <<userMaps, panicked>>

Ping(l, m) ==
  /\ Read(l)
  /\ Parsed(m, "PING")
  /\ LET token == IF m.params = <<>> THEN <<>> ELSE m.params[1]
     IN answers' = <<Message(<<"server">>, "PONG", << <<"server">>, token >>)>>
  /\ UNCHANGED <<userMaps, incoming, panicked>>

\* Only the modes of channels are answered; the first character of the first
\* parameter is looked at even if there is none.
Mode(l, m) ==
  /\ Read(l)
  /\ Parsed(m, "MODE") /\ ~LooksUpStale(m)
  /\ LET p == m.params
     IN /\ panicked' = (p # <<>> /\ p[1] = <<>>)
        /\ Write(IF p # <<>> /\ IsTargetChannel(p[1])
                 THEN <<Numeric("324", <<p[1], <<"+nt">> >>),
                        Numeric("329", <<p[1], <<"ctime">> >>)>>
                 ELSE <<>>)
  /\ UNCHANGED <<userMaps, incoming>>

\* Mutant of GetChannelTopic: the topic may have lines.
GetChannelTopicLines(c, known) ==
  IF ChannelExists(c) THEN ParseMessageText(Topic[c[1]], known) ELSE <<>>

\* The topic on one line, <<>> for a channel nobody knows.
GetChannelTopic(c, known) ==
  IF ChannelExists(c)
  THEN ReplaceAll(ParseMessageText(Topic[c[1]], known), "\n", " ")
  ELSE <<>>

\* The users known after the topic was asked for.
TopicResolved(c) ==
  IF ChannelExists(c)
  THEN Answered(userInfo, Resolved(Topic[c[1]]) \cup ({SetBy[c[1]]} \ {None}))
  ELSE {userInfo}

SendChannelTopic(c, topic, known) ==
  LET by == SetBy[c[1]]
  IN IF topic = <<>> THEN <<Numeric("331", <<c, <<"No topic is set.">> >>)>>
     ELSE <<Numeric("332", <<c, topic>>),
            Numeric("333", <<c, IF by \in known THEN Nick[by] ELSE <<"server">>,
                             <<"0">> >>)>>

TopicCmd(l, m) ==
  /\ Read(l)
  /\ Parsed(m, "TOPIC") /\ ~LooksUpStale(m)
  /\ IF Len(m.params) > 1
     THEN Write(<<>>) /\ UNCHANGED <<userMaps, panicked>>
     ELSE \E known \in TopicResolved(m.params[1]) :
            LET topic == GetChannelTopic(m.params[1], known)
            IN /\ Store(known)
               /\ Write(SendChannelTopic(m.params[1], topic, known))
               /\ panicked' = Contains(topic, Panic[1])
  /\ UNCHANGED incoming

\* The members if Slack tells and resolves them all, and <<>> if not, with those
\* known then.
GetChannelUsers(c, known) ==
  IF ~ChannelExists(c) THEN {[users |-> <<>>, known |-> known]}
  ELSE LET members == ToSet(Members[c[1]])
       IN {[users |-> Members[c[1]], known |-> known \cup members]}
            \cup {[users |-> <<>>, known |-> k] : k \in Answered(known, members)}

Who(l, m) ==
  /\ Read(l)
  /\ Parsed(m, "WHO") /\ ~LooksUpStale(m)
  /\ IF m.params = <<>>
     THEN Write(<<>>) /\ UNCHANGED userMaps
     ELSE \E told \in GetChannelUsers(m.params[1], userInfo) :
            /\ Store(told.known)
            /\ Write(WholistAsNumerics(told.users, Nick, m.params[1]))
  /\ UNCHANGED <<incoming, panicked>>

Whois(l, m) ==
  /\ Read(l)
  /\ Parsed(m, "WHOIS") /\ ~LooksUpStale(m)
  /\ LET nick == m.params[1]
         u == GetUserFromNick(nick)
     IN Write(IF u = <<>> THEN <<ErrNoSuchNick(nick)>>
              ELSE WhoisAsNumerics(u[1], Nick))
  /\ UNCHANGED <<userMaps, incoming, panicked>>

\* handleChannelJoined: the JOIN, the topic if there is one, and the names.
JoinCmd(l, m) ==
  /\ Read(l)
  /\ Parsed(m, "JOIN") /\ ~LooksUpStale(m)
  /\ LET c == m.params[1]
     IN IF ~ChannelExists(c)
        THEN Write(<<ErrNoSuchChannel(c)>>) /\ UNCHANGED <<userMaps, panicked>>
        ELSE \E known \in TopicResolved(c) : \E told \in GetChannelUsers(c, known) :
               LET topic == GetChannelTopic(c, known)
                   replies == (IF topic = <<>> THEN <<>>
                               ELSE SendChannelTopic(c, topic, known))
                                \o NamelistAsNumerics(told.users, Nick, c, NamesLimit)
               IN /\ Store(told.known)
                  /\ answers' = <<Message(<<Me>>, "JOIN", <<c>>)>>
                       \o [i \in DOMAIN replies |-> Reply(replies[i], Nick[Me])]
                  /\ panicked' = Contains(topic, Panic[1])
  /\ UNCHANGED incoming

\* sendWelcome up to the channels, which are joined like JoinCmd's.
Welcome ==
  /\ Write(<<Numeric("001", << <<"Welcome", " ", "to tanya">> >>),
             Numeric("002", << <<"Your host", " ", "is tanya">> >>),
             Numeric("005", << <<"MAP">>, <<"are supported", " ", "by this server">> >>),
             Numeric("005", << <<"NICKLEN=32">>,
                               <<"are supported", " ", "by this server">> >>)>>
             \o MOTDAsNumerics(Motd))
  /\ UNCHANGED <<userMaps, channelMaps, dmInfo, line, incoming, posted, relayed,
                 event, shown, panicked>>

(***************************************************************************)
(* handleIncomingMessageRouting: the line is posted, and told the others   *)
(***************************************************************************)

\* What tells the clients who wrote a message they see as somebody else's.
Mark == <<"[">> \o Nick[Me] \o <<"]", " ">>

\* A message without a prefix is the user's own: in a channel he is its sender,
\* in a DM the other user is, with a mark.
PostProcessClientMessage(m) ==
  CASE ~IsFromSelf(m) -> m
    [] IsFromSelf(m) /\ IsTargetChannel(m.params[1]) ->
         Privmsg(<<Me>>, m.params[1], m.params[2])
    [] OTHER ->
         Privmsg(GetUserFromNick(m.params[1]), Nick[Me], Mark \o m.params[2])

Route ==
  /\ ~panicked /\ incoming # None
  /\ incoming' = None
  /\ relayed' = PostProcessClientMessage(incoming)
  /\ UNCHANGED <<userMaps, channelMaps, line, answers, event>>

\* Where incoming goes: a channel, a user, or nowhere.
Conversations ==
  LET target == incoming.params[1]
  IN IF incoming.params[2] = <<>> THEN {}
     ELSE IF IsTargetChannel(target)
     THEN {c \in channelInfo : ChannelExists(target) /\ target = <<c>>}
     ELSE {u \in userInfo : GetUserFromNick(target) = <<u>>}

\* The target of incoming is looked up, and its entry is stale: by SendPrivmsg if
\* there is a text, by the clients' postProcessClientMessage if not.
TargetIsStale ==
  LET target == incoming.params[1]
      text == incoming.params[2]
  IN IF IsTargetChannel(target) THEN text # <<>> /\ StaleName(target)
     ELSE (text # <<>> \/ IsFromSelf(incoming)) /\ Stale(target, Owner)

\* Mutant of SendNothing: the nick is not checked.
SendNothingUnchecked ==
  /\ Route
  /\ ~TargetIsStale /\ Conversations = {}
  /\ incoming.params[2] # <<>> => ~IsTargetChannel(incoming.params[1])
  /\ panicked' = (incoming.params[2] # <<>>)
  /\ UNCHANGED <<dmInfo, posted, shown>>

\* SendPrivmsg has nothing to send, or the nick is nobody's.
SendNothing ==
  /\ Route
  /\ ~TargetIsStale /\ Conversations = {}
  /\ incoming.params[2] # <<>> => ~IsTargetChannel(incoming.params[1])
  /\ UNCHANGED <<dmInfo, posted, shown, panicked>>

\* ResolveNameToChannel finds no channel, and SendMessage takes its id.
SendToNoChannel ==
  /\ ~panicked /\ incoming # None
  /\ ~TargetIsStale /\ Conversations = {}
  /\ incoming.params[2] # <<>> /\ IsTargetChannel(incoming.params[1])
  /\ panicked' = TRUE
  /\ UNCHANGED <<userMaps, channelMaps, dmInfo, client, event, shown>>

\* The target, or a mention of the text that is to be posted, is found stale.
SendStale ==
  /\ ~panicked /\ incoming # None
  /\ \/ TargetIsStale
     \/ Conversations # {} /\ MentionIsStale(incoming.params[2], Owner)
  /\ panicked' = TRUE
  /\ UNCHANGED <<userMaps, channelMaps, dmInfo, client, event, shown>>

\* The message is posted; a DM is opened if need be.
SendPrivmsg ==
  /\ Route
  /\ ~TargetIsStale /\ ~MentionIsStale(incoming.params[2], Owner)
  /\ \E conv \in Conversations :
       /\ \E text \in UnparseMessageText(incoming.params[2], Owner) :
            posted' = [conv |-> conv, text |-> text]
       /\ dmInfo' = IF IsDmChannel(conv) THEN dmInfo \cup {conv} ELSE dmInfo
  /\ UNCHANGED <<shown, panicked>>

\* OpenConversation fails, or PostMessage, for which the text is unparsed: all
\* clients are told.
SendFails ==
  /\ Route
  /\ ~TargetIsStale
  /\ \E conv \in Conversations :
       \/ IsDmChannel(conv) /\ conv \notin dmInfo /\ UNCHANGED dmInfo
       \/ /\ ~MentionIsStale(incoming.params[2], Owner)
          /\ dmInfo' = IF IsDmChannel(conv) THEN dmInfo \cup {conv} ELSE dmInfo
  /\ shown' = <<Privmsg(<<"*tanya">>, Nick[Me], <<"failed to send message">>)>>
  /\ UNCHANGED <<posted, panicked>>

(***************************************************************************)
(* handleMessageEvent and file_shared: Slack's messages                    *)
(***************************************************************************)

\* Slack delivers e; bootstrapMappings is a handler too.
Deliver(e) ==
  /\ ~reloading
  /\ event' = e
  /\ UNCHANGED client

Drop == shown' = <<>> /\ UNCHANGED panicked

\* The user and the conversation of e, "" is None.
Sender(e) == {e.user} \cap Users
Swapped(e) == IsDmChannel(e.conv) /\ e.user = Me

\* Mutant of MessageTextToEvents: a text is one message.
MessageTextToEventsWhole(sender, target, text) ==
  IF text = <<>> THEN <<>> ELSE <<Privmsg(sender, target, text)>>

\* A message for each line of text that has anything.
MessageTextToEvents(sender, target, text) ==
  LET add(ls, a) == IF a = "\n" THEN Append(ls, <<>>)
                    ELSE [ls EXCEPT ![Len(ls)] = Append(@, a)]
      lines == FoldLeft(add, << <<>> >>, text)
  IN Spread(lines, LAMBDA i : IF lines[i] = <<>> THEN <<>>
                              ELSE <<Privmsg(sender, target, lines[i])>>)

\* The text of e and of its attachments, each on a line of its own.
FullText(e, known) ==
  LET add(t, f) == IF t = <<>> THEN ParseMessageText(f, known)
                   ELSE t \o <<"\n">> \o ParseMessageText(f, known)
  IN FoldLeft(add, ParseMessageText(e.text, known), e.fallbacks)

OwnMark(e) == IF Swapped(e) THEN Mark ELSE <<>>

\* What the clients are told of e.  The user's own DMs come from the other user,
\* since a client can show no others, and are marked.
EventMessages(e, known) ==
  LET sender == IF Swapped(e) THEN <<e.conv>>
                ELSE IF e.user \in Users THEN <<e.user>> ELSE <<>>
      target == IF IsDmChannel(e.conv) THEN Nick[Me] ELSE <<e.conv>>
      file(f) == Privmsg(sender, target, <<"@">> \o Nick[sender[1]] \o <<" ", f>>)
  IN CASE e.sub \in {"", "pinned_item", "thread_broadcast"} /\ sender # <<>> ->
            MessageTextToEvents(sender, target, OwnMark(e) \o FullText(e, known))
              \o [i \in DOMAIN e.files |-> file(e.files[i])]
       [] e.sub = "bot_message" ->
            MessageTextToEvents(IF sender = <<>> THEN <<"SLACK">> ELSE sender,
                                target, FullText(e, known))
       [] e.sub = "message_changed" /\ e.link # None /\ e.link \in known ->
            <<Privmsg(<<e.link>>, target, ParseMessageText(e.fallbacks[1], known))>>
       [] e.sub = "channel_topic" /\ sender # <<>> ->
            <<Message(sender, "TOPIC", <<target, e.text>>)>>
       [] OTHER -> <<>>

\* Those it resolves for it, past the sender.
EventUsers(e) ==
  LET texts == {e.text} \cup ToSet(e.fallbacks)
  IN CASE e.sub = "message_changed" ->
            IF e.link = None THEN {} ELSE {e.link} \cup Resolved(e.fallbacks[1])
       [] e.sub \in {"", "pinned_item", "thread_broadcast", "bot_message"} ->
            UNION {Resolved(t) : t \in texts}
       [] OTHER -> {}

\* Messages of USLACKBOT, and those whose sender Slack does not tell, are
\* dropped.
HandleUnresolvedSender(e) ==
  /\ Deliver(e)
  /\ e.user = "USLACKBOT" \/ e.user \in Users \ userInfo
  /\ Drop
  /\ UNCHANGED <<userMaps, channelMaps, dmInfo>>

\* Mutant of ListDMs: DMs with users nobody knows are stored too.
ListDMsOfAnybody(listed) == dmInfo \cup listed

\* The DMs known when Slack has listed those with listed: the users nobody knows
\* are skipped.
ListDMs(listed) == dmInfo \cup (listed \cap userInfo)

\* The sender is resolved, the conversation is not: Slack tells nothing of the
\* channel, or the user's own DM is not among those it lists, if it lists any, or
\* is with somebody unknown.
HandleUnresolvedConversation(e) ==
  /\ Deliver(e)
  /\ e.user # "USLACKBOT"
  /\ Store(userInfo \cup Sender(e))
  /\ \/ ~IsDmChannel(e.conv) /\ e.conv \notin channelInfo /\ UNCHANGED dmInfo
     \/ Swapped(e) /\ e.conv \notin dmInfo
          /\ \E listed \in SUBSET Users :
               dmInfo' = ListDMs(listed) /\ e.conv \notin dmInfo'
  /\ Drop
  /\ UNCHANGED channelMaps

\* The user a DM is with is found, if need be among the DMs Slack lists.
ResolveDMToUser(e) ==
  IF Swapped(e) /\ e.conv \notin dmInfo
  THEN \E listed \in SUBSET Users : dmInfo' = ListDMs(listed) /\ e.conv \in dmInfo'
  ELSE UNCHANGED dmInfo

HandleMessageEvent(e) ==
  /\ Deliver(e)
  /\ e.user # "USLACKBOT"
  /\ ResolveDMToUser(e)
  /\ IF IsDmChannel(e.conv) THEN UNCHANGED channelMaps ELSE StoreChannel(e.conv)
  /\ \E known \in Answered(userInfo \cup Sender(e), EventUsers(e)) :
       LET messages == EventMessages(e, known)
       IN /\ Store(known)
          /\ panicked' = (\E i \in DOMAIN messages :
                            Contains(messages[i].params[2], Panic[1]))
          /\ shown' = IF panicked' THEN <<>> ELSE messages

\* file_shared, in a channel.
FileShared(u, c) ==
  /\ Deliver(None)
  /\ \/ c \notin channelInfo /\ UNCHANGED <<userMaps, channelMaps>> /\ Drop
     \/ StoreChannel(c) /\ u \notin userInfo /\ UNCHANGED userMaps /\ Drop
     \/ /\ StoreChannel(c)
        /\ Store(userInfo \cup {u})
        /\ LET text == <<"@">> \o Nick[u] \o <<" ", "shared">>
           IN shown' = <<Privmsg(<<u>>, <<c>>, Decode(text))>>
        /\ UNCHANGED panicked
  /\ UNCHANGED dmInfo

\* newInternalMessageEvent: what the gateway says of its connection.
Notice ==
  /\ Deliver(None)
  /\ shown' = <<Privmsg(<<"*tanya">>, Nick[Me], <<"connected to slack!">>)>>
  /\ UNCHANGED <<userMaps, channelMaps, dmInfo, panicked>>

Next ==
  \/ Idle /\ \E l \in ClientLines :
       LET m == StringToMessage(l)
       IN \/ ReadStale(l, m) \/ ReadMalformed(l, m) \/ ReadPrivmsg(l, m)
          \/ Ping(l, m) \/ Mode(l, m) \/ TopicCmd(l, m) \/ Who(l, m) \/ Whois(l, m)
          \/ JoinCmd(l, m)
  \/ Idle /\ (Welcome \/ Notice)
  \/ RegenerateReverseMappings
  \/ SendNothing \/ SendToNoChannel \/ SendStale \/ SendPrivmsg \/ SendFails
  \/ Idle /\ \E e \in SlackEvents :
       \/ HandleUnresolvedSender(e) \/ HandleUnresolvedConversation(e)
       \/ HandleMessageEvent(e)
  \/ Idle /\ \E u \in Users, c \in Channels : FileShared(u, c)
  \/ Forget

Spec == Init /\ [][Next]_vars

(***************************************************************************)
(* Properties                                                              *)
(***************************************************************************)

\* The clients of the user see a line one of them wrote as they would see it if
\* another program of his had posted what Slack was sent: same sender, target
\* and text, after the text was escaped, its mentions were made references and
\* Slack's form was parsed back.
LooksTheSame ==
  posted # None /\ ~Contains(relayed.prefix, "!") =>
    LET echo == [user |-> Me, conv |-> posted.conv, sub |-> "",
                 text |-> posted.text, fallbacks |-> <<>>, files |-> <<>>,
                 link |-> None]
    IN EventMessages(echo, userInfo) = <<relayed>>

\* The words that follow an "@" in t, as long as they get.
Called(t) ==
  LET name == Letters \cup Joiners
  IN {w \in {SubSeq(t, i, j) : i, j \in 2 .. Len(t)} :
        /\ w # <<>> /\ Head(w) \in Letters /\ ToSet(w) \subseteq name
        /\ \E i \in 1 .. Len(t) - Len(w) :
             /\ t[i] = "@" /\ SubSeq(t, i + 1, i + Len(w)) = w
             /\ i + Len(w) = Len(t) \/ t[i + Len(w) + 1] \notin name}

\* Who is called by his nick is notified by Slack: of all words the line calls
\* that are nicks none is missed but those that begin with another word it calls,
\* and of the users who share the nick it is the one nickToUserMap has.  Nobody
\* else is notified.
MentionsReach ==
  posted # None =>
    LET called == Called(StringToMessage(line).params[2])
        begun(w) == \E v \in called : IsStrictPrefix(v, w)
        notified == Resolved(posted.text)
    IN /\ \A w \in called \cap DOMAIN Owner : begun(w) \/ Owner[w] \in notified
       /\ \A u \in notified : Nick[u] \in called /\ <<u>> = GetUserFromNick(Nick[u])

\* The nicks a client is told when it joins are all of the channel's, in order,
\* each once, or none if Slack does not tell them; and no line of them is longer
\* than the limit and one nick.  Nicks that start or end with a no-break space
\* would lose it at a cut.
NamesTold ==
  /\ line # None /\ Parsed(StringToMessage(line), "JOIN")
  /\ \A u \in Users : "nbsp" \notin {Head(Nick[u]), Last(Nick[u])}
  =>
    LET c == StringToMessage(line).params[1]
        lists(m) == m.cmd = "" /\ m.params[1] = <<"353">>
        names(m) == m.params[5]
        nicks(us) == [i \in DOMAIN us |-> Nick[us[i]]]
        longest(m) == \E u \in Users : Len(names(m)) <= NamesLimit + Len(Nick[u])
    IN /\ Spread(answers, LAMBDA i : IF lists(answers[i]) THEN Split(names(answers[i]))
                                    ELSE <<>>)
            \in {nicks(told.users) : told \in GetChannelUsers(c, userInfo)}
       /\ \A m \in ToSet(answers) : lists(m) => longest(m)

\* What a client makes of a line that starts with a prefix or not.
ReadBack(l) ==
  LET ws == Split(l)
  IN IF Starts(l, ":")
     THEN <<Tail(ws[1])>> \o Params(SubSeq(ws, 2, Len(ws)))
     ELSE << <<>> >> \o Params(ws)

\* Every message that can be written as a line, with words for all parameters
\* but the last and something for that, is read back as it was: prefix, command
\* and parameters, whatever blanks and colons the last one has.
LinesReadBack ==
  LET word(t) == t # <<>> /\ ~Contains(t, " ") /\ ~Starts(t, ":")
      fields(m) == <<m.prefix>> \o (IF m.cmd = "" THEN <<>> ELSE << <<m.cmd>> >>)
                     \o m.params
      writable(m) == /\ \A i \in 1 .. Len(m.params) - 1 : word(m.params[i])
                     /\ Last(m.params) # <<>>
  IN \A m \in ToSet(answers) \cup ToSet(shown) \cup ({relayed} \ {None}) :
       writable(m) => ReadBack(String(m)) = fields(m)

\* What is one line for the gateway is one line for the clients, though texts,
\* attachments and topics of Slack have several; but for the changes of a topic
\* and the attachments of archive links.
OneLine ==
  LET single(m) == \A i \in DOMAIN m.params : ~Contains(m.params[i], "\n")
  IN /\ \A m \in ToSet(answers) : single(m)
     /\ event = None \/ event.sub \notin {"message_changed", "channel_topic"} =>
          \A m \in ToSet(shown) : single(m)

Marked(m) == IsPrefix(Mark, m.params[2])

\* "If we had swapped senders earlier, make sure the message reflects this swap":
\* every line of an own DM is marked, files shared in it too.
OwnWordsMarked ==
  event # None /\ event.sub = "" /\ Swapped(event) =>
    \A i \in DOMAIN shown : Marked(shown[i])

\* The process ends for a line or a message in these cases only: a MODE of
\* nothing; a topic asked for, or a text received, with a reference to nothing; a
\* PRIVMSG to a channel Slack does not know; the name of a channel looked up that
\* is another's now, which a directory whose maps have been regenerated has not;
\* and a nick looked up whose entry is stale, as a target or in a mention.
Survives ==
  LET m == StringToMessage(line)
      read == line # None /\ ~Malformed(m)
      toNothing(t) == Contains(Pieces(t), [ref |-> TRUE, text |-> <<>>])
  IN panicked =>
       \/ read /\ Parsed(m, "MODE") /\ m.params[1] = <<>>
       \/ /\ read
          /\ Parsed(m, "TOPIC") \/ Parsed(m, "JOIN")
          /\ \E c \in channelInfo : m.params[1] = <<c>> /\ toNothing(Topic[c])
       \/ /\ incoming # None
          /\ IsTargetChannel(incoming.params[1]) /\ ~ChannelExists(incoming.params[1])
       \/ event # None /\ \E t \in {event.text} \cup ToSet(event.fallbacks) : toNothing(t)
       \/ read /\ reloading /\ m.params # <<>> /\ StaleName(m.params[1])
       \/ /\ read
          /\ Parsed(m, "WHOIS") \/ Parsed(m, "PRIVMSG")
          /\ Stale(m.params[1], Owner)
       \/ /\ read /\ Parsed(m, "PRIVMSG")
          /\ \E w \in Called(m.params[2]) : Stale(w, Owner)
=============================================================================
