------------------------------ MODULE IrcLines ------------------------------
(***************************************************************************)
(* Lines of IRC and the messages they carry: irc/message.go, the replies   *)
(* of irc/numerics.go and the Privmsg of irc/util.go.                      *)
(*                                                                         *)
(* A line, a prefix and a parameter are sequences of atoms (MessageText),  *)
(* ":" and " " among them; a message is a record of its prefix, command    *)
(* and parameters.  The prefix of a user is his id, which stands for       *)
(* nick!ident@host; in what a client writes, "!" stands for !ident@host;   *)
(* and no prefix is <<>>.  Of a reply to a client only the code and the    *)
(* parameters are kept: Reply adds server and target.                      *)
(***************************************************************************)
EXTENDS Naturals, Sequences, SequencesExt

Message(prefix, cmd, params) == [prefix |-> prefix, cmd |-> cmd, params |-> params]

Starts(t, x) == t # <<>> /\ Head(t) = x

(***************************************************************************)
(* Message.String                                                          *)
(***************************************************************************)

\* Mutant of Trailing: a text that starts with a colon is not marked.
TrailingBlank(p) == Contains(p, " ")

\* The last parameter needs a colon.
Trailing(p) == Contains(p, " ") \/ Starts(p, ":")

\* A numeric reply has its code for its first parameter, and no command.
String(m) ==
  LET param(i) == <<" ">>
        \o (IF i = Len(m.params) /\ Trailing(m.params[i]) THEN <<":">> ELSE <<>>)
        \o m.params[i]
  IN (IF m.prefix = <<>> THEN <<>> ELSE <<":">> \o m.prefix)
       \o (IF m.cmd = "" THEN <<>>
           ELSE IF m.prefix = <<>> THEN <<m.cmd>> ELSE <<" ", m.cmd>>)
       \o FlattenSeq([i \in DOMAIN m.params |-> param(i)])

(***************************************************************************)
(* StringToMessage                                                         *)
(***************************************************************************)

\* strings.Split and strings.Join with a blank.
Split(line) ==
  FoldLeft(LAMBDA ws, a : IF a = " " THEN Append(ws, <<>>)
                          ELSE [ws EXCEPT ![Len(ws)] = Append(@, a)],
           << <<>> >>, line)

Join(ws) ==
  IF ws = <<>> THEN <<>>
  ELSE Head(ws) \o FlattenSeq([i \in 1 .. Len(ws) - 1 |-> <<" ">> \o ws[i + 1]])

\* The parameters: words, the last of which may start with a colon and have
\* blanks.
Params(ws) ==
  LET i == SelectInSeq(ws, LAMBDA w : Starts(w, ":"))
  IN IF i = 0 THEN ws
     ELSE Append(SubSeq(ws, 1, i - 1), Tail(Join(SubSeq(ws, i, Len(ws)))))

\* The commands, and how many parameters they need.
Needs == [USER |-> 4, NICK |-> 1, PRIVMSG |-> 1, JOIN |-> 1, PART |-> 1,
          MODE |-> 0, TOPIC |-> 1, WHO |-> 0, WHOIS |-> 1, PING |-> 0]

Numeric(code, params) == [code |-> code, params |-> params]

ErrUnknownCommand(cmd) == Numeric("421", <<cmd, <<"Unknown command">>>>)
ErrNeedMoreParams(cmd) == Numeric("461", <<cmd, <<"Not enough parameters">>>>)
ErrNoSuchNick(nick) == Numeric("401", <<nick, <<"No such nick/channel">>>>)
ErrNoSuchChannel(c) == Numeric("403", <<c, <<"No such channel">>>>)

\* The message of a line, or the error to answer; a prefix keeps its colon, and
\* a line that is a prefix is malformed.
StringToMessage(line) ==
  LET ws == Split(line)
      given == Starts(line, ":")
      cmd == IF given THEN ws[2] ELSE ws[1]
      params == Params(SubSeq(ws, IF given THEN 3 ELSE 2, Len(ws)))
  IN CASE given /\ Len(ws) < 2 -> [error |-> Numeric("malformed", <<>>)]
       [] OTHER ->
            IF \A c \in DOMAIN Needs : cmd # <<c>>
            THEN [error |-> ErrUnknownCommand(cmd)]
            ELSE IF Len(params) < Needs[cmd[1]]
            THEN [error |-> ErrNeedMoreParams(cmd)]
            ELSE Message(IF given THEN ws[1] ELSE <<>>, cmd[1], params)

Malformed(m) == "error" \in DOMAIN m

(***************************************************************************)
(* Replies                                                                 *)
(***************************************************************************)

\* clientConnection.reply and NumericReply.ToMessage.
Reply(n, nick) == Message(<<"server">>, "", << <<n.code>>, nick >> \o n.params)

MOTDAsNumerics(motd) ==
  LET lines == IF motd = <<>> THEN << <<"- tanya Message of the Day -">> >> ELSE motd
  IN [i \in DOMAIN lines |-> Numeric(IF i = 1 THEN "375" ELSE "372", <<lines[i]>>)]
       \o <<Numeric("376", << <<"End of /MOTD command.">> >>)>>

WholistAsNumerics(users, nick, c) ==
  [i \in DOMAIN users |->
     Numeric("352", <<c, <<users[i]>>, <<"localhost">>, <<"server">>,
                      nick[users[i]], <<"H">>, <<"0", " ", "name">>>>)]
    \o <<Numeric("315", <<c, <<"End", " ", "of /WHO list">>>>)>>

WhoisAsNumerics(u, nick) ==
  <<Numeric("311", <<nick[u], <<u>>, <<"localhost">>, <<"*">>, <<"name">>>>),
    Numeric("312", <<nick[u], <<"tanya">>, <<"Slack IRC Gateway">>>>),
    Numeric("318", <<nick[u], <<"End", " ", "of /WHOIS list">>>>)>>

\* t without the blanks and no-break spaces it starts and ends with.
TrimSpace(t) ==
  LET solid == {i \in 1 .. Len(t) : t[i] \notin {" ", "nbsp"}}
  IN IF solid = {} THEN <<>> ELSE SubSeq(t, Min(solid), Max(solid))

\* The length of nicks with a blank after each, and a reply that lists them.
Width(ns) == Len(FlattenSeq(ns)) + Len(ns)
Chunk(c, ns) == Numeric("353", << <<"=">>, c, TrimSpace(Join(ns)) >>)

\* Mutant of AddName: the names collected stay after they were sent.
AddNameKeeps(l, nick, c, limit) ==
  [replies |-> IF Width(l.names) > limit THEN Append(l.replies, Chunk(c, l.names))
               ELSE l.replies,
   names |-> Append(l.names, nick)]

\* One more nick: what was collected is sent first if it is over the limit.
AddName(l, nick, c, limit) ==
  IF Width(l.names) > limit
  THEN [replies |-> Append(l.replies, Chunk(c, l.names)), names |-> <<nick>>]
  ELSE [l EXCEPT !.names = Append(@, nick)]

NamelistAsNumerics(users, nick, c, limit) ==
  LET add(l, u) == AddName(l, nick[u], c, limit)
      list == FoldLeft(add, [replies |-> <<>>, names |-> <<>>], users)
  IN list.replies
       \o (IF list.names = <<>> THEN <<>> ELSE <<Chunk(c, list.names)>>)
       \o <<Numeric("366", <<c, <<"End", " ", "of /NAMES list">>>>)>>

(***************************************************************************)
(* Privmsg                                                                 *)
(***************************************************************************)

Privmsg(from, target, text) == Message(from, "PRIVMSG", <<target, text>>)

\* ParseUserString and back: a nick alone is no prefix.
UserString(prefix) == IF Contains(prefix, "!") THEN prefix ELSE <<>>

\* ParseMessage and ToMessage: a missing text is an empty one.
ParseMessage(m) ==
  Privmsg(UserString(m.prefix), m.params[1],
          IF Len(m.params) > 1 THEN m.params[2] ELSE <<>>)

IsFromSelf(m) == m.prefix = <<>>
=============================================================================
