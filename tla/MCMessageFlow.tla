--------------------------- MODULE MCMessageFlow ---------------------------
(***************************************************************************)
(* An instance of MessageFlow for TLC.                                     *)
(***************************************************************************)
EXTENDS MessageFlow, TLC

\* The gateway's user, whose nick has a dot, which no mention has; two users of
\* whom one's nick begins the other's, which has a no-break space; and a stranger
\* with the nick of the first of them.
FourUsers == {"U1", "U2", "U3", "U4"}
Nicks == [U1 |-> <<"a", ".">>, U2 |-> <<"b">>, U3 |-> <<"b", "nbsp", "a">>,
          U4 |-> <<"b">>]

\* The map may be right, or have an entry for a nick its user has not.
Fresh == [n \in {Nicks[u] : u \in {"U1", "U2", "U3"}} |->
            CHOOSE u \in {"U1", "U2", "U3"} : Nicks[u] = n]
WithStale == Fresh @@ (<<"b", "b">> :> "U3")
MapsOfNicks == {Fresh, WithStale}

\* "#d" was the name of "#c", and "#e" is new.
MapsOfNames == {("#c" :> "#c") @@ ("#d" :> "#c")}

\* The topic of the last cannot be shown.
ThreeChannels == {"#c", "#d", "#e"}
ListedChannels == {"#c", "#e"}
MemberLists == ("#c" :> <<"U1", "U2", "U3", "U4">>) @@ ("#d" :> <<>>) @@ ("#e" :> <<>>)
Topics == ("#c" :> <<"x", "\n", "<", "@", "U4", ">">>) @@ ("#d" :> <<>>)
            @@ ("#e" :> <<"x", "<", ">">>)
Setters == ("#c" :> "U2") @@ ("#d" :> None) @@ ("#e" :> None)
MotdLines == << <<"hi">> >>

Sayable == {"@", "b", "<", "&", "lt;"}
Said(most) ==
  UNION {[1 .. n -> Sayable] : n \in 1 .. most}
  \cup {<<"@", "b", "nbsp", "a">>, <<"@", "b", "@", "b", "nbsp", "a">>,
        <<"@", "b", " ", "@", "b", "b">>, <<"x", " ", "y">>, <<":">>, <<":", "b">>}
To(targets, texts) ==
  {<<"PRIVMSG", " ", t, " ", ":">> \o x : t \in targets, x \in texts}
Lines ==
  To({"#c"}, Said(3)) \cup To({"b"}, Said(2))
    \cup To({"#d", "#e", "#", "z"}, {<<>>, <<"x">>, <<"@", "b">>})
    \cup {<<>>, <<":">>, <<"NICK">>, <<"USER", " ", "x">>, <<"x">>,
          <<":", "z", " ", "PRIVMSG", " ", "#c", " ", "x">>,
          <<"PRIVMSG", " ", "#c", " ", "x", " ", "@", "b">>,
          <<":", "z", "!", " ", "PRIVMSG", " ", "b", " ", "@", "b">>,
          <<"PING">>, <<"PING", " ", "x">>, <<"PING", " ", ":", ":", "x">>,
          <<"MODE">>, <<"MODE", " ">>, <<"MODE", " ", "#c">>, <<"MODE", " ", "b">>,
          <<"TOPIC", " ", "#c">>, <<"TOPIC", " ", "#d">>, <<"TOPIC", " ", "#e">>,
          <<"TOPIC", " ", "#c", " ", "x">>,
          <<"WHO">>, <<"WHO", " ", "#c">>, <<"WHO", " ", "#d">>,
          <<"MODE", " ", "#d">>, <<"WHOIS", " ", "b", "b">>,
          <<"PRIVMSG", " ", "b", "b", " ", "x">>, <<"PRIVMSG", " ", "b", "b">>,
          <<"PRIVMSG", " ", "a", ".", " ", "@", "a", ".">>,
          <<"WHOIS", " ", "b">>, <<"WHOIS", " ", "z">>,
          <<"JOIN", " ", "#c">>, <<"JOIN", " ", "#d">>, <<"JOIN", " ", "#e">>}

Event(user, conv, sub, text, fallbacks, files, link) ==
  [user |-> user, conv |-> conv, sub |-> sub, text |-> text,
   fallbacks |-> fallbacks, files |-> files, link |-> link]

\* Beginnings of references, and texts of one and more lines.
Markup == {"<", "@", "U4", "|", "&", "gt;", "#"}
Raw == (Markup \X Markup) \cup ({"<"} \X {"@", "#", "|"} \X {"U4", "|"} \X {">", "<"})
Received == {<<>>, <<"x", "\n", "\n", "y">>, <<"<", "@", "U4", ">">>,
             <<"<", "x", "|", "y", ">">>, <<"<", "mailto:", "x", "|", "y", ">", "<">>}
Attached == {<<>>, <<<<"z">>>>, <<<<"<", "@", "U4", ">">>, <<"z">>>>}
Events ==
  {Event("U2", "#c", "", t, <<>>, <<>>, None) : t \in Raw}
  \cup {Event(u, c, "", t, fs, <<"shared">>, None) :
          u \in {"U1", "U2", "U4"}, c \in {"#c", "#d", "U2", "U4"},
          t \in Received, fs \in Attached}
  \cup {Event("USLACKBOT", "U2", "", <<"x">>, <<>>, <<>>, None)}
  \cup {Event(None, c, "message_changed", <<>>, <<t>>, <<>>, l) :
          c \in {"#d", "U2", "U4"}, t \in Received \ {<<>>}, l \in {None, "U4"}}
  \cup {Event(u, "#c", k, <<"x", "\n", "y">>, <<>>, <<>>, None) :
          u \in {"U2", "U4"}, k \in {"channel_topic", "message_replied"}}
  \cup {Event(None, c, "bot_message", t, fs, <<>>, None) :
          c \in {"#c", "U2"}, t \in Received, fs \in Attached}
=============================================================================
