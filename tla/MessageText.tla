----------------------------- MODULE MessageText -----------------------------
(***************************************************************************)
(* What happens to a text between IRC and Slack: UnparseMessageText and    *)
(* ParseMessageText (gateway/message_parser.go).                           *)
(*                                                                         *)
(* A text is a sequence of atoms: "<", ">", "&", "@", "#", "|", " ", "\n", *)
(* the letters a mention starts with, the characters only its rest may     *)
(* have, ids of users, "mailto:", the tails "lt;", "gt;" and "amp;" of the *)
(* entities, and other words.  A nick may have any of them but blanks,     *)
(* which slackUserFromDto makes no-break spaces, and line breaks, which    *)
(* Slack has not in names; users may share one, and a mention may be no    *)
(* more than the beginning of one.                                         *)
(***************************************************************************)
EXTENDS Naturals, Sequences, SequencesExt, FiniteSets

CONSTANTS
  Letters,   \* [A-Za-z]
  Joiners,   \* [0-9_-] and the no-break space, "nbsp"
  Users,     \* ids of the users Slack knows
  Nick       \* [Users -> texts], the names Slack has for them

\* What the code does on an index out of range.
Panic == <<"panic">>

\* The atoms texts are made of, and those that mean something to the code.
Atoms == STRING \ {Panic[1]}
Marks == {"<", ">", "&", "@", "#", "|", " ", "\n", ":", "!", "(", ")", "mailto:",
          "amp;", "lt;", "gt;"}

ASSUME AtomAssumption ==
  /\ Marks \cup {Panic[1]} \subseteq STRING
  /\ Letters \cup Joiners \cup Users \subseteq Atoms \ Marks

\* What a nick may be.
NickText == Seq(Atoms \ {" ", "\n"}) \ {<<>>}

ASSUME NickAssumption == Nick \in [Users -> NickText]

\* The first x in t from position i on, or the position after t.
Find(t, x, i) ==
  LET j == SelectInSubSeq(t, i, Len(t), LAMBDA a : a = x)
  IN IF j = 0 THEN Len(t) + 1 ELSE j

Before(t, x) == SubSeq(t, 1, Find(t, x, 1) - 1)
After(t, x) == SubSeq(t, Find(t, x, 1) + 1, Len(t))

\* All that f makes of the positions of t, in a row.
Spread(t, f(_)) == FlattenSeq([i \in DOMAIN t |-> f(i)])

(***************************************************************************)
(* slackURLEncoder and slackURLDecoder                                     *)
(***************************************************************************)

Entity == [amp |-> "amp;", lt |-> "lt;", gt |-> "gt;"]

\* Mutant of Escape: an ampersand stays.
EscapeBrackets(a) ==
  CASE a = "<" -> <<"&", Entity.lt>>
    [] a = ">" -> <<"&", Entity.gt>>
    [] OTHER -> <<a>>

Escape(a) ==
  CASE a = "&" -> <<"&", Entity.amp>>
    [] a = "<" -> <<"&", Entity.lt>>
    [] a = ">" -> <<"&", Entity.gt>>
    [] OTHER -> <<a>>

Encode(t) == Spread(t, LAMBDA i : Escape(t[i]))

\* In one pass: what comes out is not looked at again.
Decode(t) ==
  LET entity(i) == /\ i \in 1 .. Len(t) - 1 /\ t[i] = "&"
                   /\ t[i + 1] \in {Entity.amp, Entity.lt, Entity.gt}
      char(tail) == CASE tail = Entity.amp -> "&"
                      [] tail = Entity.lt -> "<"
                      [] tail = Entity.gt -> ">"
  IN Spread(t, LAMBDA i : IF entity(i) THEN <<char(t[i + 1])>>
                          ELSE IF entity(i - 1) THEN <<>> ELSE <<t[i]>>)

(***************************************************************************)
(* ParseMessageText                                                        *)
(***************************************************************************)

\* What is shown of the reference ref, given the users that can be resolved.
ParseRef(ref, known) ==
  CASE ref = <<>> -> Panic
    [] ref # <<>> /\ Head(ref) = "@" ->
         IF \E u \in known : Tail(ref) = <<u>> THEN <<"@">> \o Nick[ref[2]]
         ELSE ref
    [] ref # <<>> /\ Head(ref) = "#" ->
         IF Contains(ref, "|") THEN <<"#">> \o After(ref, "|") ELSE ref
    [] OTHER ->
         LET href == Before(ref, "|")
             text == After(ref, "|")
             mail == href # <<>> /\ Head(href) = "mailto:"
         IN IF ~Contains(ref, "|") THEN ref
            ELSE IF mail \/ text = href THEN text
            ELSE text \o <<" ", "(">> \o href \o <<")">>

\* The text in pieces: atoms, and references, which go from "<" to the next ">"
\* or to the end.
Pieces(t) ==
  LET close(i) == Find(t, ">", i)
      pieces[i \in 1 .. Len(t) + 2] ==
        IF i > Len(t) THEN <<>>
        ELSE IF t[i] # "<"
        THEN <<[ref |-> FALSE, text |-> <<t[i]>>]>> \o pieces[i + 1]
        ELSE <<[ref |-> TRUE, text |-> SubSeq(t, i + 1, close(i) - 1)]>>
               \o pieces[close(i) + 1]
  IN pieces[1]

ParseMessageText(t, known) ==
  LET p == Pieces(t)
  IN Decode(Spread(p, LAMBDA i : IF p[i].ref THEN ParseRef(p[i].text, known)
                                 ELSE p[i].text))

\* The users it resolves.
Resolved(t) ==
  {u \in Users : Contains(Pieces(t), [ref |-> TRUE, text |-> <<"@", u>>])}

(***************************************************************************)
(* UnparseMessageText                                                      *)
(***************************************************************************)

\* Mutant of EndOfMention: the joiners are not part of a mention.
EndOfMentionLetters(t, i) ==
  LET j == SelectInSubSeq(t, i + 1, Len(t), LAMBDA a : a \notin Letters)
  IN IF j = 0 THEN Len(t) ELSE j - 1

\* Where a mention that starts at i ends.
EndOfMention(t, i) ==
  LET j == SelectInSubSeq(t, i + 1, Len(t), LAMBDA a : a \notin Letters \cup Joiners)
  IN IF j = 0 THEN Len(t) ELSE j - 1

\* The matches of @[A-Za-z][A-Za-z0-9_-]*, each once.
Mentions(t) ==
  {SubSeq(t, i, EndOfMention(t, i)) :
     i \in {k \in 1 .. Len(t) - 1 : t[k] = "@" /\ t[k + 1] \in Letters}}

\* The record of the user nickToUserMap has for nick has another nick.  owner is
\* the part of the map whose users are in userInfo.
Stale(nick, owner) == nick \in DOMAIN owner /\ Nick[owner[nick]] # nick

\* ResolveNickToUser of what is mentioned, which panics on a stale entry.
Reference(m, owner) ==
  CASE Stale(Tail(m), owner) -> Panic
    [] Tail(m) \notin DOMAIN owner -> m
    [] OTHER -> <<"<", "@", owner[Tail(m)], ">">>

\* strings.Replacer: at every position the first mention of order that matches
\* there.  The order is that of a Go map, and a nick may begin another.
Replace(t, order, owner) ==
  LET at(i, m) == i + Len(m) - 1 <= Len(t) /\ SubSeq(t, i, i + Len(m) - 1) = m
      first(i) == SelectInSeq(order, LAMBDA m : at(i, m))
      replace[i \in 1 .. Len(t) + 1] ==
        IF i > Len(t) THEN <<>>
        ELSE IF first(i) = 0 THEN <<t[i]>> \o replace[i + 1]
        ELSE Reference(order[first(i)], owner) \o replace[i + Len(order[first(i)])]
  IN replace[1]

\* UnparseMessageText panics: it resolves all mentions before it replaces any.
MentionIsStale(t, owner) == \E m \in Mentions(Encode(t)) : Reference(m, owner) = Panic

\* All that Slack may be sent for t if not.
UnparseMessageText(t, owner) ==
  {Replace(Encode(t), order, owner) : order \in SetToSeqs(Mentions(Encode(t)))}
=============================================================================
