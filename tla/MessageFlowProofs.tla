-------------------------- MODULE MessageFlowProofs --------------------------
(***************************************************************************)
(* Proofs about MessageFlow, for texts of every length: what the           *)
(* conversions of texts, lines and replies do, and the invariants of       *)
(* MessageFlow that rest on them.                                          *)
(***************************************************************************)
EXTENDS MessageFlow, SequenceTheorems, FiniteSetTheorems, TLAPS

(***************************************************************************)
(* What is folded, and what is recursive                                   *)
(***************************************************************************)

\* The step of Split and MessageTextToEvents: sep ends a word.
AddAtom(sep, ws, a) ==
  IF a = sep THEN Append(ws, <<>>) ELSE [ws EXCEPT ![Len(ws)] = Append(@, a)]

\* The folds and recursive functions of the model.
Words == INSTANCE Folding WITH Op <- AddAtom

\* The step of Pieces.
PieceAt(t, pieces, i) ==
  IF i > Len(t) THEN <<>>
  ELSE IF t[i] # "<"
  THEN <<[ref |-> FALSE, text |-> <<t[i]>>]>> \o pieces[i + 1]
  ELSE <<[ref |-> TRUE, text |-> SubSeq(t, i + 1, Find(t, ">", i) - 1)]>>
         \o pieces[Find(t, ">", i) + 1]

PieceRows == INSTANCE Folding WITH Op <- PieceAt

\* The step of Replace, for c its arguments.
ReplaceOne(c, replace, i) ==
  LET at(k, m) == k + Len(m) - 1 <= Len(c.text) /\ SubSeq(c.text, k, k + Len(m) - 1) = m
      first(k) == SelectInSeq(c.order, LAMBDA m : at(k, m))
  IN IF i > Len(c.text) THEN <<>>
     ELSE IF first(i) = 0 THEN <<c.text[i]>> \o replace[i + 1]
     ELSE Reference(c.order[first(i)], c.owner) \o replace[i + Len(c.order[first(i)])]

ReplaceRows == INSTANCE Folding WITH Op <- ReplaceOne

\* The step of NamelistAsNumerics, for a its arguments.
AddMember(a, l, u) == AddName(l, a.nick[u], a.chan, a.limit)

Names == INSTANCE Folding WITH Op <- AddMember

\* The step of FullText.
Attach(known, t, f) ==
  IF t = <<>> THEN ParseMessageText(f, known)
  ELSE t \o <<"\n">> \o ParseMessageText(f, known)

Attachments == INSTANCE Folding WITH Op <- Attach

(***************************************************************************)
(* Numbers                                                                 *)
(***************************************************************************)

\* From the end to the start: a set with every number of 1 .. n after which it
\* has all the others.
LEMMA DownInduct ==
  ASSUME NEW n \in Nat, NEW T,
         \A i \in 1 .. n : (\A j \in i + 1 .. n : j \in T) => i \in T
  PROVE  1 .. n \subseteq T
<1> DEFINE N == {m \in Nat : \A i \in 1 .. n : n - i < m => i \in T}
<1>1. 0 \in N
  OBVIOUS
<1>2. ASSUME NEW m \in Nat, m \in N
      PROVE  m + 1 \in N
  <2>1. ASSUME NEW i \in 1 .. n, n - i < m + 1
        PROVE  i \in T
    <3>1. \A j \in i + 1 .. n : j \in T
      BY <1>2, <2>1
    <3> QED
      BY <3>1
  <2> QED
    BY <2>1
<1>3. Nat \subseteq N
  <2> HIDE DEF N
  <2> QED
    BY <1>1, <1>2, Words!NatInduct
<1>4. n \in N
  BY <1>3
<1>5. \A i \in 1 .. n : n - i < n
  OBVIOUS
<1> QED
  BY <1>4, <1>5

(***************************************************************************)
(* Sequences                                                               *)
(***************************************************************************)

\* A set with the empty sequence, and with every sequence one longer than each
\* of its own, has all sequences.
LEMMA AppendInduct ==
  ASSUME NEW S, NEW T, <<>> \in T,
         \A s \in Seq(S), x \in S : s \in T => Append(s, x) \in T
  PROVE  Seq(S) \subseteq T
<1> DEFINE N == {n \in Nat : \A s \in Seq(S) : Len(s) = n => s \in T}
<1>1. 0 \in N
  BY EmptySeq
<1>2. ASSUME NEW n \in Nat, n \in N
      PROVE  n + 1 \in N
  <2>1. ASSUME NEW s \in Seq(S), Len(s) = n + 1
        PROVE  s \in T
    <3>1. s # <<>>
      BY <2>1
    <3>2. PICK r \in Seq(S), x \in S : s = Append(r, x)
      BY <3>1, SequenceEmptyOrAppend
    <3>3. Len(r) = n
      BY <2>1, <3>2, LenProperties, AppendProperties
    <3> QED
      BY <1>2, <3>2, <3>3
  <2> QED
    BY <2>1
<1>3. Nat \subseteq N
  <2> HIDE DEF N
  <2> QED
    BY <1>1, <1>2, Words!NatInduct
<1> QED
  BY <1>3, LenProperties

\* Pieces, with its recursive function named.
LEMMA PiecesIsRow ==
  ASSUME NEW t
  PROVE  Pieces(t) = PieceRows!Recursion(t, Len(t) + 2)[1]
  BY DEF Pieces, PieceRows!Recursion, PieceAt

(***************************************************************************)
(* FlattenSeq                                                              *)
(***************************************************************************)

\* The sequences of s up to each, put together: FlattenSeq's recursive function.
Rows(s, n) ==
  CHOOSE g : g = [i \in 1 .. n |-> IF i = 1 THEN s[i] ELSE g[i - 1] \o s[i]]

\* The rows of s satisfy their recursive definition.
LEMMA RowsDef ==
  ASSUME NEW s, NEW n \in Nat
  PROVE  \A i \in 1 .. n : Rows(s, n)[i] = IF i = 1 THEN s[i]
                                         ELSE Rows(s, n)[i - 1] \o s[i]
<1> DEFINE Row(g, i) == IF i = 1 THEN s[i] ELSE g[i - 1] \o s[i]
           N == {m \in Nat : \E g : g = [i \in 1 .. m |-> Row(g, i)]}
<1>1. 0 \in N
  <2>1. <<>> = [i \in 1 .. 0 |-> Row(<<>>, i)]
    OBVIOUS
  <2> QED
    BY <2>1
<1>2. ASSUME NEW m \in Nat, m \in N
      PROVE  m + 1 \in N
  <2>1. PICK g : g = [i \in 1 .. m |-> Row(g, i)]
    BY <1>2
  <2> DEFINE h == [i \in 1 .. m + 1 |-> IF i = m + 1 THEN Row(g, i) ELSE g[i]]
  <2>2. ASSUME NEW i \in 1 .. m + 1
        PROVE  h[i] = Row(h, i)
    <3>1. Row(h, i) = Row(g, i)
      BY i # 1 => i - 1 \in 1 .. m
    <3>2. CASE i = m + 1
      BY <3>1, <3>2
    <3>3. CASE i # m + 1
      <4>1. i \in 1 .. m
        BY <3>3
      <4>2. g[i] = Row(g, i)
        BY <2>1, <4>1, Zenon
      <4> QED
        BY <3>1, <3>3, <4>2
    <3> QED
      BY <3>2, <3>3
  <2>3. h = [i \in 1 .. m + 1 |-> Row(h, i)]
    <3> HIDE DEF Row
    <3> QED
      BY <2>2
  <2>4. \E f : f = [i \in 1 .. m + 1 |-> Row(f, i)]
    <3> HIDE DEF h, Row
    <3> QED
      BY <2>3
  <2>5. m + 1 \in Nat
    OBVIOUS
  <2> QED
    BY <2>4, <2>5, Zenon
<1>3. Nat \subseteq N
  <2> HIDE DEF N
  <2> QED
    BY <1>1, <1>2, Words!NatInduct
<1>4. PICK g : g = Rows(s, n) /\ g = [i \in 1 .. n |-> Row(g, i)]
  <2>1. \E g : g = [i \in 1 .. n |-> Row(g, i)]
    BY <1>3
  <2>2. Rows(s, n) = [i \in 1 .. n |-> Row(Rows(s, n), i)]
    BY <2>1, Zenon DEF Rows
  <2> QED
    BY <2>2
<1>5. ASSUME NEW i \in 1 .. n
      PROVE  g[i] = Row(g, i)
  BY <1>4, Zenon
<1> QED
  BY <1>4, <1>5

\* s and t are the same up to n.
Agree(s, t, n) == \A i \in 1 .. n : s[i] = t[i]

\* A row depends on the sequences up to it only.
LEMMA RowsAgree ==
  ASSUME NEW s, NEW t, NEW n \in Nat, NEW m \in Nat, n <= m, Agree(s, t, n)
  PROVE  Agree(Rows(s, n), Rows(t, m), n)
<1> DEFINE N == {k \in Nat : k \in 1 .. n => Rows(s, n)[k] = Rows(t, m)[k]}
<1>1. 0 \in N
  OBVIOUS
<1>2. ASSUME NEW k \in Nat, k \in N
      PROVE  k + 1 \in N
  <2>1. SUFFICES ASSUME k + 1 \in 1 .. n
                 PROVE  Rows(s, n)[k + 1] = Rows(t, m)[k + 1]
    OBVIOUS
  <2>2. Rows(s, n)[k + 1] = IF k + 1 = 1 THEN s[k + 1]
                            ELSE Rows(s, n)[k] \o s[k + 1]
    <3>1. Rows(s, n)[k + 1] = IF k + 1 = 1 THEN s[k + 1]
                              ELSE Rows(s, n)[k + 1 - 1] \o s[k + 1]
      BY <2>1, RowsDef
    <3> QED
      BY <3>1
  <2>3. Rows(t, m)[k + 1] = IF k + 1 = 1 THEN t[k + 1]
                            ELSE Rows(t, m)[k] \o t[k + 1]
    <3>1. k + 1 \in 1 .. m
      BY <2>1
    <3>2. Rows(t, m)[k + 1] = IF k + 1 = 1 THEN t[k + 1]
                              ELSE Rows(t, m)[k + 1 - 1] \o t[k + 1]
      BY <3>1, RowsDef
    <3> QED
      BY <3>2
  <2> QED
    BY <1>2, <2>1, <2>2, <2>3 DEF Agree
<1>3. Nat \subseteq N
  <2> HIDE DEF N
  <2> QED
    BY <1>1, <1>2, Words!NatInduct
<1> QED
  BY <1>3 DEF Agree

\* What FlattenSeq makes of a sequence is its last row.
LEMMA FlattenIsRow ==
  ASSUME NEW S, NEW s \in Seq(S), s # <<>>
  PROVE  FlattenSeq(s) = Rows(s, Len(s))[Len(s)]
<1> Len(s) # 0
  BY EmptySeq
<1> QED
  BY DEF FlattenSeq, Rows

\* Nothing, flattened, is nothing.
LEMMA FlattenEmpty == FlattenSeq(<<>>) = <<>>
  BY DEF FlattenSeq

\* One sequence, flattened, is that sequence.
LEMMA FlattenOne ==
  ASSUME NEW S, NEW x \in Seq(S)
  PROVE  FlattenSeq(<<x>>) = x
<1>1. <<x>> \in Seq(Seq(S)) /\ <<x>> # <<>> /\ Len(<<x>>) = 1
  OBVIOUS
<1>2. FlattenSeq(<<x>>) = Rows(<<x>>, 1)[1]
  BY <1>1, FlattenIsRow
<1>3. Rows(<<x>>, 1)[1] = <<x>>[1]
  BY RowsDef
<1> QED
  BY <1>2, <1>3

\* One more sequence at the end.
LEMMA FlattenAppend ==
  ASSUME NEW S, NEW s \in Seq(Seq(S)), NEW x \in Seq(S)
  PROVE  FlattenSeq(Append(s, x)) = FlattenSeq(s) \o x
<1>1. PICK a \in Seq(Seq(S)) : a = Append(s, x)
  BY AppendProperties
<1>2. PICK n \in Nat, m \in Nat : n = Len(s) /\ m = n + 1
  BY LenProperties
<1>3. a # <<>> /\ Len(a) = m /\ a[m] = x /\ \A i \in 1 .. n : s[i] = a[i]
  BY <1>1, <1>2, AppendProperties
<1>4. FlattenSeq(a) = Rows(a, m)[m]
  BY <1>3, FlattenIsRow
<1>5. Rows(a, m)[m] = IF m = 1 THEN a[m] ELSE Rows(a, m)[m - 1] \o a[m]
  <2>1. m \in 1 .. m
    BY <1>2
  <2> QED
    BY <2>1, RowsDef
<1>6. CASE s = <<>>
  <2>1. FlattenSeq(a) = x
    BY <1>2, <1>3, <1>4, <1>5, <1>6, EmptySeq
  <2>2. FlattenSeq(s) \o x = x
    BY <1>6, FlattenEmpty, ConcatEmptySeq
  <2> QED
    BY <1>1, <2>1, <2>2
<1>7. CASE s # <<>>
  <2>1. n # 0
    BY <1>2, <1>7, EmptySeq
  <2>2. FlattenSeq(s) = Rows(s, n)[n]
    BY <1>2, <1>7, FlattenIsRow
  <2>3. Rows(s, n)[n] = Rows(a, m)[n]
    <3>1. n <= m /\ Agree(s, a, n)
      BY <1>2, <1>3 DEF Agree
    <3>2. Agree(Rows(s, n), Rows(a, m), n)
      BY <3>1, RowsAgree
    <3> QED
      BY <2>1, <3>2 DEF Agree
  <2>4. m # 1 /\ m - 1 = n
    BY <1>2, <2>1
  <2>5. FlattenSeq(a) = Rows(a, m)[n] \o x
    BY <1>3, <1>4, <1>5, <2>4
  <2> QED
    BY <1>1, <2>2, <2>3, <2>5
<1> QED
  BY <1>6, <1>7

\* What is flattened has the elements its sequences have.
LEMMA FlattenType ==
  ASSUME NEW S
  PROVE  \A s \in Seq(Seq(S)) : FlattenSeq(s) \in Seq(S)
<1> DEFINE T == {s \in Seq(Seq(S)) : FlattenSeq(s) \in Seq(S)}
<1>1. <<>> \in T
  BY FlattenEmpty, EmptySeq
<1>2. ASSUME NEW s \in Seq(Seq(S)), NEW x \in Seq(S), s \in T
      PROVE  Append(s, x) \in T
  <2>1. FlattenSeq(s) \o x \in Seq(S)
    BY <1>2, ConcatProperties
  <2> QED
    BY <2>1, FlattenAppend, AppendProperties
<1>3. Seq(Seq(S)) \subseteq T
  <2> HIDE DEF T
  <2> QED
    BY <1>1, <1>2, AppendInduct
<1> QED
  BY <1>3

\* FlattenSeq of two sequences in a row is that of one and that of the other.
LEMMA FlattenConcat ==
  ASSUME NEW S, NEW s \in Seq(Seq(S))
  PROVE  \A t \in Seq(Seq(S)) :
           FlattenSeq(s \o t) = FlattenSeq(s) \o FlattenSeq(t)
<1> DEFINE T == {t \in Seq(Seq(S)) :
                   FlattenSeq(s \o t) = FlattenSeq(s) \o FlattenSeq(t)}
<1>1. <<>> \in T
  <2>1. FlattenSeq(s) \in Seq(S) /\ s \o <<>> = s
    BY FlattenType, ConcatEmptySeq
  <2>2. FlattenSeq(s) \o <<>> = FlattenSeq(s)
    BY <2>1, ConcatEmptySeq
  <2> QED
    BY <2>1, <2>2, FlattenEmpty, EmptySeq
<1>2. ASSUME NEW t \in Seq(Seq(S)), NEW x \in Seq(S), t \in T
      PROVE  Append(t, x) \in T
  <2>1. s \o Append(t, x) = Append(s \o t, x) /\ s \o t \in Seq(Seq(S))
    <3>1. Append(t, x) = t \o <<x>> /\ <<x>> \in Seq(Seq(S))
      BY AppendIsConcat
    <3>2. s \o t \in Seq(Seq(S)) /\ Append(s \o t, x) = (s \o t) \o <<x>>
      BY AppendIsConcat, ConcatProperties
    <3> QED
      BY <3>1, <3>2, ConcatAssociative
  <2>2. FlattenSeq(Append(s \o t, x)) = (FlattenSeq(s) \o FlattenSeq(t)) \o x
    BY <1>2, <2>1, FlattenAppend, ZenonT(60)
  <2>3. (FlattenSeq(s) \o FlattenSeq(t)) \o x = FlattenSeq(s) \o (FlattenSeq(t) \o x)
    BY FlattenType, ConcatAssociative, SMTT(40)
  <2>4. FlattenSeq(t) \o x = FlattenSeq(Append(t, x))
    BY FlattenAppend
  <2> QED
    BY <2>1, <2>2, <2>3, <2>4, AppendProperties
<1>3. Seq(Seq(S)) \subseteq T
  <2> HIDE DEF T
  <2> QED
    BY <1>1, <1>2, AppendInduct
<1> QED
  BY <1>3

\* One more sequence at the front.
LEMMA FlattenCons ==
  ASSUME NEW S, NEW x \in Seq(S), NEW s \in Seq(Seq(S))
  PROVE  FlattenSeq(<<x>> \o s) = x \o FlattenSeq(s)
<1>1. <<x>> \in Seq(Seq(S))
  OBVIOUS
<1>2. FlattenSeq(<<x>> \o s) = FlattenSeq(<<x>>) \o FlattenSeq(s)
  BY <1>1, FlattenConcat
<1>3. FlattenSeq(<<x>>) = x
  BY FlattenOne
<1> QED
  BY <1>2, <1>3

\* Split is a fold, as the lemmas of Folding have it.
LEMMA SplitIsFold ==
  ASSUME NEW l
  PROVE  Split(l) = Words!Fold(" ", << <<>> >>, l)
  BY DEF Split, AddAtom, FoldLeft, MapThenFoldSet, Max,
         Words!Fold, Words!Steps, Words!Step, Words!Top

\* The minimum of a set of numbers is one of them and at most each of them.
LEMMA MinOfNats ==
  ASSUME NEW T \in SUBSET Nat, T # {}
  PROVE  Min(T) \in T /\ \A y \in T : Min(T) <= y
  BY Words!LeastNat DEF Min

\* The maximum of a set of numbers up to n is one of them and at least each of them.
LEMMA MaxOfNats ==
  ASSUME NEW n \in Nat, NEW T \in SUBSET (1 .. n), T # {}
  PROVE  Max(T) \in T /\ \A y \in T : Max(T) >= y
<1> DEFINE Below == {n - k : k \in T}
<1>1. Below \in SUBSET Nat /\ Below # {}
  <2>1. PICK y \in T : n - y \in Below
    OBVIOUS
  <2>2. \A k \in 1 .. n : n - k \in Nat
    OBVIOUS
  <2> QED
    BY <2>1, <2>2
<1>2. PICK m \in Below : \A y \in Below : m <= y
  BY <1>1, MinOfNats
<1>3. PICK x \in T : m = n - x
  OBVIOUS
<1>4. ASSUME NEW y \in T
      PROVE  x >= y
  <2>1. n - x <= n - y
    BY <1>2, <1>3
  <2> QED
    BY <2>1
<1> QED
  BY <1>4 DEF Max

(***************************************************************************)
(* MessageText: where things are                                           *)
(***************************************************************************)

\* Find finds the first, or the position after the text.
LEMMA FindFirst ==
  ASSUME NEW S, NEW t \in Seq(S), NEW x, NEW i \in 1 .. Len(t) + 1
  PROVE  /\ Find(t, x, i) \in i .. Len(t) + 1
         /\ Find(t, x, i) <= Len(t) => t[Find(t, x, i)] = x
         /\ \A k \in i .. Find(t, x, i) - 1 : t[k] # x
<1>1. PICK n \in Nat : n = Len(t)
  BY LenProperties
<1> DEFINE I == {k \in i .. n : t[k] = x}
<1>2. I \in SUBSET Nat /\ \A k \in I : k # 0
  BY <1>1
<1>3. Find(t, x, i) = IF I = {} THEN n + 1 ELSE Min(I)
  <2>1. SelectInSubSeq(t, i, n, LAMBDA a : a = x) = IF I # {} THEN Min(I) ELSE 0
    BY DEF SelectInSubSeq
  <2>2. I # {} => Min(I) # 0
    BY <1>2, MinOfNats
  <2> QED
    BY <1>1, <2>1, <2>2 DEF Find
<1>4. CASE I = {}
  BY <1>1, <1>3, <1>4
<1>5. CASE I # {}
  <2>1. PICK m \in I : m = Min(I) /\ \A k \in I : m <= k
    BY <1>2, <1>5, MinOfNats
  <2>2. Find(t, x, i) = m
    BY <1>3, <1>5, <2>1
  <2>3. m \in i .. n /\ t[m] = x
    BY <2>1
  <2>4. \A k \in i .. m - 1 : t[k] # x
    BY <1>1, <2>1, <2>3
  <2> QED
    BY <1>1, <2>2, <2>3, <2>4
<1> QED
  BY <1>4, <1>5

\* What is before and after an atom of a text is a text.
LEMMA FindInText ==
  ASSUME NEW S, NEW t \in Seq(S), NEW x
  PROVE  /\ Before(t, x) \in Seq(S)
         /\ After(t, x) \in Seq(S)
<1>1. PICK n \in Nat : n = Len(t)
  BY LenProperties
<1>2. PICK m \in 1 .. n + 1 : m = Find(t, x, 1)
  BY <1>1, FindFirst
<1>3. \A i \in 1 .. n : t[i] \in S
  BY <1>1, ElementOfSeq
<1>4. SubSeq(t, 1, m - 1) \in Seq(S)
  BY <1>3, SubSeqProperties
<1>5. SubSeq(t, m + 1, n) \in Seq(S)
  BY <1>3, SubSeqProperties
<1> QED
  BY <1>1, <1>2, <1>4, <1>5 DEF Before, After

(***************************************************************************)
(* MessageText: what texts are made of                                     *)
(***************************************************************************)

\* A set of atoms the conversions do not leave: neither lines nor a panic are
\* made of others.
Alphabet(S) == STRING \ {"\n", Panic[1]} \subseteq S

\* An alphabet has the atoms that mean something, nicks and ids, and the words of
\* the code.
LEMMA AlphabetHas ==
  ASSUME NEW S, Alphabet(S)
  PROVE  /\ Marks \ {"\n"} \subseteq S
         /\ Letters \cup Joiners \cup Users \cup Channels \subseteq S
         /\ Wording \subseteq S
         /\ "<" \in S /\ ">" \in S /\ "&" \in S /\ "@" \in S /\ "#" \in S
         /\ " " \in S /\ ":" \in S /\ "(" \in S /\ ")" \in S
         /\ "amp;" \in S /\ "lt;" \in S /\ "gt;" \in S
<1>1. Panic[1] = "panic"
  BY DEF Panic
<1>2. Marks \ {"\n"} \subseteq S
  <2>1. "panic" \notin Marks
    BY DEF Marks
  <2> QED
    BY <1>1, <2>1, AtomAssumption DEF Alphabet
<1>3. Letters \cup Joiners \cup Users \cup Channels \subseteq S
  <2>1. "\n" \in Marks
    BY DEF Marks
  <2> QED
    BY <2>1, AtomAssumption, WorldAssumption DEF Alphabet, Atoms
<1>4. Wording \subseteq S
  <2>1. "panic" \notin Wording /\ "\n" \notin Wording
    BY DEF Wording, Needs
  <2> QED
    BY <1>1, <2>1, WorldAssumption DEF Alphabet
<1> QED
  BY <1>2, <1>3, <1>4 DEF Marks

\* An atom is a text.
LEMMA OneAtom ==
  ASSUME NEW S, NEW a \in S
  PROVE  <<a>> \in Seq(S) /\ Len(<<a>>) = 1
  OBVIOUS

\* Two atoms are a text.
LEMMA TwoAtoms ==
  ASSUME NEW S, NEW a \in S, NEW b \in S
  PROVE  <<a, b>> \in Seq(S) /\ Len(<<a, b>>) = 2
  OBVIOUS

\* Nicks are texts, and not empty.
LEMMA NickType ==
  ASSUME NEW S, Alphabet(S), NEW u \in Users
  PROVE  Nick[u] \in Seq(S) /\ Nick[u] # <<>>
<1>1. Nick[u] \in Seq(Atoms \ {" ", "\n"}) /\ Nick[u] # <<>>
  BY NickAssumption DEF NickText
<1>2. Atoms \ {" ", "\n"} \subseteq S
  BY DEF Alphabet, Atoms
<1> QED
  BY <1>1, <1>2, SeqMonotonic

\* What is encoded of a text is a text.
LEMMA EncodeType ==
  ASSUME NEW S, Alphabet(S), NEW t \in Seq(S)
  PROVE  Encode(t) \in Seq(S)
<1> DEFINE g == [i \in DOMAIN t |-> Escape(t[i])]
<1>1. DOMAIN t = 1 .. Len(t) /\ Len(t) \in Nat /\ \A i \in 1 .. Len(t) : t[i] \in S
  BY LenProperties, ElementOfSeq
<1>2. \A a \in S : Escape(a) \in Seq(S)
  <2> SUFFICES ASSUME NEW a \in S
               PROVE  Escape(a) \in Seq(S)
    OBVIOUS
  <2>1. /\ <<a>> \in Seq(S) /\ <<"&", "amp;">> \in Seq(S)
        /\ <<"&", "lt;">> \in Seq(S) /\ <<"&", "gt;">> \in Seq(S)
    BY AlphabetHas, OneAtom, TwoAtoms
  <2> QED
    BY <2>1 DEF Escape, Entity
<1>3. g \in Seq(Seq(S))
  BY <1>1, <1>2
<1> QED
  BY <1>3, FlattenType DEF Encode, Spread

\* What is decoded of a text is a text.
LEMMA DecodeType ==
  ASSUME NEW S, Alphabet(S), NEW t \in Seq(S)
  PROVE  Decode(t) \in Seq(S)
<1> DEFINE entity(i) == /\ i \in 1 .. Len(t) - 1 /\ t[i] = "&"
                        /\ t[i + 1] \in {Entity.amp, Entity.lt, Entity.gt}
           char(tail) == CASE tail = Entity.amp -> "&"
                           [] tail = Entity.lt -> "<"
                           [] tail = Entity.gt -> ">"
           g == [i \in DOMAIN t |-> IF entity(i) THEN <<char(t[i + 1])>>
                                    ELSE IF entity(i - 1) THEN <<>> ELSE <<t[i]>>]
<1>1. DOMAIN t = 1 .. Len(t) /\ Len(t) \in Nat /\ \A i \in 1 .. Len(t) : t[i] \in S
  BY LenProperties, ElementOfSeq
<1>2. \A i : entity(i) => char(t[i + 1]) \in S
  BY AlphabetHas DEF Entity
<1>3. g \in Seq(Seq(S))
  <2> HIDE DEF entity, char
  <2> QED
    BY <1>1, <1>2
<1>4. Decode(t) = FlattenSeq(g)
  BY DEF Decode, Spread
<1> QED
  BY <1>3, <1>4, FlattenType

\* What is shown of a reference to something is a text.
LEMMA ParseRefType ==
  ASSUME NEW S, Alphabet(S), NEW ref \in Seq(S), ref # <<>>, NEW known \in SUBSET Users
  PROVE  ParseRef(ref, known) \in Seq(S)
<1>1. Before(ref, "|") \in Seq(S) /\ After(ref, "|") \in Seq(S)
  BY FindInText
<1>2. <<"@">> \in Seq(S) /\ <<"#">> \in Seq(S)
  BY AlphabetHas, OneAtom
<1>3. CASE Head(ref) = "@"
  <2>1. ASSUME NEW u \in known, Tail(ref) = <<u>>
        PROVE  ref[2] = u
    <3>1. PICK r \in Seq(S) : r = Tail(ref) /\ Len(r) = Len(ref) - 1
                               /\ \A i \in 1 .. Len(r) : r[i] = ref[i + 1]
      BY HeadTailProperties
    <3>2. r = <<u>>
      BY <2>1, <3>1
    <3>3. Len(r) = 1 /\ r[1] = u
      BY <3>2
    <3>4. r[1] = ref[1 + 1]
      BY <3>1, <3>3
    <3> QED
      BY <3>3, <3>4
  <2>2. ASSUME NEW u \in known, Tail(ref) = <<u>>
        PROVE  <<"@">> \o Nick[ref[2]] \in Seq(S)
    <3>1. Nick[u] \in Seq(S) /\ <<"@">> \in Seq(S)
      BY <1>2, NickType
    <3> QED
      BY <2>1, <2>2, <3>1, ConcatProperties
  <2>3. ParseRef(ref, known) = IF \E u \in known : Tail(ref) = <<u>>
                               THEN <<"@">> \o Nick[ref[2]] ELSE ref
    BY <1>3 DEF ParseRef
  <2> QED
    BY <2>2, <2>3
<1>4. CASE Head(ref) = "#"
  <2>1. ParseRef(ref, known) = IF Contains(ref, "|") THEN <<"#">> \o After(ref, "|")
                               ELSE ref
    BY <1>4 DEF ParseRef
  <2>2. <<"#">> \o After(ref, "|") \in Seq(S)
    BY <1>1, <1>2, ConcatProperties
  <2> QED
    BY <2>1, <2>2
<1>5. CASE Head(ref) # "@" /\ Head(ref) # "#"
  <2> DEFINE href == Before(ref, "|")
             text == After(ref, "|")
  <2>1. ParseRef(ref, known) \in {ref, text, text \o <<" ", "(">> \o href \o <<")">>}
    BY <1>5 DEF ParseRef
  <2>2. <<" ", "(">> \in Seq(S) /\ <<")">> \in Seq(S)
    BY AlphabetHas, OneAtom, TwoAtoms
  <2>3. text \o <<" ", "(">> \o href \o <<")">> \in Seq(S)
    BY <1>1, <2>2, ConcatProperties
  <2> QED
    BY <1>1, <2>1, <2>3
<1> QED
  BY <1>3, <1>4, <1>5

(***************************************************************************)
(* MessageText: the pieces of a text                                       *)
(***************************************************************************)

Piece(r, t) == [ref |-> r, text |-> t]

\* The pieces of t from position i on.
PiecesFrom(t, i) == PieceRows!Recursion(t, Len(t) + 2)[i]

\* The pieces from i on: an atom or a reference, and the pieces after it.
LEMMA PiecesStep ==
  ASSUME NEW S, NEW t \in Seq(S), NEW i \in 1 .. Len(t) + 2
  PROVE  /\ i > Len(t) => PiecesFrom(t, i) = <<>>
         /\ i <= Len(t) /\ t[i] # "<" =>
              PiecesFrom(t, i) = <<Piece(FALSE, <<t[i]>>)>> \o PiecesFrom(t, i + 1)
         /\ i <= Len(t) /\ t[i] = "<" =>
              PiecesFrom(t, i) =
                <<Piece(TRUE, SubSeq(t, i + 1, Find(t, ">", i) - 1))>>
                  \o PiecesFrom(t, Find(t, ">", i) + 1)
<1>1. PICK n \in Nat, m \in Nat : n = Len(t) /\ m = n + 2
  BY LenProperties
<1>2. PieceRows!LooksAhead(t, m)
  <2> SUFFICES ASSUME NEW g, NEW h, NEW k \in 1 .. m, PieceRows!Ahead(g, h, k, m)
               PROVE  PieceAt(t, g, k) = PieceAt(t, h, k)
    BY DEF PieceRows!LooksAhead
  <2>1. CASE k > n
    BY <1>1, <2>1 DEF PieceAt
  <2>2. CASE k <= n
    <3>1. PICK c \in k .. n + 1 : c = Find(t, ">", k)
      BY <1>1, <2>2, FindFirst
    <3>2. g[k + 1] = h[k + 1] /\ g[c + 1] = h[c + 1]
      BY <1>1, <2>2, <3>1 DEF PieceRows!Ahead
    <3> QED
      BY <3>1, <3>2 DEF PieceAt
  <2> QED
    BY <1>1, <2>1, <2>2
<1>3. PICK f : f = PieceRows!Recursion(t, m) /\ \A k \in 1 .. m : f[k] = PieceAt(t, f, k)
  BY <1>2, PieceRows!RecursionDef
<1>4. \A k : PiecesFrom(t, k) = f[k]
  BY <1>1, <1>3 DEF PiecesFrom
<1>5. f[i] = PieceAt(t, f, i) /\ PiecesFrom(t, i) = PieceAt(t, f, i)
  <2>1. i \in 1 .. m
    BY <1>1
  <2> QED
    BY <1>3, <1>4, <2>1
<1>6. /\ i > n => PieceAt(t, f, i) = <<>>
      /\ i <= n /\ t[i] # "<" =>
           PieceAt(t, f, i) = <<Piece(FALSE, <<t[i]>>)>> \o f[i + 1]
      /\ i <= n /\ t[i] = "<" =>
           PieceAt(t, f, i) = <<Piece(TRUE, SubSeq(t, i + 1, Find(t, ">", i) - 1))>>
                                \o f[Find(t, ">", i) + 1]
  BY <1>1, SMTT(40) DEF PieceAt, Piece
<1>7. /\ PiecesFrom(t, i + 1) = f[i + 1]
      /\ PiecesFrom(t, Find(t, ">", i) + 1) = f[Find(t, ">", i) + 1]
  BY <1>4
<1> QED
  BY <1>1, <1>5, <1>6, <1>7

\* The pieces of a text are those from its first position on.
LEMMA PiecesAreFromFirst ==
  ASSUME NEW t
  PROVE  Pieces(t) = PiecesFrom(t, 1)
  BY PiecesIsRow DEF PiecesFrom

\* A text is made of references and atoms.
LEMMA PiecesType ==
  ASSUME NEW S, NEW t \in Seq(S)
  PROVE  Pieces(t) \in Seq([ref : BOOLEAN, text : Seq(S)])
<1>1. PICK n \in Nat, m \in Nat : n = Len(t) /\ m = n + 2
  BY LenProperties
<1> DEFINE P == [ref : BOOLEAN, text : Seq(S)]
           T == {i \in 1 .. m : PiecesFrom(t, i) \in Seq(P)}
<1>2. ASSUME NEW i \in 1 .. m, \A j \in i + 1 .. m : j \in T
      PROVE  i \in T
  <2> SUFFICES PiecesFrom(t, i) \in Seq(P)
    OBVIOUS
  <2> HIDE DEF P
  <2>1. CASE i > n
    BY <1>1, <2>1, PiecesStep, EmptySeq
  <2>2. CASE i <= n /\ t[i] # "<"
    <3>1. i + 1 \in i + 1 .. m
      BY <1>1, <2>2
    <3>2. PiecesFrom(t, i + 1) \in Seq(P)
      BY <1>2, <3>1
    <3>3. <<Piece(FALSE, <<t[i]>>)>> \in Seq(P)
      <4>1. <<t[i]>> \in Seq(S)
        BY <1>1, <2>2, ElementOfSeq, OneAtom
      <4>2. Piece(FALSE, <<t[i]>>) \in P
        BY <4>1 DEF Piece, P
      <4> QED
        BY <4>2, OneAtom
    <3>4. PiecesFrom(t, i) = <<Piece(FALSE, <<t[i]>>)>> \o PiecesFrom(t, i + 1)
      BY <1>1, <2>2, PiecesStep
    <3> QED
      BY <3>2, <3>3, <3>4, ConcatProperties
  <2>3. CASE i <= n /\ t[i] = "<"
    <3>1. PICK c \in i .. n + 1 : c = Find(t, ">", i)
      BY <1>1, <2>3, FindFirst
    <3>2. c + 1 \in i + 1 .. m
      BY <1>1, <2>3, <3>1
    <3>3. PiecesFrom(t, c + 1) \in Seq(P)
      BY <1>2, <3>2
    <3>4. SubSeq(t, i + 1, c - 1) \in Seq(S)
      <4>1. \A k \in i + 1 .. c - 1 : t[k] \in S
        BY <1>1, <3>1, ElementOfSeq
      <4> QED
        BY <3>1, <4>1, SubSeqProperties
    <3>5. <<Piece(TRUE, SubSeq(t, i + 1, c - 1))>> \in Seq(P)
      <4>1. Piece(TRUE, SubSeq(t, i + 1, c - 1)) \in P
        BY <3>4 DEF Piece, P
      <4> QED
        BY <4>1, OneAtom
    <3>6. PiecesFrom(t, i) = <<Piece(TRUE, SubSeq(t, i + 1, c - 1))>>
                               \o PiecesFrom(t, c + 1)
      BY <1>1, <2>3, <3>1, PiecesStep
    <3> QED
      BY <3>3, <3>5, <3>6, ConcatProperties
  <2> QED
    BY <2>1, <2>2, <2>3, <1>1
<1>3. 1 .. m \subseteq T
  <2> HIDE DEF T
  <2> QED
    BY <1>2, DownInduct
<1>4. 1 \in 1 .. m
  BY <1>1
<1> QED
  BY <1>3, <1>4, PiecesAreFromFirst

\* A text of Slack with a reference to nothing.
ToNothing(t) == Contains(Pieces(t), [ref |-> TRUE, text |-> <<>>])

\* A text is shown with what it was written with, unless it refers to nothing:
\* then the process panics.
LEMMA ParseType ==
  ASSUME NEW S, Alphabet(S), NEW t \in Seq(S), NEW known \in SUBSET Users,
         ~ToNothing(t) \/ Panic[1] \in S
  PROVE  ParseMessageText(t, known) \in Seq(S)
<1> DEFINE P == [ref : BOOLEAN, text : Seq(S)]
<1>1. PICK p \in Seq(P) : p = Pieces(t)
  BY PiecesType
<1> DEFINE g == [i \in DOMAIN p |-> IF p[i].ref THEN ParseRef(p[i].text, known)
                                    ELSE p[i].text]
<1>2. DOMAIN p = 1 .. Len(p) /\ Len(p) \in Nat /\ \A i \in 1 .. Len(p) : p[i] \in P
  BY LenProperties, ElementOfSeq
<1>3. ASSUME NEW i \in 1 .. Len(p)
      PROVE  g[i] \in Seq(S)
  <2>1. p[i] \in P /\ p[i].text \in Seq(S) /\ p[i].ref \in BOOLEAN
    BY <1>2
  <2>2. ~ToNothing(t) /\ p[i].ref => p[i].text # <<>>
    <3>1. ~ToNothing(t) => p[i] # [ref |-> TRUE, text |-> <<>>]
      BY <1>1, <1>2 DEF ToNothing, Contains
    <3> QED
      BY <2>1, <3>1
  <2>3. Panic[1] \in S => ParseRef(<<>>, known) \in Seq(S)
    <3>1. ParseRef(<<>>, known) = <<Panic[1]>>
      BY DEF ParseRef, Panic
    <3> QED
      BY <3>1, OneAtom
  <2>4. p[i].ref => ParseRef(p[i].text, known) \in Seq(S)
    BY <2>1, <2>2, <2>3, ParseRefType
  <2> QED
    BY <1>2, <2>1, <2>4
<1>4. g \in Seq(Seq(S))
  <2>1. DOMAIN g = 1 .. Len(p)
    BY <1>2
  <2>2. g = [i \in 1 .. Len(p) |-> g[i]]
    BY <1>2
  <2> HIDE DEF g
  <2> QED
    BY <1>2, <1>3, <2>1, <2>2
<1>5. ParseMessageText(t, known) = Decode(FlattenSeq(g))
  BY <1>1 DEF ParseMessageText, Spread
<1> QED
  BY <1>4, <1>5, FlattenType, DecodeType

(***************************************************************************)
(* MessageText: what Slack is sent                                         *)
(***************************************************************************)

\* The atoms of nicks.
Name == Letters \cup Joiners

\* A mention ends with the last of the letters and joiners in a row.
LEMMA EndOfMentionIs ==
  ASSUME NEW S, NEW t \in Seq(S), NEW i \in 1 .. Len(t) - 1, t[i + 1] \in Letters
  PROVE  /\ EndOfMention(t, i) \in i + 1 .. Len(t)
         /\ \A k \in i + 1 .. EndOfMention(t, i) : t[k] \in Name
         /\ EndOfMention(t, i) < Len(t) => t[EndOfMention(t, i) + 1] \notin Name
<1>1. PICK n \in Nat : n = Len(t)
  BY LenProperties
<1> DEFINE I == {k \in i + 1 .. n : t[k] \notin Letters \cup Joiners}
<1>2. I \in SUBSET Nat /\ \A k \in I : k \in Nat /\ k # 0 /\ k > i + 1 /\ k <= n
  BY <1>1
<1>3. EndOfMention(t, i) = IF I = {} THEN n ELSE Min(I) - 1
  <2>1. SelectInSubSeq(t, i + 1, n, LAMBDA a : a \notin Letters \cup Joiners)
          = IF I # {} THEN Min(I) ELSE 0
    BY DEF SelectInSubSeq
  <2>2. I # {} => Min(I) # 0
    BY <1>2, MinOfNats
  <2> QED
    BY <1>1, <2>1, <2>2 DEF EndOfMention
<1>4. CASE I = {}
  BY <1>1, <1>3, <1>4 DEF Name
<1>5. CASE I # {}
  <2>1. PICK m \in I : m = Min(I) /\ \A k \in I : m <= k
    BY <1>2, <1>5, MinOfNats
  <2>2. PICK j \in Nat : j = m - 1 /\ j = EndOfMention(t, i)
    <3>1. m - 1 \in Nat
      BY <1>2
    <3>2. EndOfMention(t, i) = m - 1
      BY <1>3, <1>5, <2>1
    <3> QED
      BY <3>1, <3>2
  <2>3. j \in i + 1 .. n /\ j + 1 = m /\ t[m] \notin Name
    BY <1>1, <1>2, <2>1, <2>2 DEF Name
  <2>4. \A k \in i + 1 .. j : t[k] \in Name
    BY <1>1, <2>1, <2>2, <2>3 DEF Name
  <2> QED
    BY <1>1, <2>2, <2>3, <2>4
<1> QED
  BY <1>4, <1>5

\* What a text mentions are words of it, of two atoms or more.
LEMMA MentionsType ==
  ASSUME NEW S, NEW t \in Seq(S)
  PROVE  Mentions(t) \subseteq {m \in Seq(S) : Len(m) >= 2}
<1> SUFFICES ASSUME NEW i \in 1 .. Len(t) - 1, t[i + 1] \in Letters
             PROVE  /\ SubSeq(t, i, EndOfMention(t, i)) \in Seq(S)
                    /\ Len(SubSeq(t, i, EndOfMention(t, i))) >= 2
  BY DEF Mentions
<1>1. PICK n \in Nat : n = Len(t)
  BY LenProperties
<1>2. PICK j \in i + 1 .. n : j = EndOfMention(t, i)
  BY <1>1, EndOfMentionIs
<1>3. \A k \in i .. j : t[k] \in S
  BY <1>1, <1>2, ElementOfSeq
<1> QED
  BY <1>1, <1>2, <1>3, SubSeqProperties

\* A text mentions finitely many.
LEMMA MentionsFinite ==
  ASSUME NEW S, NEW t \in Seq(S)
  PROVE  IsFiniteSet(Mentions(t))
<1>1. PICK n \in Nat : n = Len(t)
  BY LenProperties
<1> DEFINE I == {k \in 1 .. n - 1 : t[k] = "@" /\ t[k + 1] \in Letters}
           f == [i \in I |-> SubSeq(t, i, EndOfMention(t, i))]
<1>2. IsFiniteSet(I)
  <2>1. IsFiniteSet(1 .. n - 1)
    BY <1>1, FS_Interval
  <2> QED
    BY <2>1, FS_Subset
<1>3. Mentions(t) = {SubSeq(t, i, EndOfMention(t, i)) : i \in I}
  BY <1>1 DEF Mentions
<1>4. f \in Surjection(I, Mentions(t))
  BY <1>3 DEF Surjection
<1> QED
  BY <1>2, <1>4, FS_Surjection

\* The orders of a map's keys are sequences of them.
LEMMA OrdersType ==
  ASSUME NEW S, NEW t \in Seq(S), NEW order \in SetToSeqs(Mentions(t))
  PROVE  /\ order \in Seq(Mentions(t))
         /\ \A m \in Mentions(t) : \E k \in 1 .. Len(order) : order[k] = m
<1>1. IsFiniteSet(Mentions(t))
  BY MentionsFinite
<1>2. PICK n \in Nat : n = Cardinality(Mentions(t))
  BY <1>1, FS_CardinalityType
<1>3. order \in [1 .. n -> Mentions(t)] /\ \A i, j \in 1 .. n : i # j => order[i] # order[j]
  BY <1>2 DEF SetToSeqs
<1>4. order \in Seq(Mentions(t)) /\ Len(order) = n
  BY <1>3
<1>5. order \in Surjection(1 .. n, Mentions(t))
  <2>1. IsFiniteSet(1 .. n) /\ Cardinality(1 .. n) = n
    BY FS_Interval
  <2>2. order \in Injection(1 .. n, Mentions(t))
    BY <1>3, Zenon DEF Injection, IsInjective
  <2> QED
    BY <1>1, <1>2, <2>1, <2>2, FS_Injection
<1> QED
  BY <1>4, <1>5 DEF Surjection

\* m is in t at position k.
At(t, k, m) == k + Len(m) - 1 <= Len(t) /\ SubSeq(t, k, k + Len(m) - 1) = m

\* The first mention of the order that is in the text at k, as strings.Replacer
\* has it.
FirstAt(c, k) == SelectInSeq(c.order, LAMBDA m : At(c.text, k, m))

\* What comes of the text from position i on.
ReplacedFrom(c, i) == ReplaceRows!Recursion(c, Len(c.text) + 1)[i]

\* Replace, with its recursive function named.
LEMMA ReplaceIsRow ==
  ASSUME NEW c
  PROVE  Replace(c.text, c.order, c.owner) = ReplacedFrom(c, 1)
  BY DEF Replace, ReplacedFrom, ReplaceRows!Recursion, ReplaceOne

\* The first of the order that is in the text at a position, if there is one.
LEMMA FirstAtIs ==
  ASSUME NEW S, NEW c, c.order \in Seq(S), NEW k
  PROVE  /\ FirstAt(c, k) \in 0 .. Len(c.order)
         /\ FirstAt(c, k) # 0 => At(c.text, k, c.order[FirstAt(c, k)])
         /\ \A j \in 1 .. Len(c.order) :
              At(c.text, k, c.order[j]) => FirstAt(c, k) # 0 /\ FirstAt(c, k) <= j
<1>1. PICK n \in Nat : n = Len(c.order)
  BY LenProperties
<1> DEFINE I == {j \in 1 .. n : At(c.text, k, c.order[j])}
<1>2. I \in SUBSET Nat /\ \A j \in I : j # 0
  BY <1>1
<1>3. FirstAt(c, k) = IF I # {} THEN Min(I) ELSE 0
  BY <1>1 DEF FirstAt, SelectInSeq
<1>4. CASE I = {}
  BY <1>1, <1>3, <1>4
<1>5. CASE I # {}
  <2>1. PICK m \in I : m = Min(I) /\ \A j \in I : m <= j
    BY <1>2, <1>5, MinOfNats
  <2>2. FirstAt(c, k) = m /\ m \in 1 .. n /\ m # 0 /\ At(c.text, k, c.order[m])
    BY <1>3, <1>5, <2>1
  <2>3. \A j \in 1 .. n : At(c.text, k, c.order[j]) => m <= j
    BY <2>1
  <2> QED
    BY <1>1, <2>2, <2>3
<1> QED
  BY <1>4, <1>5

\* Mentions, of two atoms or more, that owner has no stale entry for.
FreshIn(S, owner) == {m \in Seq(S) : Len(m) >= 2 /\ ~Stale(Tail(m), owner)}

\* The nicks of owner are of users.
OwnersAre(us, owner) == \A n \in DOMAIN owner : owner[n] \in us

\* The arguments Replace has.
Replacing(S, c) ==
  c.text \in Seq(S) /\ OwnersAre(Users, c.owner) /\ c.order \in Seq(FreshIn(S, c.owner))

\* Replace goes from the start of the text to its end.
LEMMA ReplaceStep ==
  ASSUME NEW S, NEW c, Replacing(S, c), NEW i \in 1 .. Len(c.text) + 1
  PROVE  /\ i > Len(c.text) => ReplacedFrom(c, i) = <<>>
         /\ i <= Len(c.text) /\ FirstAt(c, i) = 0 =>
              ReplacedFrom(c, i) = <<c.text[i]>> \o ReplacedFrom(c, i + 1)
         /\ i <= Len(c.text) /\ FirstAt(c, i) # 0 =>
              /\ i + Len(c.order[FirstAt(c, i)]) \in i + 1 .. Len(c.text) + 1
              /\ ReplacedFrom(c, i) = Reference(c.order[FirstAt(c, i)], c.owner)
                                  \o ReplacedFrom(c, i + Len(c.order[FirstAt(c, i)]))
<1>1. PICK n \in Nat, m \in Nat : n = Len(c.text) /\ m = n + 1
  BY LenProperties DEF Replacing
<1> DEFINE w(k) == c.order[FirstAt(c, k)]
<1>2. ASSUME NEW k \in 1 .. n, FirstAt(c, k) # 0
      PROVE  k + Len(w(k)) \in k + 1 .. m /\ w(k) \in Seq(S)
  <2>1. PICK j \in 1 .. Len(c.order) : j = FirstAt(c, k) /\ At(c.text, k, c.order[j])
    <3>1. Len(c.order) \in Nat
      BY LenProperties DEF Replacing
    <3>2. PICK T : T = FreshIn(S, c.owner)
      OBVIOUS
    <3>3. c.order \in Seq(T)
      BY <3>2 DEF Replacing
    <3>4. /\ FirstAt(c, k) \in 0 .. Len(c.order)
          /\ FirstAt(c, k) # 0 => At(c.text, k, c.order[FirstAt(c, k)])
      BY <3>3, FirstAtIs, Zenon
    <3> QED
      BY <1>2, <3>1, <3>4
  <2>2. c.order[j] \in Seq(S) /\ Len(c.order[j]) >= 2
    BY ElementOfSeq DEF Replacing, FreshIn
  <2>3. PICK l \in Nat : l = Len(c.order[j])
    BY <2>2, LenProperties
  <2>4. k + l - 1 <= n
    BY <1>1, <2>1, <2>3 DEF At
  <2>5. w(k) = c.order[j] /\ Len(w(k)) = l
    BY <2>1, <2>3
  <2>6. k + l \in k + 1 .. m
    BY <1>1, <2>2, <2>3, <2>4
  <2> QED
    BY <2>2, <2>5, <2>6, Zenon
<1>3. \A g, k : ReplaceOne(c, g, k) =
        IF k > n THEN <<>>
        ELSE IF FirstAt(c, k) = 0 THEN <<c.text[k]>> \o g[k + 1]
        ELSE Reference(w(k), c.owner) \o g[k + Len(w(k))]
  BY <1>1 DEF ReplaceOne, FirstAt, At
<1>4. ReplaceRows!LooksAhead(c, m)
  <2> SUFFICES ASSUME NEW g, NEW h, NEW k \in 1 .. m, ReplaceRows!Ahead(g, h, k, m)
               PROVE  ReplaceOne(c, g, k) = ReplaceOne(c, h, k)
    BY DEF ReplaceRows!LooksAhead
  <2>1. k <= n => g[k + 1] = h[k + 1]
    BY <1>1 DEF ReplaceRows!Ahead
  <2>2. k <= n /\ FirstAt(c, k) # 0 => g[k + Len(w(k))] = h[k + Len(w(k))]
    <3> HIDE DEF w
    <3> QED
      BY <1>1, <1>2 DEF ReplaceRows!Ahead
  <2> HIDE DEF w
  <2>3. /\ ReplaceOne(c, g, k) = IF k > n THEN <<>>
                                ELSE IF FirstAt(c, k) = 0 THEN <<c.text[k]>> \o g[k + 1]
                                ELSE Reference(w(k), c.owner) \o g[k + Len(w(k))]
        /\ ReplaceOne(c, h, k) = IF k > n THEN <<>>
                                ELSE IF FirstAt(c, k) = 0 THEN <<c.text[k]>> \o h[k + 1]
                                ELSE Reference(w(k), c.owner) \o h[k + Len(w(k))]
    BY <1>3
  <2>4. CASE k > n
    BY <2>3, <2>4
  <2>5. CASE k <= n /\ FirstAt(c, k) = 0
    BY <1>1, <2>1, <2>3, <2>5
  <2>6. CASE k <= n /\ FirstAt(c, k) # 0
    BY <1>1, <2>2, <2>3, <2>6
  <2> QED
    BY <1>1, <2>4, <2>5, <2>6
<1>5. PICK f : f = ReplaceRows!Recursion(c, m) /\ \A k \in 1 .. m : f[k] = ReplaceOne(c, f, k)
  BY <1>4, ReplaceRows!RecursionDef
<1>6. \A k : ReplacedFrom(c, k) = f[k]
  BY <1>1, <1>5 DEF ReplacedFrom
<1>7. ReplacedFrom(c, i) = ReplaceOne(c, f, i)
  <2>1. i \in 1 .. m
    BY <1>1
  <2> QED
    BY <1>5, <1>6, <2>1
<1> HIDE DEF w
<1>8. /\ i > n => ReplacedFrom(c, i) = <<>>
      /\ i <= n /\ FirstAt(c, i) = 0 =>
           ReplacedFrom(c, i) = <<c.text[i]>> \o ReplacedFrom(c, i + 1)
      /\ i <= n /\ FirstAt(c, i) # 0 =>
           ReplacedFrom(c, i) = Reference(w(i), c.owner) \o ReplacedFrom(c, i + Len(w(i)))
  <2>1. /\ ReplacedFrom(c, i + 1) = f[i + 1]
        /\ ReplacedFrom(c, i + Len(w(i))) = f[i + Len(w(i))]
    BY <1>6
  <2>2. ReplaceOne(c, f, i) =
          IF i > n THEN <<>>
          ELSE IF FirstAt(c, i) = 0 THEN <<c.text[i]>> \o f[i + 1]
          ELSE Reference(w(i), c.owner) \o f[i + Len(w(i))]
    BY <1>3
  <2>3. i <= n => ~(i > n)
    BY <1>1
  <2> QED
    BY <1>7, <2>1, <2>2, <2>3, Zenon
<1>9. i <= n /\ FirstAt(c, i) # 0 => i + Len(w(i)) \in i + 1 .. m
  BY <1>1, <1>2
<1> QED
  BY <1>1, <1>8, <1>9 DEF w

\* A mention whose entry is not stale becomes a reference to the user the map has,
\* who has that nick, or stays.
LEMMA ReferenceIs ==
  ASSUME NEW m, NEW owner, ~Stale(Tail(m), owner)
  PROVE  /\ Tail(m) \in DOMAIN owner => /\ Reference(m, owner) = <<"<", "@", owner[Tail(m)], ">">>
                                        /\ Nick[owner[Tail(m)]] = Tail(m)
         /\ Tail(m) \notin DOMAIN owner => Reference(m, owner) = m
  BY DEF Reference, Stale

\* Of a mention comes a text.
LEMMA ReferenceType ==
  ASSUME NEW S, Alphabet(S), NEW owner, OwnersAre(Users, owner), NEW m \in FreshIn(S, owner)
  PROVE  Reference(m, owner) \in Seq(S)
<1>1. m \in Seq(S) /\ ~Stale(Tail(m), owner)
  BY DEF FreshIn
<1>2. CASE Tail(m) \in DOMAIN owner
  <2>1. PICK u \in Users : u = owner[Tail(m)]
    BY <1>2 DEF OwnersAre
  <2>2. u \in S /\ "<" \in S /\ "@" \in S /\ ">" \in S
    BY <2>1, AlphabetHas
  <2>3. Reference(m, owner) = <<"<", "@", u, ">">>
    BY <1>1, <1>2, <2>1, ReferenceIs
  <2> QED
    BY <2>2, <2>3
<1>3. CASE Tail(m) \notin DOMAIN owner
  BY <1>1, <1>3, ReferenceIs
<1> QED
  BY <1>2, <1>3

\* What is made of a text with mentions.
LEMMA ReplaceType ==
  ASSUME NEW S, Alphabet(S), NEW c, Replacing(S, c)
  PROVE  \A i \in 1 .. Len(c.text) + 1 : ReplacedFrom(c, i) \in Seq(S)
<1>1. PICK n \in Nat, m \in Nat : n = Len(c.text) /\ m = n + 1
  <2>1. Len(c.text) \in Nat
    BY LenProperties DEF Replacing
  <2> QED
    BY <2>1
<1> DEFINE T == {i \in 1 .. m : ReplacedFrom(c, i) \in Seq(S)}
<1>2. ASSUME NEW i \in 1 .. m, \A j \in i + 1 .. m : j \in T
      PROVE  i \in T
  <2> SUFFICES ReplacedFrom(c, i) \in Seq(S)
    OBVIOUS
  <2>1. CASE i > n
    BY <1>1, <2>1, ReplaceStep, EmptySeq
  <2>2. CASE i <= n /\ FirstAt(c, i) = 0
    <3>1. i + 1 \in i + 1 .. m
      BY <1>1, <2>2
    <3>2. ReplacedFrom(c, i + 1) \in Seq(S)
      BY <1>2, <3>1
    <3>3. <<c.text[i]>> \in Seq(S)
      BY <1>1, <2>2, ElementOfSeq, OneAtom DEF Replacing
    <3>4. ReplacedFrom(c, i) = <<c.text[i]>> \o ReplacedFrom(c, i + 1)
      BY <1>1, <2>2, ReplaceStep
    <3> QED
      BY <3>2, <3>3, <3>4, ConcatProperties
  <2>3. CASE i <= n /\ FirstAt(c, i) # 0
    <3>1. PICK w : w = c.order[FirstAt(c, i)]
      OBVIOUS
    <3>2. w \in FreshIn(S, c.owner)
      <4>1. PICK j \in 1 .. Len(c.order) : j = FirstAt(c, i)
        <5>1. Len(c.order) \in Nat /\ FirstAt(c, i) \in 0 .. Len(c.order)
          BY FirstAtIs, LenProperties DEF Replacing
        <5> QED
          BY <2>3, <5>1
      <4> QED
        BY <3>1, <4>1, ElementOfSeq DEF Replacing
    <3>3. /\ i + Len(w) \in i + 1 .. m
          /\ ReplacedFrom(c, i) = Reference(w, c.owner) \o ReplacedFrom(c, i + Len(w))
      BY <1>1, <2>3, <3>1, ReplaceStep
    <3>4. ReplacedFrom(c, i + Len(w)) \in Seq(S)
      BY <1>2, <3>3
    <3>5. Reference(w, c.owner) \in Seq(S)
      BY <3>2, ReferenceType DEF Replacing
    <3> QED
      BY <3>3, <3>4, <3>5, ConcatProperties
  <2> QED
    BY <1>1, <2>1, <2>2, <2>3
<1>3. 1 .. m \subseteq T
  <2> HIDE DEF T
  <2> QED
    BY <1>2, DownInduct
<1> QED
  BY <1>1, <1>3

\* The arguments UnparseMessageText gives to Replace.
LEMMA UnparseArguments ==
  ASSUME NEW S, Alphabet(S), NEW t \in Seq(S), NEW owner, OwnersAre(Users, owner),
         ~MentionIsStale(t, owner), NEW x \in UnparseMessageText(t, owner)
  PROVE  \E c : /\ Replacing(S, c) /\ c.text = Encode(t) /\ c.owner = owner
                /\ c.order \in SetToSeqs(Mentions(Encode(t)))
                /\ x = ReplacedFrom(c, 1)
<1>1. PICK e \in Seq(S) : e = Encode(t)
  BY EncodeType
<1>2. PICK order \in SetToSeqs(Mentions(e)) : x = Replace(e, order, owner)
  BY <1>1 DEF UnparseMessageText
<1>3. PICK c : c = [text |-> e, order |-> order, owner |-> owner]
  OBVIOUS
<1>4. c.text = e /\ c.order = order /\ c.owner = owner
  BY <1>3
<1>5. x = ReplacedFrom(c, 1)
  BY <1>2, <1>4, ReplaceIsRow, Zenon
<1>6. order \in Seq(FreshIn(S, owner))
  <2>1. ASSUME NEW m \in Mentions(e)
        PROVE  ~Stale(Tail(m), owner)
    <3>1. Reference(m, owner) # Panic
      BY <1>1, <2>1, Zenon DEF MentionIsStale
    <3> QED
      BY <3>1 DEF Reference, Stale
  <2>2. Mentions(e) \subseteq FreshIn(S, owner)
    BY <2>1, MentionsType DEF FreshIn
  <2> QED
    BY <2>2, OrdersType, SeqMonotonic
<1> QED
  BY <1>1, <1>4, <1>5, <1>6 DEF Replacing

\* Slack is sent what the text was written with, and references.
LEMMA UnparseType ==
  ASSUME NEW S, Alphabet(S), NEW t \in Seq(S), NEW owner, OwnersAre(Users, owner),
         ~MentionIsStale(t, owner)
  PROVE  UnparseMessageText(t, owner) \subseteq Seq(S)
<1> SUFFICES ASSUME NEW x \in UnparseMessageText(t, owner)
             PROVE  x \in Seq(S)
  OBVIOUS
<1>1. PICK c : Replacing(S, c) /\ x = ReplacedFrom(c, 1)
  BY UnparseArguments
<1>2. 1 \in 1 .. Len(c.text) + 1
  BY <1>1, LenProperties DEF Replacing
<1> QED
  BY <1>1, <1>2, ReplaceType

(***************************************************************************)
(* Words, lines and messages                                               *)
(***************************************************************************)

\* The words between separators have none.
LEMMA WordsType ==
  ASSUME NEW S, NEW sep, NEW t \in Seq(S)
  PROVE  Words!Fold(sep, << <<>> >>, t) \in Seq(Seq(S \ {sep})) \ {<<>>}
<1> DEFINE W == Seq(S \ {sep})
           T == Seq(W) \ {<<>>}
<1>1. << <<>> >> \in T
  <2>1. <<>> \in W
    BY EmptySeq
  <2> HIDE DEF W
  <2>2. << <<>> >> \in Seq(W) /\ << <<>> >> # <<>>
    BY <2>1
  <2> QED
    BY <2>2 DEF T
<1>2. ASSUME NEW ws \in T, NEW a \in S
      PROVE  AddAtom(sep, ws, a) \in T
  <2>1. CASE a = sep
    <3>1. <<>> \in W
      BY EmptySeq
    <3> HIDE DEF W
    <3> QED
      BY <2>1, <3>1, AppendProperties DEF AddAtom
  <2>2. CASE a # sep
    <3>1. PICK n \in Nat \ {0} : n = Len(ws)
      BY EmptySeq
    <3>2. ws[n] \in W
      BY <3>1, ElementOfSeq
    <3>3. PICK w \in W : w = Append(ws[n], a)
      BY <2>2, <3>2, AppendProperties
    <3>4. [ws EXCEPT ![n] = w] \in Seq(W) /\ Len([ws EXCEPT ![n] = w]) = n
      <4> HIDE DEF W
      <4> QED
        BY <3>1, <3>3, ExceptSeq DEF T
    <3>5. AddAtom(sep, ws, a) = [ws EXCEPT ![n] = w]
      BY <2>2, <3>1, <3>3 DEF AddAtom
    <3>6. Len(<<>>) # n
      BY <3>1
    <3> QED
      BY <3>4, <3>5, <3>6
  <2> QED
    BY <2>1, <2>2
<1>3. \A s \in Seq(S) : Words!Fold(sep, << <<>> >>, s) \in T
  <2> HIDE DEF T
  <2> QED
    BY <1>1, <1>2, Words!FoldStays
<1> QED
  BY <1>3

\* Atoms without the blank.
Solid(S) == S \ {" "}

\* What a line is split into has no blanks.
LEMMA SplitType ==
  ASSUME NEW S, NEW t \in Seq(S)
  PROVE  Split(t) \in Seq(Seq(Solid(S))) \ {<<>>}
  BY SplitIsFold, WordsType DEF Solid

\* What a command is not.
Commands == STRING \ {" ", ":"}

\* What a line asks: its prefix has no blanks.
RequestsOf(S) == [prefix : Seq(Solid(S)), cmd : STRING, params : Seq(Seq(S))]

\* Messages whose texts are of S: they have parameters, and begin with a prefix or
\* a command.
MessagesOf(S) ==
  {m \in [prefix : Seq(Solid(S)), cmd : Commands, params : Seq(Seq(S))] :
     m.params # <<>> /\ (m.cmd = "" => m.prefix # <<>>)}

\* Those that tell a target something.
ToldOf(S) == {m \in MessagesOf(S) : Len(m.params) = 2}

\* A message is made of its prefix, command and parameters.
LEMMA MessageType ==
  ASSUME NEW S, NEW pre \in Seq(Solid(S)), NEW cmd \in Commands, NEW p \in Seq(Seq(S)),
         p # <<>>, cmd = "" => pre # <<>>
  PROVE  Message(pre, cmd, p) \in MessagesOf(S)
  BY Zenon DEF Message, MessagesOf

\* The commands of the code.
LEMMA CommandsAre == {"", "PRIVMSG", "TOPIC", "JOIN", "PONG"} \subseteq Commands
<1>1. {"", "PRIVMSG", "TOPIC", "JOIN", "PONG"} \subseteq Wording
  BY DEF Wording, Needs
<1>2. /\ "" \notin {" ", ":"} /\ "PRIVMSG" \notin {" ", ":"} /\ "TOPIC" \notin {" ", ":"}
      /\ "JOIN" \notin {" ", ":"} /\ "PONG" \notin {" ", ":"}
  OBVIOUS
<1> QED
  BY <1>1, <1>2, WorldAssumption, Zenon DEF Commands

\* A message to a target has the texts it is made of.
LEMMA PrivmsgType ==
  ASSUME NEW S, NEW from \in Seq(Solid(S)), NEW target \in Seq(S), NEW text \in Seq(S),
         NEW cmd \in {"PRIVMSG", "TOPIC"}
  PROVE  /\ Message(from, cmd, <<target, text>>) \in ToldOf(S)
         /\ cmd = "PRIVMSG" => Privmsg(from, target, text) \in ToldOf(S)
<1>1. cmd \in Commands /\ cmd # ""
  BY CommandsAre
<1>2. <<target, text>> \in Seq(Seq(S)) /\ Len(<<target, text>>) = 2
  BY TwoAtoms
<1>3. <<target, text>> # <<>>
  OBVIOUS
<1>4. Message(from, cmd, <<target, text>>) \in MessagesOf(S)
  BY <1>1, <1>2, <1>3, MessageType
<1> QED
  BY <1>2, <1>4 DEF Privmsg, Message, ToldOf

\* Messages of fewer atoms are messages.
LEMMA MessagesMonotonic ==
  ASSUME NEW S, NEW T, S \subseteq T
  PROVE  MessagesOf(S) \subseteq MessagesOf(T) /\ ToldOf(S) \subseteq ToldOf(T)
         /\ ToldOf(S) \subseteq MessagesOf(T)
<1>1. Seq(S) \subseteq Seq(T)
  BY SeqMonotonic
<1>2. Seq(Seq(S)) \subseteq Seq(Seq(T))
  BY <1>1, SeqMonotonic
<1>3. Solid(S) \subseteq Solid(T)
  BY DEF Solid
<1>4. Seq(Solid(S)) \subseteq Seq(Solid(T))
  BY <1>3, SeqMonotonic
<1>5. MessagesOf(S) \subseteq MessagesOf(T)
  BY <1>2, <1>4 DEF MessagesOf
<1> QED
  BY <1>5 DEF ToldOf

\* Words are texts.
LEMMA SolidTexts ==
  ASSUME NEW S
  PROVE  Seq(Solid(S)) \subseteq Seq(S)
<1>1. Solid(S) \subseteq S
  BY DEF Solid
<1> QED
  BY <1>1, SeqMonotonic

\* What is said to a target is a message.
LEMMA TellingType ==
  ASSUME NEW S, NEW from \in Seq(Solid(S)), NEW target \in Seq(S), NEW text \in Seq(S)
  PROVE  Privmsg(from, target, text) \in MessagesOf(S)
  BY PrivmsgType DEF ToldOf

\* Users and the senders the gateway has of its own are words.
LEMMA SendersAre ==
  ASSUME NEW S, Alphabet(S)
  PROVE  /\ \A u \in Users : <<u>> \in Seq(Solid(S))
         /\ \A w \in {"server", "SLACK", "*tanya"} : <<w>> \in Seq(Solid(S))
<1>1. Users \subseteq Solid(S)
  <2>1. " " \in Marks
    BY DEF Marks
  <2> QED
    BY <2>1, AlphabetHas, AtomAssumption DEF Solid
<1>2. {"server", "SLACK", "*tanya"} \subseteq Solid(S)
  <2>1. {"server", "SLACK", "*tanya"} \subseteq Wording
    BY DEF Wording
  <2>2. "server" # " " /\ "SLACK" # " " /\ "*tanya" # " "
    OBVIOUS
  <2> QED
    BY <2>1, <2>2, AlphabetHas, Zenon DEF Solid
<1> QED
  BY <1>1, <1>2, OneAtom

\* A text becomes messages of one line each.
LEMMA MessageTextToEventsType ==
  ASSUME NEW S, NEW t \in Seq(S), NEW sender \in Seq(Solid(S \ {"\n"})),
         NEW target \in Seq(S \ {"\n"})
  PROVE  MessageTextToEvents(sender, target, t) \in Seq(ToldOf(S \ {"\n"}))
<1> DEFINE M == ToldOf(S \ {"\n"})
<1>1. PICK ls \in Seq(Seq(S \ {"\n"})) : ls = Words!Fold("\n", << <<>> >>, t)
  BY WordsType
<1> DEFINE g == [i \in DOMAIN ls |-> IF ls[i] = <<>> THEN <<>>
                                    ELSE <<Privmsg(sender, target, ls[i])>>]
<1>2. MessageTextToEvents(sender, target, t) = FlattenSeq(g)
  <2>1. FoldLeft(LAMBDA y, x : AddAtom("\n", y, x), << <<>> >>, t) = ls
    BY <1>1 DEF FoldLeft, MapThenFoldSet, Max,
         Words!Fold, Words!Steps, Words!Step, Words!Top
  <2> QED
    BY <2>1 DEF MessageTextToEvents, Spread, AddAtom
<1>3. DOMAIN ls = 1 .. Len(ls) /\ Len(ls) \in Nat
      /\ \A i \in 1 .. Len(ls) : ls[i] \in Seq(S \ {"\n"})
  BY LenProperties, ElementOfSeq
<1>4. ASSUME NEW i \in 1 .. Len(ls)
      PROVE  g[i] \in Seq(M)
  <2>1. Privmsg(sender, target, ls[i]) \in M
    BY <1>3, PrivmsgType
  <2> HIDE DEF M
  <2>2. <<Privmsg(sender, target, ls[i])>> \in Seq(M) /\ <<>> \in Seq(M)
    BY <2>1, OneAtom, EmptySeq
  <2> QED
    BY <1>3, <2>2
<1>5. g \in Seq(Seq(M))
  <2>1. DOMAIN g = 1 .. Len(ls) /\ g = [i \in 1 .. Len(ls) |-> g[i]]
    BY <1>3
  <2> HIDE DEF g, M
  <2> QED
    BY <1>3, <1>4, <2>1
<1> QED
  BY <1>2, <1>5, FlattenType

(***************************************************************************)
(* The messages of an event                                                *)
(***************************************************************************)

\* FullText is a fold over the attachments.
LEMMA FullTextIsFold ==
  ASSUME NEW e, NEW known
  PROVE  FullText(e, known)
           = Attachments!Fold(known, ParseMessageText(e.text, known), e.fallbacks)
  BY DEF FullText, Attach, FoldLeft, MapThenFoldSet, Max,
         Attachments!Fold, Attachments!Steps, Attachments!Step, Attachments!Top

\* The text t can be shown with S: it refers to something, or S has the panic.
Showable(S, t) == t \in Seq(Atoms) /\ (~ToNothing(t) \/ Panic[1] \in S)

\* The texts of e can.
ShowableEvent(S, e) ==
  Showable(S, e.text) /\ \A t \in ToSet(e.fallbacks) : Showable(S, t)

\* S has all that texts of Slack are made of.
Whole(S) == Atoms \subseteq S /\ S \subseteq STRING

\* A set of atoms that has all there are has those that texts are made of,
\* with the newline or without it.
LEMMA WholeIsAlphabet ==
  ASSUME NEW S, Whole(S)
  PROVE  Alphabet(S) /\ Alphabet(S \ {"\n"}) /\ "\n" \in S
<1>1. "\n" \in Atoms
  <2>1. "\n" \in Marks /\ "\n" # "panic" /\ Panic[1] = "panic"
    BY DEF Marks, Panic
  <2> QED
    BY <2>1, AtomAssumption DEF Atoms
<1> QED
  BY <1>1 DEF Whole, Alphabet, Atoms

\* A text without a reference to nothing is shown as a text.
LEMMA ShowableType ==
  ASSUME NEW S, Whole(S), NEW t, Showable(S, t), NEW known \in SUBSET Users
  PROVE  ParseMessageText(t, known) \in Seq(S) /\ t \in Seq(S)
<1>1. Alphabet(S) /\ t \in Seq(S)
  BY WholeIsAlphabet, SeqMonotonic DEF Showable, Whole
<1> QED
  BY <1>1, ParseType DEF Showable

\* A text with its attachments.
LEMMA FullTextType ==
  ASSUME NEW S, Whole(S), NEW e, ShowableEvent(S, e), e.fallbacks \in Seq(Seq(Atoms)),
         NEW known \in SUBSET Users
  PROVE  FullText(e, known) \in Seq(S)
<1> DEFINE F == {t \in Seq(Atoms) : Showable(S, t)}
<1>1. e.fallbacks \in Seq(F)
  <2>1. PICK s \in Seq(Seq(Atoms)) : s = e.fallbacks
    OBVIOUS
  <2>2. DOMAIN s = 1 .. Len(s) /\ Len(s) \in Nat
    BY LenProperties
  <2>3. \A i \in 1 .. Len(s) : s[i] \in F
    BY <2>1, <2>2, ElementOfSeq, ZenonT(60) DEF ShowableEvent, ToSet
  <2>4. s = [i \in 1 .. Len(s) |-> s[i]]
    BY <2>2
  <2>5. s \in Seq(F)
    <3> HIDE DEF F
    <3> QED
      BY <2>2, <2>3, <2>4
  <2> QED
    BY <2>1, <2>5
<1>2. ParseMessageText(e.text, known) \in Seq(S)
  BY ShowableType DEF ShowableEvent
<1>3. ASSUME NEW t \in Seq(S), NEW f \in F
      PROVE  Attach(known, t, f) \in Seq(S)
  <2>1. ParseMessageText(f, known) \in Seq(S)
    BY ShowableType
  <2>2. <<"\n">> \in Seq(S)
    BY WholeIsAlphabet, OneAtom
  <2>3. t \o <<"\n">> \o ParseMessageText(f, known) \in Seq(S)
    BY <2>1, <2>2, ConcatProperties
  <2> QED
    BY <2>1, <2>3 DEF Attach
<1>4. Attachments!Fold(known, ParseMessageText(e.text, known), e.fallbacks) \in Seq(S)
  <2> HIDE DEF F
  <2> QED
    BY <1>1, <1>2, <1>3, Attachments!FoldStays
<1> QED
  BY <1>4, FullTextIsFold

\* The mark of the user's own words is a text.
LEMMA MarkType ==
  ASSUME NEW S, Alphabet(S)
  PROVE  Mark \in Seq(S)
<1>1. Nick[Me] \in Seq(S)
  BY FlowAssumption, NickType
<1>2. "[" \in S /\ "]" \in S /\ " " \in S
  <2>1. {"[", "]"} \subseteq Wording
    BY DEF Wording
  <2> QED
    BY <2>1, AlphabetHas, Zenon
<1>3. <<"[">> \in Seq(S) /\ <<"]", " ">> \in Seq(S)
  BY <1>2, OneAtom, TwoAtoms
<1>4. <<"[">> \o Nick[Me] \in Seq(S)
  BY <1>1, <1>3, ConcatProperties
<1>5. (<<"[">> \o Nick[Me]) \o <<"]", " ">> \in Seq(S)
  BY <1>3, <1>4, ConcatProperties
<1> QED
  BY <1>5 DEF Mark

\* The messages of an event are made of what its texts are, and have one line each
\* but for changed topics and archive links.
LEMMA EventMessagesType ==
  ASSUME NEW S, Whole(S), NEW e \in SlackEvents, ShowableEvent(S, e),
         NEW known \in SUBSET Users
  PROVE  /\ EventMessages(e, known) \in Seq(ToldOf(S))
         /\ e.sub \notin {"message_changed", "channel_topic"} =>
              EventMessages(e, known) \in Seq(ToldOf(S \ {"\n"}))
<1> DEFINE N == S \ {"\n"}
           sender == IF Swapped(e) THEN <<e.conv>>
                     ELSE IF e.user \in Users THEN <<e.user>> ELSE <<>>
           target == IF IsDmChannel(e.conv) THEN Nick[Me] ELSE <<e.conv>>
           file(f) == Privmsg(sender, target, <<"@">> \o Nick[sender[1]] \o <<" ", f>>)
           files == [i \in DOMAIN e.files |-> file(e.files[i])]
           full == FullText(e, known)
<1>1. Alphabet(S) /\ Alphabet(N) /\ "\n" \in S
  BY WholeIsAlphabet
<1>2. /\ e.user \in Users \cup {"USLACKBOT", None} /\ e.conv \in Channels \cup Users
      /\ e.text \in Seq(Atoms) /\ e.fallbacks \in Seq(Seq(Atoms)) /\ e.files \in Line
      /\ e.link \in Users \cup {None} /\ (e.link # None => e.fallbacks # <<>>)
  BY WorldAssumption
<1>3. Users \subseteq N /\ Channels \subseteq N
  BY <1>1, AlphabetHas
<1>4. sender \in Seq(Solid(N)) /\ (sender # <<>> => sender[1] \in Users)
  <2>1. CASE Swapped(e)
    <3>1. e.conv \in Users /\ <<e.conv>> \in Seq(Solid(N))
      BY <1>1, <2>1, SendersAre DEF Swapped, IsDmChannel
    <3> QED
      BY <2>1, <3>1
  <2>2. CASE ~Swapped(e)
    <3>1. e.user \in Users => <<e.user>> \in Seq(Solid(N))
      BY <1>1, SendersAre
    <3> QED
      BY <2>2, <3>1, EmptySeq
  <2> QED
    BY <2>1, <2>2
<1>5. target \in Seq(N)
  <2>1. Nick[Me] \in Seq(N)
    BY <1>1, FlowAssumption, NickType
  <2>2. <<e.conv>> \in Seq(N)
    BY <1>2, <1>3, OneAtom
  <2> QED
    BY <2>1, <2>2
<1>6. full \in Seq(S) /\ OwnMark(e) \o full \in Seq(S)
  <2>1. full \in Seq(S)
    BY <1>2, FullTextType
  <2>2. OwnMark(e) \in Seq(S)
    BY <1>1, MarkType, EmptySeq DEF OwnMark
  <2> QED
    BY <2>1, <2>2, ConcatProperties
<1>7. ASSUME sender # <<>>
      PROVE  files \in Seq(ToldOf(N))
  <2>1. PICK fs \in Line : fs = e.files
    BY <1>2
  <2>2. DOMAIN fs = 1 .. Len(fs) /\ Len(fs) \in Nat
        /\ \A i \in 1 .. Len(fs) : fs[i] \in Atoms \ {"\n"}
    BY LenProperties, ElementOfSeq DEF Line
  <2>3. ASSUME NEW i \in 1 .. Len(fs)
        PROVE  file(fs[i]) \in ToldOf(N)
    <3>1. fs[i] \in N
      BY <2>2 DEF Whole
    <3>2. "@" \in N /\ " " \in N
      BY <1>1, AlphabetHas
    <3>3. Nick[sender[1]] \in Seq(N)
      BY <1>1, <1>4, <1>7, NickType
    <3>4. <<"@">> \in Seq(N) /\ <<" ", fs[i]>> \in Seq(N)
      BY <3>1, <3>2, OneAtom, TwoAtoms
    <3> HIDE DEF N, sender, target
    <3>5. <<"@">> \o Nick[sender[1]] \in Seq(N)
      BY <3>3, <3>4, ConcatProperties
    <3>6. (<<"@">> \o Nick[sender[1]]) \o <<" ", fs[i]>> \in Seq(N)
      BY <3>4, <3>5, ConcatProperties
    <3> QED
      BY <1>4, <1>5, <3>6, PrivmsgType
  <2>4. files = [i \in 1 .. Len(fs) |-> file(fs[i])]
    BY <2>1, <2>2
  <2> HIDE DEF file, N
  <2> QED
    BY <2>2, <2>3, <2>4
<1>8. ToldOf(N) \subseteq ToldOf(S)
  BY MessagesMonotonic
<1> HIDE DEF N, sender, target, files, full
<1>9. EventMessages(e, known) =
        CASE e.sub \in {"", "pinned_item", "thread_broadcast"} /\ sender # <<>> ->
               MessageTextToEvents(sender, target, OwnMark(e) \o full) \o files
          [] e.sub = "bot_message" ->
               MessageTextToEvents(IF sender = <<>> THEN <<"SLACK">> ELSE sender, target, full)
          [] e.sub = "message_changed" /\ e.link # None /\ e.link \in known ->
               <<Privmsg(<<e.link>>, target, ParseMessageText(e.fallbacks[1], known))>>
          [] e.sub = "channel_topic" /\ sender # <<>> ->
               <<Message(sender, "TOPIC", <<target, e.text>>)>>
          [] OTHER -> <<>>
  BY DEF EventMessages, sender, target, files, full
<1>10. CASE e.sub \in {"", "pinned_item", "thread_broadcast"} /\ sender # <<>>
  <2>1. MessageTextToEvents(sender, target, OwnMark(e) \o full) \in Seq(ToldOf(N))
    BY <1>4, <1>5, <1>6, MessageTextToEventsType DEF N
  <2>2. MessageTextToEvents(sender, target, OwnMark(e) \o full) \o files
          \in Seq(ToldOf(N))
    BY <1>7, <1>10, <2>1, ConcatProperties
  <2>3. EventMessages(e, known) =
          MessageTextToEvents(sender, target, OwnMark(e) \o full) \o files
    BY <1>9, <1>10
  <2> QED
    BY <1>8, <2>2, <2>3, SeqMonotonic DEF N
<1>11. CASE e.sub = "bot_message"
  <2>1. PICK from \in Seq(Solid(N)) : from = IF sender = <<>> THEN <<"SLACK">> ELSE sender
    <3>1. <<"SLACK">> \in Seq(Solid(N))
      BY <1>1, SendersAre
    <3> QED
      BY <1>4, <3>1
  <2>2. MessageTextToEvents(from, target, full) \in Seq(ToldOf(N))
    BY <1>5, <1>6, MessageTextToEventsType DEF N
  <2>3. EventMessages(e, known) = MessageTextToEvents(from, target, full)
    BY <1>9, <1>11, <2>1
  <2> QED
    BY <1>8, <2>2, <2>3, SeqMonotonic DEF N
<1>12. CASE e.sub = "message_changed" /\ e.link # None /\ e.link \in known
  <2>1. e.fallbacks[1] \in ToSet(e.fallbacks)
    <3>1. PICK s \in Seq(Seq(Atoms)) : s = e.fallbacks /\ s # <<>>
      BY <1>2, <1>12
    <3>2. 1 \in DOMAIN s
      BY <3>1, EmptySeq, LenProperties
    <3> QED
      BY <3>1, <3>2 DEF ToSet
  <2>2. ParseMessageText(e.fallbacks[1], known) \in Seq(S)
    BY <2>1, ShowableType DEF ShowableEvent
  <2>3. <<e.link>> \in Seq(Solid(S)) /\ target \in Seq(S)
    BY <1>1, <1>2, <1>5, <1>12, SendersAre, SeqMonotonic DEF N
  <2>4. Privmsg(<<e.link>>, target, ParseMessageText(e.fallbacks[1], known)) \in ToldOf(S)
    BY <2>2, <2>3, PrivmsgType
  <2>5. EventMessages(e, known) =
          <<Privmsg(<<e.link>>, target, ParseMessageText(e.fallbacks[1], known))>>
    BY <1>9, <1>12
  <2> QED
    BY <1>12, <2>4, <2>5, OneAtom
<1>13. CASE e.sub = "channel_topic" /\ sender # <<>>
  <2>1. e.text \in Seq(S) /\ target \in Seq(S)
    BY <1>2, <1>5, SeqMonotonic DEF N, Whole
  <2>2. sender \in Seq(Solid(S))
    <3>1. Solid(N) \subseteq Solid(S)
      BY DEF Solid, N
    <3> QED
      BY <1>4, <3>1, SeqMonotonic
  <2>4. Message(sender, "TOPIC", <<target, e.text>>) \in ToldOf(S)
    BY <2>1, <2>2, PrivmsgType
  <2>5. EventMessages(e, known) = <<Message(sender, "TOPIC", <<target, e.text>>)>>
    BY <1>9, <1>13
  <2> QED
    BY <1>13, <2>4, <2>5, OneAtom
<1>14. CASE /\ ~(e.sub \in {"", "pinned_item", "thread_broadcast"} /\ sender # <<>>)
            /\ e.sub # "bot_message"
            /\ ~(e.sub = "message_changed" /\ e.link # None /\ e.link \in known)
            /\ ~(e.sub = "channel_topic" /\ sender # <<>>)
  <2>1. EventMessages(e, known) = <<>>
    BY <1>9, <1>14
  <2> QED
    BY <2>1, EmptySeq
<1> QED
  BY <1>10, <1>11, <1>12, <1>13, <1>14

(***************************************************************************)
(* Lines of clients                                                        *)
(***************************************************************************)

\* Words joined are a text, which is not empty if the first of them is not.
LEMMA JoinType ==
  ASSUME NEW S, Alphabet(S), NEW ws \in Seq(Seq(S))
  PROVE  /\ Join(ws) \in Seq(S)
         /\ ws # <<>> /\ ws[1] # <<>> => Join(ws) # <<>>
<1>1. CASE ws = <<>>
  BY <1>1, EmptySeq DEF Join
<1>2. CASE ws # <<>>
  <2>1. PICK n \in Nat : n = Len(ws) /\ n # 0
    BY <1>2, EmptySeq
  <2>2. Head(ws) \in Seq(S) /\ ws[1] = Head(ws)
    BY <1>2, HeadTailProperties
  <2>3. PICK m \in Nat : m = n - 1
    <3>1. n - 1 \in Nat
      BY <2>1
    <3> QED
      BY <3>1
  <2>4. PICK b \in Seq(S) : b = <<" ">>
    BY AlphabetHas, OneAtom
  <2> DEFINE g == [i \in 1 .. m |-> b \o ws[i + 1]]
  <2>5. ASSUME NEW i \in 1 .. m
        PROVE  b \o ws[i + 1] \in Seq(S)
    <3>1. ws[i + 1] \in Seq(S)
      BY <2>1, <2>3, ElementOfSeq
    <3> QED
      BY <3>1, ConcatProperties
  <2>6. g \in Seq(Seq(S))
    BY <2>5
  <2>7. FlattenSeq(g) \in Seq(S)
    BY <2>6, FlattenType
  <2>8. Join(ws) = Head(ws) \o FlattenSeq(g)
    <3>1. Len(ws) - 1 = m
      BY <2>1, <2>3
    <3> QED
      BY <1>2, <2>4, <3>1, Zenon DEF Join
  <2> HIDE DEF g
  <2> QED
    BY <1>2, <2>2, <2>7, <2>8, ConcatProperties, ConcatEqualIffEmpty, SMTT(40)
<1> QED
  BY <1>1, <1>2

\* The first word that starts with a colon, or 0.
Colon(ws) == SelectInSeq(ws, LAMBDA w : Starts(w, ":"))

\* Colon is the first word that starts with a colon.
LEMMA ColonIs ==
  ASSUME NEW S, NEW ws \in Seq(S)
  PROVE  /\ Colon(ws) \in 0 .. Len(ws)
         /\ Colon(ws) # 0 => Starts(ws[Colon(ws)], ":")
         /\ \A k \in 1 .. Len(ws) :
              Starts(ws[k], ":") => Colon(ws) # 0 /\ Colon(ws) <= k
<1>1. PICK n \in Nat : n = Len(ws)
  BY LenProperties
<1> DEFINE I == {j \in 1 .. n : Starts(ws[j], ":")}
<1>2. I \in SUBSET Nat /\ \A j \in I : j # 0
  BY <1>1
<1>3. Colon(ws) = IF I # {} THEN Min(I) ELSE 0
  BY <1>1 DEF Colon, SelectInSeq
<1>4. CASE I = {}
  BY <1>1, <1>3, <1>4
<1>5. CASE I # {}
  <2>1. PICK m \in I : m = Min(I) /\ \A j \in I : m <= j
    BY <1>2, <1>5, MinOfNats
  <2>2. Colon(ws) = m /\ m \in 1 .. n /\ m # 0 /\ Starts(ws[m], ":")
    BY <1>3, <1>5, <2>1
  <2>3. \A j \in 1 .. n : Starts(ws[j], ":") => m <= j
    BY <2>1
  <2> QED
    BY <1>1, <2>2, <2>3
<1> QED
  BY <1>4, <1>5

\* The parameters of a line are texts.
LEMMA ParamsType ==
  ASSUME NEW S, Alphabet(S), NEW ws \in Seq(Seq(S))
  PROVE  Params(ws) \in Seq(Seq(S))
<1>1. PICK n \in Nat : n = Len(ws)
  BY LenProperties
<1>2. PICK i \in 0 .. n : i = Colon(ws)
  BY <1>1, ColonIs
<1>3. Params(ws) = IF i = 0 THEN ws
                   ELSE Append(SubSeq(ws, 1, i - 1), Tail(Join(SubSeq(ws, i, n))))
  BY <1>1, <1>2 DEF Params, Colon
<1>4. CASE i # 0
  <2>1. \A k \in 1 .. n : ws[k] \in Seq(S)
    BY <1>1, ElementOfSeq
  <2>2. SubSeq(ws, 1, i - 1) \in Seq(Seq(S))
    BY <2>1, SubSeqProperties
  <2>3. PICK v \in Seq(Seq(S)) : v = SubSeq(ws, i, n) /\ Len(v) = n - i + 1 /\ v[1] = ws[i]
    <3>1. i \in Int /\ n \in Int /\ \A k \in i .. n : ws[k] \in Seq(S)
      BY <1>4, <2>1
    <3>2. 1 \in 1 .. n - i + 1 /\ i + 1 - 1 = i /\ i <= n
      BY <1>1
    <3>3. /\ SubSeq(ws, i, n) \in Seq(Seq(S)) /\ Len(SubSeq(ws, i, n)) = n - i + 1
          /\ SubSeq(ws, i, n)[1] = ws[i + 1 - 1]
      BY <3>1, <3>2, SubSeqProperties
    <3> QED
      BY <3>2, <3>3
  <2>4. Starts(ws[i], ":")
    BY <1>2, <1>4, ColonIs
  <2>5. v # <<>> /\ v[1] # <<>>
    <3>1. v[1] # <<>>
      BY <2>3, <2>4, Zenon DEF Starts
    <3>2. Len(v) # 0
      BY <1>1, <1>4, <2>3
    <3> QED
      BY <3>1, <3>2, EmptySeq
  <2>6. Join(v) \in Seq(S) /\ Join(v) # <<>>
    BY <2>5, JoinType
  <2>7. Tail(Join(v)) \in Seq(S)
    BY <2>6, HeadTailProperties
  <2> QED
    BY <1>3, <1>4, <2>2, <2>3, <2>7, AppendProperties
<1> QED
  BY <1>3, <1>4

\* Replies whose texts are of S.
NumericsOf(S) == [code : S, params : Seq(Seq(S))]

\* The words of a line that StringToMessage makes a message of: the command and
\* the parameters come after the prefix.
Cmd(l) == IF Starts(l, ":") THEN Split(l)[2] ELSE Split(l)[1]
\* The words of a line that are parameters.
Given(l) == Params(SubSeq(Split(l), IF Starts(l, ":") THEN 3 ELSE 2, Len(Split(l))))

\* What becomes of a line: an error, or a message with enough parameters, whose
\* prefix has no blanks.
LEMMA StringToMessageIs ==
  ASSUME NEW l
  PROVE  \/ /\ Starts(l, ":") /\ Len(Split(l)) < 2
            /\ StringToMessage(l) = [error |-> Numeric("malformed", <<>>)]
         \/ /\ ~(Starts(l, ":") /\ Len(Split(l)) < 2)
            /\ \A c \in DOMAIN Needs : Cmd(l) # <<c>>
            /\ StringToMessage(l) = [error |-> ErrUnknownCommand(Cmd(l))]
         \/ /\ ~(Starts(l, ":") /\ Len(Split(l)) < 2)
            /\ \E c \in DOMAIN Needs :
                 /\ Cmd(l) = <<c>>
                 /\ IF Len(Given(l)) < Needs[c]
                    THEN StringToMessage(l) = [error |-> ErrNeedMoreParams(Cmd(l))]
                    ELSE StringToMessage(l) =
                           Message(IF Starts(l, ":") THEN Split(l)[1] ELSE <<>>, c, Given(l))
<1> DEFINE m == StringToMessage(l)
<1>1. m = CASE Starts(l, ":") /\ Len(Split(l)) < 2 -> [error |-> Numeric("malformed", <<>>)]
            [] OTHER ->
                 IF \A c \in DOMAIN Needs : Cmd(l) # <<c>>
                 THEN [error |-> ErrUnknownCommand(Cmd(l))]
                 ELSE IF Len(Given(l)) < Needs[Cmd(l)[1]]
                 THEN [error |-> ErrNeedMoreParams(Cmd(l))]
                 ELSE Message(IF Starts(l, ":") THEN Split(l)[1] ELSE <<>>, Cmd(l)[1], Given(l))
  BY DEF StringToMessage, Cmd, Given
<1>2. CASE Starts(l, ":") /\ Len(Split(l)) < 2
  BY <1>1, <1>2, Zenon
<1>3. CASE /\ ~(Starts(l, ":") /\ Len(Split(l)) < 2)
           /\ \A c \in DOMAIN Needs : Cmd(l) # <<c>>
  BY <1>1, <1>3, Zenon
<1>4. CASE /\ ~(Starts(l, ":") /\ Len(Split(l)) < 2)
           /\ ~\A c \in DOMAIN Needs : Cmd(l) # <<c>>
  <2>1. PICK c \in DOMAIN Needs : Cmd(l) = <<c>>
    BY <1>4
  <2>2. Cmd(l)[1] = c
    BY <2>1
  <2>3. m = IF Len(Given(l)) < Needs[c] THEN [error |-> ErrNeedMoreParams(Cmd(l))]
            ELSE Message(IF Starts(l, ":") THEN Split(l)[1] ELSE <<>>, c, Given(l))
    BY <1>1, <1>4, <2>2, Zenon
  <2> QED
    BY <1>4, <2>1, <2>3, Zenon
<1> QED
  BY <1>2, <1>3, <1>4, Zenon

\* A line is a command that is known, with the parameters it needs, or an
\* error that can be written.
LEMMA StringToMessageType ==
  ASSUME NEW S, Alphabet(S), NEW l \in Seq(S), NEW m, m = StringToMessage(l)
  PROVE  /\ Malformed(m) => m.error \in NumericsOf(S)
         /\ ~Malformed(m) => /\ m \in RequestsOf(S)
                             /\ m.cmd \in DOMAIN Needs /\ Len(m.params) >= Needs[m.cmd]
<1>1. PICK ws \in Seq(Seq(Solid(S))) : ws = Split(l) /\ ws # <<>>
  BY SplitType
<1>2. PICK n \in Nat : n = Len(ws) /\ n # 0
  BY <1>1, EmptySeq
<1>3. \A k \in 1 .. n : ws[k] \in Seq(Solid(S))
  BY <1>2, ElementOfSeq
<1>4. Seq(Solid(S)) \subseteq Seq(S)
  <2>1. Solid(S) \subseteq S
    BY Zenon DEF Solid
  <2> QED
    BY <2>1, SeqMonotonic
<1>5. \A k \in 1 .. n : ws[k] \in Seq(S)
  BY <1>3, <1>4
<1>6. Given(l) \in Seq(Seq(S))
  <2>1. SubSeq(ws, 3, n) \in Seq(Seq(S)) /\ SubSeq(ws, 2, n) \in Seq(Seq(S))
    BY <1>5, SubSeqProperties
  <2>2. Params(SubSeq(ws, 3, n)) \in Seq(Seq(S)) /\ Params(SubSeq(ws, 2, n)) \in Seq(Seq(S))
    BY <2>1, ParamsType
  <2> QED
    BY <1>1, <1>2, <2>2, Zenon DEF Given
<1>7. ~(Starts(l, ":") /\ Len(Split(l)) < 2) => Cmd(l) \in Seq(S)
  <2>1. ws[1] \in Seq(S) /\ (~(n < 2) => ws[2] \in Seq(S))
    BY <1>2, <1>5
  <2> QED
    BY <1>1, <1>2, <2>1, Zenon DEF Cmd
<1>8. PICK pre \in Seq(Solid(S)) : pre = IF Starts(l, ":") THEN Split(l)[1] ELSE <<>>
  <2>1. ws[1] \in Seq(Solid(S)) /\ <<>> \in Seq(Solid(S))
    <3>1. 1 \in 1 .. n
      BY <1>2
    <3> QED
      BY <1>3, <3>1, EmptySeq, Zenon
  <2> QED
    BY <1>1, <2>1, Zenon
<1>9. /\ "malformed" \in S /\ "421" \in S /\ "461" \in S
      /\ "Unknown command" \in S /\ "Not enough parameters" \in S
  <2>1. {"malformed", "421", "461", "Unknown command", "Not enough parameters"} \subseteq Wording
    BY DEF Wording
  <2> QED
    BY <2>1, AlphabetHas, Zenon
<1>10. \A x \in Seq(S), a \in S, b \in S : Numeric(a, <<x, <<b>> >>) \in NumericsOf(S)
  <2> SUFFICES ASSUME NEW x \in Seq(S), NEW a \in S, NEW b \in S
               PROVE  Numeric(a, <<x, <<b>> >>) \in NumericsOf(S)
    OBVIOUS
  <2>1. <<b>> \in Seq(S)
    BY OneAtom
  <2>2. <<x, <<b>> >> \in Seq(Seq(S))
    BY <2>1, TwoAtoms
  <2> QED
    BY <2>2 DEF Numeric, NumericsOf
<1>11. CASE m = [error |-> Numeric("malformed", <<>>)]
  <2>1. PICK a \in S : a = "malformed"
    BY <1>9
  <2>2. Numeric(a, <<>>) \in NumericsOf(S)
    BY EmptySeq DEF Numeric, NumericsOf
  <2> QED
    BY <1>11, <2>1, <2>2 DEF Malformed
<1>12. CASE /\ ~(Starts(l, ":") /\ Len(Split(l)) < 2)
            /\ m = [error |-> ErrUnknownCommand(Cmd(l))] \/ m = [error |-> ErrNeedMoreParams(Cmd(l))]
  <2>1. /\ ErrUnknownCommand(Cmd(l)) \in NumericsOf(S)
        /\ ErrNeedMoreParams(Cmd(l)) \in NumericsOf(S)
    BY <1>7, <1>9, <1>10, <1>12, Zenon DEF ErrUnknownCommand, ErrNeedMoreParams
  <2> QED
    BY <1>12, <2>1 DEF Malformed
<1>13. ASSUME NEW c \in DOMAIN Needs, ~(Len(Given(l)) < Needs[c]), m = Message(pre, c, Given(l))
       PROVE  /\ m \in RequestsOf(S)
              /\ m.cmd \in DOMAIN Needs /\ Len(m.params) >= Needs[m.cmd]
  <2>1. c \in STRING
    <3>1. c \in Wording
      BY Zenon DEF Wording
    <3> QED
      BY <3>1, WorldAssumption, Zenon
  <2>2. pre \in Seq(S)
    BY <1>4
  <2>3. m.prefix = pre /\ m.cmd = c /\ m.params = Given(l)
    BY <1>13 DEF Message
  <2>4. m \in RequestsOf(S)
    BY <1>6, <1>13, <2>1, <2>2 DEF Message, RequestsOf
  <2>5. Len(Given(l)) >= Needs[c]
    <3>1. Len(Given(l)) \in Nat /\ Needs[c] \in Nat
      <4>1. Needs[c] \in Nat
        BY DEF Needs
      <4> QED
        BY <1>6, <4>1, LenProperties
    <3> QED
      BY <1>13, <3>1
  <2> QED
    BY <1>8, <2>3, <2>4, <2>5, Zenon
<1>14. ASSUME NEW c \in DOMAIN Needs, m = Message(pre, c, Given(l))
       PROVE  ~Malformed(m)
  BY <1>14 DEF Message, Malformed
<1>15. CASE /\ ~(Starts(l, ":") /\ Len(Split(l)) < 2)
            /\ \E c \in DOMAIN Needs :
                 /\ Cmd(l) = <<c>>
                 /\ IF Len(Given(l)) < Needs[c]
                    THEN m = [error |-> ErrNeedMoreParams(Cmd(l))]
                    ELSE m = Message(pre, c, Given(l))
  <2>1. PICK c \in DOMAIN Needs : IF Len(Given(l)) < Needs[c]
                                  THEN m = [error |-> ErrNeedMoreParams(Cmd(l))]
                                  ELSE m = Message(pre, c, Given(l))
    BY <1>15
  <2>2. CASE Len(Given(l)) < Needs[c]
    BY <1>12, <1>15, <2>1, <2>2, Zenon
  <2>3. CASE ~(Len(Given(l)) < Needs[c])
    BY <1>13, <1>14, <2>1, <2>3, Zenon
  <2> QED
    BY <2>2, <2>3, Zenon
<1> QED
  BY <1>8, <1>11, <1>12, <1>15, StringToMessageIs, Zenon

(***************************************************************************)
(* Replies                                                                 *)
(***************************************************************************)

\* Three atoms are a text.
LEMMA ThreeAtoms ==
  ASSUME NEW S, NEW a \in S, NEW b \in S, NEW c \in S
  PROVE  <<a, b, c>> \in Seq(S) /\ Len(<<a, b, c>>) = 3
  OBVIOUS

\* Four atoms are a text, and five.
LEMMA FiveAtoms ==
  ASSUME NEW S, NEW a \in S, NEW b \in S, NEW c \in S, NEW d \in S, NEW e \in S
  PROVE  <<a, b, c, d>> \in Seq(S) /\ <<a, b, c, d, e>> \in Seq(S)
  OBVIOUS

\* Seven atoms are a text.
LEMMA SevenAtoms ==
  ASSUME NEW S, NEW a \in S, NEW b \in S, NEW c \in S, NEW d \in S, NEW e \in S,
         NEW f \in S, NEW g \in S
  PROVE  <<a, b, c, d, e, f, g>> \in Seq(S)
  OBVIOUS

\* The words of the code are texts.
LEMMA WordingTexts ==
  ASSUME NEW S, Alphabet(S)
  PROVE  /\ Wording \subseteq S
         /\ \A w \in Wording : <<w>> \in Seq(S)
         /\ \A v, w \in Wording : <<v, " ", w>> \in Seq(S)
<1>1. Wording \subseteq S
  BY AlphabetHas
<1>2. PICK b \in S : b = " "
  BY AlphabetHas
<1>3. \A v, w \in Wording : <<v, b, w>> \in Seq(S)
  BY <1>1, ThreeAtoms
<1> QED
  BY <1>1, <1>2, <1>3, OneAtom, Zenon

\* A numeric is a reply.
LEMMA NumericType ==
  ASSUME NEW S, NEW a \in S, NEW ps \in Seq(Seq(S))
  PROVE  Numeric(a, ps) \in NumericsOf(S)
  BY DEF Numeric, NumericsOf

\* A reply is told the client with the texts it has.
LEMMA RepliesType ==
  ASSUME NEW S, Alphabet(S), NEW n \in Seq(NumericsOf(S))
  PROVE  [i \in DOMAIN n |-> Reply(n[i], Nick[Me])] \in Seq(MessagesOf(S))
<1>1. DOMAIN n = 1 .. Len(n) /\ Len(n) \in Nat /\ \A i \in 1 .. Len(n) : n[i] \in NumericsOf(S)
  BY LenProperties, ElementOfSeq
<1>2. ASSUME NEW r \in NumericsOf(S)
      PROVE  Reply(r, Nick[Me]) \in MessagesOf(S)
  <2>1. Nick[Me] \in Seq(S)
    BY FlowAssumption, NickType
  <2>2. r.code \in S /\ r.params \in Seq(Seq(S))
    BY DEF NumericsOf
  <2>3. << <<r.code>>, Nick[Me]>> \in Seq(Seq(S))
    BY <2>1, <2>2, OneAtom, TwoAtoms
  <2>4. PICK p \in Seq(Seq(S)) : p = << <<r.code>>, Nick[Me]>> \o r.params /\ p # <<>>
    <3>1. << <<r.code>>, Nick[Me]>> \o r.params \in Seq(Seq(S))
      BY <2>2, <2>3, ConcatProperties
    <3>2. << <<r.code>>, Nick[Me]>> \o r.params # <<>>
      BY <2>2, <2>3, ConcatSimplifications
    <3> QED
      BY <3>1, <3>2
  <2>5. PICK pre \in Seq(Solid(S)) : pre = <<"server">> /\ pre # <<>>
    BY SendersAre
  <2>6. PICK cmd \in Commands : cmd = ""
    BY CommandsAre
  <2>7. Reply(r, Nick[Me]) = Message(pre, cmd, p)
    BY <2>4, <2>5, <2>6, Zenon DEF Reply
  <2> QED
    BY <2>4, <2>5, <2>7, MessageType
<1> DEFINE R(i) == Reply(n[i], Nick[Me])
<1>3. \A i \in 1 .. Len(n) : R(i) \in MessagesOf(S)
  BY <1>1, <1>2
<1>4. [i \in 1 .. Len(n) |-> R(i)] \in Seq(MessagesOf(S))
  <2> HIDE DEF R
  <2> QED
    BY <1>1, <1>3
<1> QED
  BY <1>1, <1>4

\* WHO is answered with replies.
LEMMA WholistType ==
  ASSUME NEW S, Alphabet(S), NEW us \in Seq(Users), NEW c \in Seq(S)
  PROVE  WholistAsNumerics(us, Nick, c) \in Seq(NumericsOf(S))
<1>1. DOMAIN us = 1 .. Len(us) /\ Len(us) \in Nat /\ \A i \in 1 .. Len(us) : us[i] \in Users
  BY LenProperties, ElementOfSeq
<1> DEFINE W(u) == Numeric("352", <<c, <<u>>, <<"localhost">>, <<"server">>,
                                    Nick[u], <<"H">>, <<"0", " ", "name">>>>)
           end == Numeric("315", <<c, <<"End", " ", "of /WHO list">>>>)
<1>2. ASSUME NEW u \in Users
      PROVE  W(u) \in NumericsOf(S)
  <2>1. Nick[u] \in Seq(S) /\ <<u>> \in Seq(S)
    <3>1. u \in S
      BY AlphabetHas
    <3> QED
      BY <3>1, NickType, OneAtom
  <2>2. /\ "352" \in S /\ <<"localhost">> \in Seq(S) /\ <<"server">> \in Seq(S)
        /\ <<"H">> \in Seq(S) /\ <<"0", " ", "name">> \in Seq(S)
    <3>1. {"352", "localhost", "server", "H", "0", "name"} \subseteq Wording
      BY DEF Wording
    <3> QED
      BY <3>1, WordingTexts, Zenon
  <2> QED
    BY <2>1, <2>2, SevenAtoms, NumericType, Zenon
<1>3. end \in NumericsOf(S)
  <2>1. "315" \in S /\ <<"End", " ", "of /WHO list">> \in Seq(S)
    <3>1. {"315", "End", "of /WHO list"} \subseteq Wording
      BY DEF Wording
    <3> QED
      BY <3>1, WordingTexts, Zenon
  <2> QED
    BY <2>1, TwoAtoms, NumericType, Zenon
<1>4. WholistAsNumerics(us, Nick, c) = [i \in DOMAIN us |-> W(us[i])] \o <<end>>
  BY DEF WholistAsNumerics
<1>5. [i \in DOMAIN us |-> W(us[i])] \in Seq(NumericsOf(S))
  <2>1. [i \in 1 .. Len(us) |-> W(us[i])] \in Seq(NumericsOf(S))
    <3> HIDE DEF W
    <3> QED
      BY <1>1, <1>2
  <2> QED
    BY <1>1, <2>1, Zenon
<1> HIDE DEF W, end
<1> QED
  BY <1>3, <1>4, <1>5, OneAtom, ConcatProperties

\* WHOIS is answered with replies.
LEMMA WhoisType ==
  ASSUME NEW S, Alphabet(S), NEW u \in Users
  PROVE  WhoisAsNumerics(u, Nick) \in Seq(NumericsOf(S))
<1>1. Nick[u] \in Seq(S) /\ <<u>> \in Seq(S)
  <2>1. u \in S
    BY AlphabetHas
  <2> QED
    BY <2>1, NickType, OneAtom
<1>2. /\ "311" \in S /\ "312" \in S /\ "318" \in S /\ <<"localhost">> \in Seq(S)
      /\ <<"*">> \in Seq(S) /\ <<"name">> \in Seq(S) /\ <<"tanya">> \in Seq(S)
      /\ <<"Slack IRC Gateway">> \in Seq(S) /\ <<"End", " ", "of /WHOIS list">> \in Seq(S)
  <2>1. {"311", "312", "318", "localhost", "*", "name", "tanya", "Slack IRC Gateway",
         "End", "of /WHOIS list"} \subseteq Wording
    BY DEF Wording
  <2> QED
    BY <2>1, WordingTexts, Zenon
<1>3. /\ Numeric("311", <<Nick[u], <<u>>, <<"localhost">>, <<"*">>, <<"name">>>>)
            \in NumericsOf(S)
      /\ Numeric("312", <<Nick[u], <<"tanya">>, <<"Slack IRC Gateway">>>>) \in NumericsOf(S)
      /\ Numeric("318", <<Nick[u], <<"End", " ", "of /WHOIS list">>>>) \in NumericsOf(S)
  BY <1>1, <1>2, TwoAtoms, ThreeAtoms, FiveAtoms, NumericType, Zenon
<1> QED
  BY <1>3, ThreeAtoms, Zenon DEF WhoisAsNumerics

\* The message of the day is told in replies.
LEMMA MOTDType ==
  ASSUME NEW S, Alphabet(S)
  PROVE  MOTDAsNumerics(Motd) \in Seq(NumericsOf(S))
<1>1. PICK ls \in Seq(Seq(S)) :
        ls = IF Motd = <<>> THEN << <<"- tanya Message of the Day -">> >> ELSE Motd
  <2>1. << <<"- tanya Message of the Day -">> >> \in Seq(Seq(S))
    <3>1. {"- tanya Message of the Day -"} \subseteq Wording
      BY DEF Wording
    <3> QED
      BY <3>1, WordingTexts, OneAtom, Zenon
  <2>2. Motd \in Seq(Seq(S))
    <3>1. Atoms \ {"\n"} \subseteq S
      BY DEF Alphabet, Atoms
    <3>2. Line \subseteq Seq(S)
      BY <3>1, SeqMonotonic DEF Line
    <3> QED
      BY <3>2, WorldAssumption, SeqMonotonic
  <2> QED
    BY <2>1, <2>2, Zenon
<1>2. DOMAIN ls = 1 .. Len(ls) /\ Len(ls) \in Nat /\ \A i \in 1 .. Len(ls) : ls[i] \in Seq(S)
  BY LenProperties, ElementOfSeq
<1> DEFINE M(i) == Numeric(IF i = 1 THEN "375" ELSE "372", <<ls[i]>>)
           end == Numeric("376", << <<"End of /MOTD command.">> >>)
<1>3. ASSUME NEW i \in 1 .. Len(ls)
      PROVE  M(i) \in NumericsOf(S)
  <2>1. (IF i = 1 THEN "375" ELSE "372") \in S
    <3>1. {"375", "372"} \subseteq Wording
      BY DEF Wording
    <3> QED
      BY <3>1, WordingTexts, Zenon
  <2>2. <<ls[i]>> \in Seq(Seq(S))
    BY <1>2, OneAtom
  <2> QED
    BY <2>1, <2>2, NumericType, Zenon
<1>4. end \in NumericsOf(S)
  <2>1. "376" \in S /\ <<"End of /MOTD command.">> \in Seq(S)
    <3>1. {"376", "End of /MOTD command."} \subseteq Wording
      BY DEF Wording
    <3> QED
      BY <3>1, WordingTexts, Zenon
  <2> QED
    BY <2>1, OneAtom, NumericType, Zenon
<1>5. MOTDAsNumerics(Motd) = [i \in DOMAIN ls |-> M(i)] \o <<end>>
  BY <1>1, Zenon DEF MOTDAsNumerics
<1>6. [i \in 1 .. Len(ls) |-> M(i)] \in Seq(NumericsOf(S))
  <2> HIDE DEF M
  <2> QED
    BY <1>2, <1>3
<1> HIDE DEF M, end
<1> QED
  BY <1>2, <1>4, <1>5, <1>6, OneAtom, ConcatProperties

\* What is collected of the members us.
Listing(a, us) == Names!Fold(a, [replies |-> <<>>, names |-> <<>>], us)

EndOfNames(c) == Numeric("366", <<c, <<"End", " ", "of /NAMES list">>>>)

\* NamelistAsNumerics is a fold over the users, and what ends the list.
LEMMA NamelistIsFold ==
  ASSUME NEW a, NEW us
  PROVE  NamelistAsNumerics(us, a.nick, a.chan, a.limit) =
           Listing(a, us).replies
             \o (IF Listing(a, us).names = <<>> THEN <<>>
                 ELSE <<Chunk(a.chan, Listing(a, us).names)>>)
             \o <<EndOfNames(a.chan)>>
  BY DEF NamelistAsNumerics, Listing, AddMember, EndOfNames, FoldLeft, MapThenFoldSet, Max,
         Names!Fold, Names!Steps, Names!Step, Names!Top

\* What is trimmed of a text is a text.
LEMMA TrimType ==
  ASSUME NEW S, NEW t \in Seq(S)
  PROVE  TrimSpace(t) \in Seq(S)
<1>1. PICK n \in Nat : n = Len(t)
  BY LenProperties
<1>2. PICK I \in SUBSET (1 .. n) : I = {i \in 1 .. Len(t) : t[i] \notin {" ", "nbsp"}}
  BY <1>1
<1>3. TrimSpace(t) = IF I = {} THEN <<>> ELSE SubSeq(t, Min(I), Max(I))
  BY <1>2, Zenon DEF TrimSpace
<1>4. CASE I = {}
  BY <1>3, <1>4, EmptySeq
<1>5. CASE I # {}
  <2>1. PICK a \in 1 .. n, b \in 1 .. n : a = Min(I) /\ b = Max(I)
    <3>1. I \in SUBSET Nat
      OBVIOUS
    <3>2. Min(I) \in I /\ Max(I) \in I
      BY <1>5, <3>1, MinOfNats, MaxOfNats, Zenon
    <3> QED
      BY <3>2
  <2>2. \A i \in a .. b : t[i] \in S
    BY <1>1, ElementOfSeq
  <2>3. SubSeq(t, a, b) \in Seq(S)
    BY <2>2, SubSeqProperties
  <2> QED
    BY <1>3, <1>5, <2>1, <2>3
<1> QED
  BY <1>4, <1>5

\* What has something, and no space at its ends.
Firm(t) == t # <<>> /\ t[1] \notin {" ", "nbsp"} /\ t[Len(t)] \notin {" ", "nbsp"}

\* Nothing is trimmed of that.
LEMMA TrimFirm ==
  ASSUME NEW S, NEW t \in Seq(S), Firm(t)
  PROVE  TrimSpace(t) = t
<1>1. PICK n \in Nat : n = Len(t) /\ n # 0
  BY EmptySeq, LenProperties DEF Firm
<1>2. PICK I \in SUBSET (1 .. n) : I = {i \in 1 .. Len(t) : t[i] \notin {" ", "nbsp"}}
  BY <1>1
<1>3. TrimSpace(t) = IF I = {} THEN <<>> ELSE SubSeq(t, Min(I), Max(I))
  BY <1>2, Zenon DEF TrimSpace
<1>4. 1 \in I /\ n \in I
  <2>1. 1 \in 1 .. Len(t) /\ n \in 1 .. Len(t)
    BY <1>1
  <2>2. t[1] \notin {" ", "nbsp"} /\ t[n] \notin {" ", "nbsp"}
    BY <1>1, Zenon DEF Firm
  <2> QED
    BY <1>2, <2>1, <2>2, Zenon
<1>5. PICK a \in 1 .. n, b \in 1 .. n : a = Min(I) /\ b = Max(I) /\ a <= 1 /\ b >= n
  <2>1. I \in SUBSET Nat /\ I # {}
    BY <1>4
  <2>2. Min(I) \in I /\ Min(I) <= 1
    BY <1>4, <2>1, MinOfNats, Zenon
  <2>3. Max(I) \in I /\ Max(I) >= n
    BY <1>4, <2>1, MaxOfNats, Zenon
  <2> QED
    BY <2>2, <2>3, Zenon
<1>6. a = 1 /\ b = n
  BY <1>5
<1>7. SubSeq(t, 1, n) = t
  BY <1>1, SubSeqFull
<1> QED
  BY <1>3, <1>4, <1>5, <1>6, <1>7

\* A line of names is a reply.
LEMMA ChunkType ==
  ASSUME NEW S, Alphabet(S), NEW c \in Seq(S), NEW ns \in Seq(Seq(S))
  PROVE  Chunk(c, ns) \in NumericsOf(S)
<1>1. "353" \in S /\ <<"=">> \in Seq(S)
  <2>1. {"353", "="} \subseteq Wording
    BY DEF Wording
  <2> QED
    BY <2>1, WordingTexts, Zenon
<1>2. TrimSpace(Join(ns)) \in Seq(S)
  BY JoinType, TrimType
<1> QED
  BY <1>1, <1>2, ThreeAtoms, NumericType, Zenon DEF Chunk

\* What is written and what waits to be, while names are listed.
LEMMA ListingType ==
  ASSUME NEW S, Alphabet(S), NEW a, a.nick = Nick, a.chan \in Seq(S),
         NEW us \in Seq(Users)
  PROVE  Listing(a, us) \in [replies : Seq(NumericsOf(S)), names : Seq(Seq(S))]
<1> DEFINE T == [replies : Seq(NumericsOf(S)), names : Seq(Seq(S))]
<1>1. [replies |-> <<>>, names |-> <<>>] \in T
  BY EmptySeq
<1>2. ASSUME NEW l \in T, NEW u \in Users
      PROVE  AddMember(a, l, u) \in T
  <2>1. l.replies \in Seq(NumericsOf(S)) /\ l.names \in Seq(Seq(S)) /\ Nick[u] \in Seq(S)
    BY NickType
  <2>2. Append(l.replies, Chunk(a.chan, l.names)) \in Seq(NumericsOf(S))
    BY <2>1, ChunkType, AppendProperties
  <2>3. Append(l.names, Nick[u]) \in Seq(Seq(S)) /\ <<Nick[u]>> \in Seq(Seq(S))
    BY <2>1, AppendProperties, OneAtom
  <2>4. AddMember(a, l, u) =
          IF Width(l.names) > a.limit
          THEN [replies |-> Append(l.replies, Chunk(a.chan, l.names)), names |-> <<Nick[u]>>]
          ELSE [l EXCEPT !.names = Append(@, Nick[u])]
    BY Zenon DEF AddMember, AddName
  <2>5. [replies |-> Append(l.replies, Chunk(a.chan, l.names)), names |-> <<Nick[u]>>] \in T
    BY <2>2, <2>3
  <2>6. [l EXCEPT !.names = Append(@, Nick[u])] \in T
    BY <2>1, <2>3
  <2> QED
    BY <2>4, <2>5, <2>6, Zenon
<1>3. \A s \in Seq(Users) : Names!Fold(a, [replies |-> <<>>, names |-> <<>>], s) \in T
  <2> HIDE DEF T
  <2> QED
    BY <1>1, <1>2, Names!FoldStays
<1> QED
  BY <1>3 DEF Listing

\* The names of a channel are told in replies.
LEMMA NamelistType ==
  ASSUME NEW S, Alphabet(S), NEW us \in Seq(Users), NEW c \in Seq(S), NEW limit
  PROVE  NamelistAsNumerics(us, Nick, c, limit) \in Seq(NumericsOf(S))
<1>1. PICK a : a = [nick |-> Nick, chan |-> c, limit |-> limit]
  OBVIOUS
<1>2. a.nick = Nick /\ a.chan = c /\ a.limit = limit
  BY <1>1
<1>3. PICK l \in [replies : Seq(NumericsOf(S)), names : Seq(Seq(S))] : l = Listing(a, us)
  BY <1>2, ListingType
<1>4. PICK more \in Seq(NumericsOf(S)) :
        more = IF l.names = <<>> THEN <<>> ELSE <<Chunk(c, l.names)>>
  BY ChunkType, OneAtom, EmptySeq
<1>5. EndOfNames(c) \in NumericsOf(S)
  <2>1. "366" \in S /\ <<"End", " ", "of /NAMES list">> \in Seq(S)
    <3>1. {"366", "End", "of /NAMES list"} \subseteq Wording
      BY DEF Wording
    <3> QED
      BY <3>1, WordingTexts, Zenon
  <2> QED
    BY <2>1, TwoAtoms, NumericType, Zenon DEF EndOfNames
<1>6. NamelistAsNumerics(us, Nick, c, limit) = (l.replies \o more) \o <<EndOfNames(c)>>
  BY <1>2, <1>3, <1>4, NamelistIsFold, Zenon
<1> QED
  BY <1>5, <1>6, OneAtom, ConcatProperties

\* The topic of a channel is told in replies.
LEMMA TopicRepliesType ==
  ASSUME NEW S, Alphabet(S), NEW c \in Seq(S), NEW topic \in Seq(S), NEW known \in SUBSET Users
  PROVE  SendChannelTopic(c, topic, known) \in Seq(NumericsOf(S))
<1> DEFINE by == SetBy[c[1]]
<1>1. {"331", "332", "333", "No topic is set.", "server", "0"} \subseteq Wording
  BY DEF Wording
<1>2. /\ "331" \in S /\ "332" \in S /\ "333" \in S /\ <<"No topic is set.">> \in Seq(S)
      /\ <<"server">> \in Seq(S) /\ <<"0">> \in Seq(S)
  BY <1>1, WordingTexts, Zenon
<1>3. PICK who \in Seq(S) : who = IF by \in known THEN Nick[by] ELSE <<"server">>
  <2>1. by \in known => Nick[by] \in Seq(S)
    BY NickType
  <2> QED
    BY <1>2, <2>1, Zenon
<1>4. /\ Numeric("331", <<c, <<"No topic is set.">> >>) \in NumericsOf(S)
      /\ Numeric("332", <<c, topic>>) \in NumericsOf(S)
      /\ Numeric("333", <<c, who, <<"0">> >>) \in NumericsOf(S)
  BY <1>2, TwoAtoms, ThreeAtoms, NumericType, Zenon
<1>5. /\ <<Numeric("331", <<c, <<"No topic is set.">> >>)>> \in Seq(NumericsOf(S))
      /\ <<Numeric("332", <<c, topic>>), Numeric("333", <<c, who, <<"0">> >>)>>
           \in Seq(NumericsOf(S))
  BY <1>4, OneAtom, TwoAtoms, Zenon
<1> QED
  BY <1>3, <1>5, Zenon DEF SendChannelTopic

\* A topic has one line, and no panic unless it refers to nothing.
LEMMA TopicType ==
  ASSUME NEW S, Whole(S), NEW c, NEW known \in SUBSET Users,
         \A k \in channelInfo : c = <<k>> => Showable(S, Topic[k])
  PROVE  GetChannelTopic(c, known) \in Seq(S \ {"\n"})
<1>1. CASE ~ChannelExists(c)
  BY <1>1, EmptySeq, Zenon DEF GetChannelTopic
<1>2. CASE ChannelExists(c)
  <2>1. PICK k \in channelInfo : c = <<k>>
    BY <1>2 DEF ChannelExists
  <2>2. c[1] = k
    BY <2>1
  <2>3. PICK t \in Seq(S) : t = ParseMessageText(Topic[k], known)
    BY <2>1, ShowableType
  <2>4. PICK b \in S \ {"\n"} : b = " "
    <3>1. " " # "\n"
      OBVIOUS
    <3> QED
      BY <3>1, WholeIsAlphabet, AlphabetHas, Zenon
  <2>5. GetChannelTopic(c, known) = ReplaceAll(t, "\n", b)
    BY <1>2, <2>2, <2>3, <2>4, Zenon DEF GetChannelTopic
  <2>6. Len(t) \in Nat /\ \A i \in 1 .. Len(t) : t[i] \in S
    BY LenProperties, ElementOfSeq
  <2>7. [i \in 1 .. Len(t) |-> IF t[i] = "\n" THEN b ELSE t[i]] \in Seq(S \ {"\n"})
    BY <2>6
  <2> QED
    BY <2>5, <2>7 DEF ReplaceAll
<1> QED
  BY <1>1, <1>2

(***************************************************************************)
(* The types of MessageFlow                                                *)
(***************************************************************************)

\* What is said on one line.
Speech == STRING \ {"\n"}

\* Speech has all atoms but the newline, and STRING has all.
LEMMA SpeechIs ==
  /\ Alphabet(Speech) /\ Alphabet(STRING) /\ Whole(STRING) /\ Panic[1] \in STRING
  /\ Line \subseteq Seq(Speech) /\ MessagesOf(Speech) \subseteq MessagesOf(STRING)
  /\ ToldOf(Speech) \subseteq ToldOf(STRING)
<1>1. Panic[1] \in STRING
  BY AtomAssumption
<1>2. Whole(STRING) /\ Alphabet(Speech) /\ Alphabet(STRING)
  BY WholeIsAlphabet DEF Whole, Atoms, Speech
<1>3. Atoms \ {"\n"} \subseteq Speech /\ Speech \subseteq STRING
  BY DEF Atoms, Speech
<1>4. Line \subseteq Seq(Speech)
  BY <1>3, SeqMonotonic DEF Line
<1> QED
  BY <1>1, <1>2, <1>3, <1>4, MessagesMonotonic

\* The type invariant with what a step needs to know of the messages on the way:
\* what is to be routed is what the line says, and what is not of Slack has one
\* line.
FlowTypes ==
  /\ Me \in userInfo /\ userInfo \subseteq Users
  /\ channelInfo \subseteq Channels
  /\ dmInfo \subseteq userInfo
  /\ line \in {None} \cup ClientLines
  /\ incoming # None => /\ line # None /\ Parsed(StringToMessage(line), "PRIVMSG")
                        /\ incoming = ParseMessage(StringToMessage(line))
  /\ posted \in {None} \cup [conv : Channels \cup Users, text : Texts]
  /\ relayed \in {None} \cup MessagesOf(Speech)
  /\ answers \in Seq(MessagesOf(Speech))
  /\ shown \in Seq(ToldOf(STRING))
  /\ event = None \/ event.sub \notin {"message_changed", "channel_topic"} =>
       shown \in Seq(ToldOf(Speech))
  /\ event \in {None} \cup SlackEvents
  /\ panicked \in BOOLEAN

\* What a line of a client is made of.
LEMMA ReadType ==
  ASSUME NEW l \in ClientLines, NEW m, m = StringToMessage(l)
  PROVE  /\ l \in Seq(Speech) /\ l # None
         /\ Malformed(m) => m.error \in NumericsOf(Speech)
         /\ ~Malformed(m) =>
              /\ m \in RequestsOf(Speech)
              /\ m.params # <<>> => m.params[1] \in Seq(Speech)
              /\ Len(m.params) > 1 => m.params[2] \in Seq(Speech)
              /\ m.cmd \in {"PRIVMSG", "TOPIC", "JOIN", "WHOIS"} => m.params # <<>>
<1>1. l \in Seq(Speech) /\ l # None
  BY SpeechIs, WorldAssumption
<1>2. Malformed(m) => m.error \in NumericsOf(Speech)
  BY <1>1, SpeechIs, StringToMessageType
<1>3. ~Malformed(m) => /\ m \in RequestsOf(Speech)
                       /\ m.cmd \in DOMAIN Needs /\ Len(m.params) >= Needs[m.cmd]
  BY <1>1, SpeechIs, StringToMessageType
<1>4. ASSUME ~Malformed(m)
      PROVE  /\ m.params # <<>> => m.params[1] \in Seq(Speech)
             /\ Len(m.params) > 1 => m.params[2] \in Seq(Speech)
             /\ m.cmd \in {"PRIVMSG", "TOPIC", "JOIN", "WHOIS"} => m.params # <<>>
  <2>1. PICK p \in Seq(Seq(Speech)) : p = m.params
    BY <1>3, <1>4 DEF RequestsOf
  <2>2. \A k \in 1 .. Len(p) : p[k] \in Seq(Speech)
    BY ElementOfSeq
  <2>3. Len(p) \in Nat /\ (p # <<>> => Len(p) # 0)
    BY EmptySeq, LenProperties
  <2>4. m.cmd \in {"PRIVMSG", "TOPIC", "JOIN", "WHOIS"} => Needs[m.cmd] = 1
    BY DEF Needs
  <2>5. m.cmd \in {"PRIVMSG", "TOPIC", "JOIN", "WHOIS"} => p # <<>>
    <3>1. Len(<<>>) = 0
      BY EmptySeq
    <3> QED
      BY <1>3, <1>4, <2>1, <2>3, <2>4, <3>1
  <2> QED
    BY <2>1, <2>2, <2>3, <2>5
<1> QED
  BY <1>1, <1>2, <1>3, <1>4

\* No user is forgotten, and none known that Slack does not have.
LEMMA AnsweredType ==
  ASSUME NEW known \in SUBSET Users, NEW us \in SUBSET Users, NEW k \in Answered(known, us)
  PROVE  known \subseteq k /\ k \subseteq Users
  BY DEF Answered

\* Those a text resolves are users.
LEMMA ResolvedType ==
  ASSUME NEW t
  PROVE  Resolved(t) \subseteq Users
  BY DEF Resolved

\* Asking for a topic forgets no user, and makes none up.
LEMMA TopicResolvedType ==
  ASSUME FlowTypes, NEW c, NEW known \in TopicResolved(c)
  PROVE  userInfo \subseteq known /\ known \subseteq Users
<1>1. CASE ~ChannelExists(c)
  BY <1>1 DEF TopicResolved, FlowTypes
<1>2. CASE ChannelExists(c)
  <2>1. PICK k \in channelInfo : c = <<k>>
    BY <1>2 DEF ChannelExists
  <2>2. c[1] \in Channels
    BY <2>1 DEF FlowTypes
  <2>3. Resolved(Topic[c[1]]) \cup ({SetBy[c[1]]} \ {None}) \subseteq Users
    BY <2>2, ResolvedType, FlowAssumption
  <2> QED
    BY <1>2, <2>3, AnsweredType DEF TopicResolved, FlowTypes
<1> QED
  BY <1>1, <1>2

\* Asking for the users of a channel forgets no user, and makes none up.
LEMMA ChannelUsersType ==
  ASSUME FlowTypes, NEW c, NEW known \in SUBSET Users, NEW told \in GetChannelUsers(c, known)
  PROVE  told.users \in Seq(Users) /\ known \subseteq told.known /\ told.known \subseteq Users
<1>1. CASE ~ChannelExists(c)
  <2>1. told = [users |-> <<>>, known |-> known]
    BY <1>1, Zenon DEF GetChannelUsers
  <2>2. told.users = <<>> /\ told.known = known
    BY <2>1
  <2> QED
    BY <2>2, EmptySeq
<1>2. CASE ChannelExists(c)
  <2>1. PICK k \in channelInfo : c = <<k>>
    BY <1>2 DEF ChannelExists
  <2>2. PICK ms \in Seq(Users) : ms = Members[c[1]]
    BY <2>1, FlowAssumption DEF FlowTypes
  <2>3. ToSet(ms) \subseteq Users
    BY LenProperties, ElementOfSeq DEF ToSet
  <2>4. \/ told = [users |-> ms, known |-> known \cup ToSet(ms)]
        \/ \E found \in Answered(known, ToSet(ms)) : told = [users |-> <<>>, known |-> found]
    BY <1>2, <2>2 DEF GetChannelUsers
  <2>5. CASE told = [users |-> ms, known |-> known \cup ToSet(ms)]
    <3>1. told.users = ms /\ told.known = known \cup ToSet(ms)
      BY <2>5
    <3> QED
      BY <2>3, <3>1
  <2>6. ASSUME NEW found \in Answered(known, ToSet(ms)), told = [users |-> <<>>, known |-> found]
        PROVE  told.users \in Seq(Users) /\ known \subseteq told.known
               /\ told.known \subseteq Users
    <3>1. told.users = <<>> /\ told.known = found
      BY <2>6
    <3> QED
      BY <2>3, <3>1, AnsweredType, EmptySeq
  <2> QED
    BY <2>4, <2>5, <2>6
<1> QED
  BY <1>1, <1>2

\* The users nickToUserMap leads to are known.
LEMMA OwnerType == OwnersAre(userInfo, Owner)
  BY Zenon DEF OwnersAre, Owner

\* GetUserFromNick is nobody or a known user, who has the nick if the entry is
\* not stale.
LEMMA UserFromNickType ==
  ASSUME FlowTypes, NEW nick
  PROVE  \/ GetUserFromNick(nick) = <<>>
         \/ \E u \in userInfo : /\ GetUserFromNick(nick) = <<u>>
                               /\ (Stale(nick, Owner) \/ Nick[u] = nick)
<1>1. nick \in DOMAIN Owner => Owner[nick] \in userInfo
  BY OwnerType DEF OwnersAre
<1> QED
  BY <1>1, Zenon DEF GetUserFromNick, Stale

\* What is found is stored.
LEMMA StoreIs ==
  ASSUME NEW known, Store(known)
  PROVE  userInfo' = known
  BY Zenon DEF Store

\* Init: nothing is said, and the directory has users and channels only.
LEMMA InitTypes ==
  ASSUME Init
  PROVE  FlowTypes
<1>1. answers \in Seq(MessagesOf(Speech)) /\ shown \in Seq(ToldOf(STRING))
      /\ shown \in Seq(ToldOf(Speech))
  BY EmptySeq DEF Init
<1>2. Workspace \subseteq Users /\ Me \in Workspace /\ Listed \subseteq Channels
  BY FlowAssumption
<1>3. /\ userInfo = Workspace /\ channelInfo = Listed /\ dmInfo \subseteq userInfo
      /\ line = None /\ incoming = None /\ posted = None /\ relayed = None
      /\ event = None /\ panicked = FALSE
  BY DEF Init
<1> QED
  BY <1>1, <1>2, <1>3, Zenon DEF FlowTypes

\* Whatever is read, the types stay if the answers and the directory have theirs.
LEMMA ReadKeeps ==
  ASSUME FlowTypes, Idle, NEW l \in ClientLines, Read(l),
         userInfo \subseteq userInfo', userInfo' \subseteq Users,
         answers' \in Seq(MessagesOf(Speech)), panicked' \in BOOLEAN,
         \/ incoming' = incoming
         \/ Parsed(StringToMessage(l), "PRIVMSG")
              /\ incoming' = ParseMessage(StringToMessage(l))
  PROVE  FlowTypes'
<1>1. /\ line' = l /\ channelInfo' = channelInfo /\ dmInfo' = dmInfo /\ posted' = posted
      /\ relayed' = relayed /\ event' = event /\ shown' = shown
  BY Zenon DEF Read, channelMaps
<1>2. incoming = None
  BY DEF Idle
<1>3. l # None
  BY ReadType
<1>4. incoming' # None => /\ line' # None /\ Parsed(StringToMessage(line'), "PRIVMSG")
                          /\ incoming' = ParseMessage(StringToMessage(line'))
  BY <1>1, <1>2, <1>3, Zenon
<1>5. /\ Me \in userInfo' /\ userInfo' \subseteq Users
      /\ channelInfo' \subseteq Channels
      /\ dmInfo' \subseteq userInfo'
      /\ line' \in {None} \cup ClientLines
  BY <1>1 DEF FlowTypes
<1>6. /\ posted' \in {None} \cup [conv : Channels \cup Users, text : Texts]
      /\ relayed' \in {None} \cup MessagesOf(Speech)
      /\ shown' \in Seq(ToldOf(STRING))
      /\ event' = None \/ event'.sub \notin {"message_changed", "channel_topic"} =>
           shown' \in Seq(ToldOf(Speech))
      /\ event' \in {None} \cup SlackEvents
  BY <1>1, Zenon DEF FlowTypes
<1> QED
  BY <1>4, <1>5, <1>6, Zenon DEF FlowTypes

\* Replies, written, are messages.
LEMMA WriteType ==
  ASSUME NEW n \in Seq(NumericsOf(Speech)), Write(n)
  PROVE  answers' \in Seq(MessagesOf(Speech))
  BY RepliesType, SpeechIs DEF Write

\* No replies are a sequence of replies.
LEMMA NothingType == <<>> \in Seq(NumericsOf(Speech))
  BY EmptySeq

\* ReadMalformed keeps the types: what is answered is the error, or nothing.
LEMMA ReadMalformedTypes ==
  ASSUME FlowTypes, Idle, NEW l \in ClientLines, ReadMalformed(l, StringToMessage(l))
  PROVE  FlowTypes'
<1>1. PICK m : m = StringToMessage(l)
  OBVIOUS
<1>2. Malformed(m) /\ m.error \in NumericsOf(Speech)
  BY <1>1, ReadType DEF ReadMalformed
<1>3. PICK n \in Seq(NumericsOf(Speech)) : Write(n)
  <2>1. Write(IF m.error.code = "malformed" THEN <<>> ELSE <<m.error>>)
    BY <1>1, Zenon DEF ReadMalformed
  <2>2. <<m.error>> \in Seq(NumericsOf(Speech))
    BY <1>2, OneAtom
  <2> QED
    BY <2>1, <2>2, NothingType
<1>4. answers' \in Seq(MessagesOf(Speech))
  BY <1>3, WriteType
<1>5. Read(l) /\ userInfo' = userInfo /\ incoming' = incoming /\ panicked' = panicked
  BY Zenon DEF ReadMalformed, userMaps
<1>6. userInfo \subseteq userInfo' /\ userInfo' \subseteq Users /\ panicked' \in BOOLEAN
  BY <1>5 DEF FlowTypes
<1> QED
  BY <1>4, <1>5, <1>6, ReadKeeps

\* ReadPrivmsg keeps the types: a PRIVMSG has a target and a text, both lines.
LEMMA ReadPrivmsgTypes ==
  ASSUME FlowTypes, Idle, NEW l \in ClientLines, ReadPrivmsg(l, StringToMessage(l))
  PROVE  FlowTypes'
<1>1. /\ Read(l) /\ Write(<<>>) /\ userInfo' = userInfo /\ panicked' = panicked
      /\ Parsed(StringToMessage(l), "PRIVMSG")
      /\ incoming' = ParseMessage(StringToMessage(l))
  BY Zenon DEF ReadPrivmsg, userMaps
<1>2. answers' \in Seq(MessagesOf(Speech))
  BY <1>1, WriteType, NothingType
<1>3. userInfo \subseteq userInfo' /\ userInfo' \subseteq Users /\ panicked' \in BOOLEAN
  BY <1>1 DEF FlowTypes
<1> QED
  BY <1>1, <1>2, <1>3, ReadKeeps

\* Ping keeps the types: what is sent back is part of a line.
LEMMA PingTypes ==
  ASSUME FlowTypes, Idle, NEW l \in ClientLines, Ping(l, StringToMessage(l))
  PROVE  FlowTypes'
<1>1. PICK m : m = StringToMessage(l)
  OBVIOUS
<1>2. ~Malformed(m)
  BY <1>1, Zenon DEF Ping, Parsed
<1>3. PICK token \in Seq(Speech) : token = IF m.params = <<>> THEN <<>> ELSE m.params[1]
  <2>1. m.params # <<>> => m.params[1] \in Seq(Speech)
    BY <1>1, <1>2, ReadType
  <2> QED
    BY <2>1, EmptySeq
<1>4. PICK s \in Seq(Speech) : s = <<"server">> /\ s \in Seq(Solid(Speech)) /\ s # <<>>
  BY SpeechIs, SendersAre, SolidTexts
<1>5. PICK cmd \in Commands : cmd = "PONG"
  BY CommandsAre
<1>6. Message(s, cmd, <<s, token>>) \in MessagesOf(Speech)
  <2>1. <<s, token>> \in Seq(Seq(Speech)) /\ <<s, token>> # <<>>
    BY TwoAtoms
  <2> QED
    BY <1>4, <2>1, MessageType
<1>7. answers' = <<Message(s, cmd, <<s, token>>)>>
  BY <1>1, <1>3, <1>4, <1>5, Zenon DEF Ping
<1>8. answers' \in Seq(MessagesOf(Speech))
  BY <1>6, <1>7, OneAtom
<1>9. Read(l) /\ userInfo' = userInfo /\ incoming' = incoming /\ panicked' = panicked
  BY Zenon DEF Ping, userMaps
<1>10. userInfo \subseteq userInfo' /\ userInfo' \subseteq Users /\ panicked' \in BOOLEAN
  BY <1>9 DEF FlowTypes
<1> QED
  BY <1>8, <1>9, <1>10, ReadKeeps

\* Mode keeps the types.
LEMMA ModeTypes ==
  ASSUME FlowTypes, Idle, NEW l \in ClientLines, Mode(l, StringToMessage(l))
  PROVE  FlowTypes'
<1>1. PICK m : m = StringToMessage(l)
  OBVIOUS
<1>2. ~Malformed(m)
  BY <1>1, Zenon DEF Mode, Parsed
<1>3. PICK p : p = m.params
  OBVIOUS
<1>4. /\ Read(l) /\ userInfo' = userInfo /\ incoming' = incoming
      /\ panicked' = (p # <<>> /\ p[1] = <<>>)
      /\ Write(IF p # <<>> /\ IsTargetChannel(p[1])
               THEN <<Numeric("324", <<p[1], <<"+nt">> >>),
                      Numeric("329", <<p[1], <<"ctime">> >>)>>
               ELSE <<>>)
  BY <1>1, <1>3, Zenon DEF Mode, userMaps
<1>5. p # <<>> => <<Numeric("324", <<p[1], <<"+nt">> >>),
                    Numeric("329", <<p[1], <<"ctime">> >>)>> \in Seq(NumericsOf(Speech))
  <2>1. p # <<>> => p[1] \in Seq(Speech)
    BY <1>1, <1>2, <1>3, ReadType
  <2>2. /\ "324" \in Speech /\ "329" \in Speech
        /\ <<"+nt">> \in Seq(Speech) /\ <<"ctime">> \in Seq(Speech)
    <3>1. {"324", "329", "+nt", "ctime"} \subseteq Wording
      BY DEF Wording
    <3> QED
      BY <3>1, SpeechIs, WordingTexts, Zenon
  <2> QED
    BY <2>1, <2>2, TwoAtoms, NumericType, Zenon
<1>6. PICK n \in Seq(NumericsOf(Speech)) : Write(n)
  BY <1>4, <1>5, NothingType, Zenon
<1>7. answers' \in Seq(MessagesOf(Speech))
  BY <1>6, WriteType
<1>8. userInfo \subseteq userInfo' /\ userInfo' \subseteq Users /\ panicked' \in BOOLEAN
  BY <1>4 DEF FlowTypes
<1> QED
  BY <1>4, <1>7, <1>8, ReadKeeps

\* A topic that is told has no newline, whatever Slack has.
LEMMA TopicsAreSpeech ==
  ASSUME FlowTypes, NEW c, NEW known \in SUBSET Users
  PROVE  GetChannelTopic(c, known) \in Seq(Speech)
<1>1. \A k \in channelInfo : c = <<k>> => Showable(STRING, Topic[k])
  BY SpeechIs, WorldAssumption DEF FlowTypes, Showable
<1> QED
  BY <1>1, SpeechIs, TopicType DEF Speech

\* TopicCmd keeps the types.
LEMMA TopicCmdTypes ==
  ASSUME FlowTypes, Idle, NEW l \in ClientLines, TopicCmd(l, StringToMessage(l))
  PROVE  FlowTypes'
<1>1. PICK m : m = StringToMessage(l)
  OBVIOUS
<1>2. ~Malformed(m) /\ m.cmd = "TOPIC" /\ Read(l) /\ incoming' = incoming
  BY <1>1, Zenon DEF TopicCmd, Parsed
<1>3. PICK c \in Seq(Speech) : c = m.params[1]
  BY <1>1, <1>2, ReadType
<1>4. CASE Len(m.params) > 1
  <2>1. Write(<<>>) /\ userInfo' = userInfo /\ panicked' = panicked
    BY <1>1, <1>4, Zenon DEF TopicCmd, userMaps
  <2>2. userInfo \subseteq userInfo' /\ userInfo' \subseteq Users /\ panicked' \in BOOLEAN
    BY <2>1 DEF FlowTypes
  <2>3. answers' \in Seq(MessagesOf(Speech))
    BY <2>1, WriteType, NothingType
  <2> QED
    BY <1>2, <2>2, <2>3, ReadKeeps
<1>5. CASE ~(Len(m.params) > 1)
  <2>1. PICK known \in TopicResolved(c) :
          /\ userInfo' = known
          /\ Write(SendChannelTopic(c, GetChannelTopic(c, known), known))
          /\ panicked' = Contains(GetChannelTopic(c, known), Panic[1])
    BY <1>1, <1>3, <1>5, StoreIs, Zenon DEF TopicCmd
  <2>2. userInfo \subseteq userInfo' /\ userInfo' \subseteq Users
    BY <2>1, TopicResolvedType
  <2>3. panicked' \in BOOLEAN
    BY <2>1, Zenon DEF Contains
  <2>4. SendChannelTopic(c, GetChannelTopic(c, known), known) \in Seq(NumericsOf(Speech))
    <3>1. known \in SUBSET Users
      BY <2>1, <2>2
    <3>2. GetChannelTopic(c, known) \in Seq(Speech)
      BY <3>1, TopicsAreSpeech
    <3> QED
      BY <3>1, <3>2, SpeechIs, TopicRepliesType
  <2>5. answers' \in Seq(MessagesOf(Speech))
    BY <2>1, <2>4, WriteType
  <2> QED
    BY <1>2, <2>2, <2>3, <2>5, ReadKeeps
<1> QED
  BY <1>4, <1>5

\* Who keeps the types.
LEMMA WhoTypes ==
  ASSUME FlowTypes, Idle, NEW l \in ClientLines, Who(l, StringToMessage(l))
  PROVE  FlowTypes'
<1>1. PICK m : m = StringToMessage(l)
  OBVIOUS
<1>2. /\ ~Malformed(m) /\ Read(l) /\ incoming' = incoming /\ panicked' = panicked
  BY <1>1, Zenon DEF Who, Parsed
<1>3. panicked' \in BOOLEAN
  BY <1>2 DEF FlowTypes
<1>4. CASE m.params = <<>>
  <2>1. Write(<<>>) /\ userInfo' = userInfo
    BY <1>1, <1>4, Zenon DEF Who, userMaps
  <2>2. userInfo \subseteq userInfo' /\ userInfo' \subseteq Users
    BY <2>1 DEF FlowTypes
  <2>3. answers' \in Seq(MessagesOf(Speech))
    BY <2>1, WriteType, NothingType
  <2> QED
    BY <1>2, <1>3, <2>2, <2>3, ReadKeeps
<1>5. CASE m.params # <<>>
  <2>1. PICK told \in GetChannelUsers(m.params[1], userInfo) :
          /\ userInfo' = told.known
          /\ Write(WholistAsNumerics(told.users, Nick, m.params[1]))
    BY <1>1, <1>5, StoreIs, Zenon DEF Who
  <2>2. userInfo \in SUBSET Users
    BY DEF FlowTypes
  <2>3. userInfo \subseteq userInfo' /\ userInfo' \subseteq Users /\ told.users \in Seq(Users)
    BY <2>1, <2>2, ChannelUsersType
  <2>4. m.params[1] \in Seq(Speech)
    BY <1>1, <1>2, <1>5, ReadType
  <2>5. WholistAsNumerics(told.users, Nick, m.params[1]) \in Seq(NumericsOf(Speech))
    BY <2>3, <2>4, SpeechIs, WholistType
  <2>6. answers' \in Seq(MessagesOf(Speech))
    BY <2>1, <2>5, WriteType
  <2> QED
    BY <1>2, <1>3, <2>3, <2>6, ReadKeeps
<1> QED
  BY <1>4, <1>5

\* An error about a text.
LEMMA ErrorsType ==
  ASSUME NEW c \in Seq(Speech)
  PROVE  /\ <<ErrNoSuchNick(c)>> \in Seq(NumericsOf(Speech))
         /\ <<ErrNoSuchChannel(c)>> \in Seq(NumericsOf(Speech))
<1>1. {"401", "403", "No such nick/channel", "No such channel"} \subseteq Wording
  BY DEF Wording
<1>2. /\ "401" \in Speech /\ <<"No such nick/channel">> \in Seq(Speech)
      /\ "403" \in Speech /\ <<"No such channel">> \in Seq(Speech)
  BY <1>1, SpeechIs, WordingTexts, Zenon
<1>3. ErrNoSuchNick(c) \in NumericsOf(Speech) /\ ErrNoSuchChannel(c) \in NumericsOf(Speech)
  BY <1>2, TwoAtoms, NumericType, Zenon DEF ErrNoSuchNick, ErrNoSuchChannel
<1> QED
  BY <1>3, OneAtom

\* Whois keeps the types.
LEMMA WhoisTypes ==
  ASSUME FlowTypes, Idle, NEW l \in ClientLines, Whois(l, StringToMessage(l))
  PROVE  FlowTypes'
<1>1. PICK m : m = StringToMessage(l)
  OBVIOUS
<1>2. /\ ~Malformed(m) /\ m.cmd = "WHOIS"
      /\ Read(l) /\ userInfo' = userInfo /\ incoming' = incoming /\ panicked' = panicked
  BY <1>1, Zenon DEF Whois, Parsed, userMaps
<1>3. PICK nick \in Seq(Speech) : nick = m.params[1]
  BY <1>1, <1>2, ReadType
<1>4. PICK u : u = GetUserFromNick(nick)
  OBVIOUS
<1>5. Write(IF u = <<>> THEN <<ErrNoSuchNick(nick)>> ELSE WhoisAsNumerics(u[1], Nick))
  BY <1>1, <1>3, <1>4, Zenon DEF Whois
<1>6. u # <<>> => WhoisAsNumerics(u[1], Nick) \in Seq(NumericsOf(Speech))
  <2>1. u # <<>> => u[1] \in Users
    BY <1>4, UserFromNickType DEF FlowTypes
  <2> QED
    BY <2>1, SpeechIs, WhoisType
<1>7. PICK n \in Seq(NumericsOf(Speech)) : Write(n)
  BY <1>5, <1>6, ErrorsType
<1>8. answers' \in Seq(MessagesOf(Speech))
  BY <1>7, WriteType
<1>9. userInfo \subseteq userInfo' /\ userInfo' \subseteq Users /\ panicked' \in BOOLEAN
  BY <1>2 DEF FlowTypes
<1> QED
  BY <1>2, <1>8, <1>9, ReadKeeps

\* The replies of a JOIN, after the JOIN itself.
JoinReplies(c, topic, known, users) ==
  (IF topic = <<>> THEN <<>> ELSE SendChannelTopic(c, topic, known))
    \o NamelistAsNumerics(users, Nick, c, NamesLimit)

\* A JOIN is answered with replies.
LEMMA JoinRepliesType ==
  ASSUME NEW c \in Seq(Speech), NEW topic \in Seq(Speech), NEW known \in SUBSET Users,
         NEW users \in Seq(Users)
  PROVE  JoinReplies(c, topic, known, users) \in Seq(NumericsOf(Speech))
<1>1. (IF topic = <<>> THEN <<>> ELSE SendChannelTopic(c, topic, known))
        \in Seq(NumericsOf(Speech))
  BY SpeechIs, TopicRepliesType, NothingType
<1>2. NamelistAsNumerics(users, Nick, c, NamesLimit) \in Seq(NumericsOf(Speech))
  BY SpeechIs, NamelistType
<1> QED
  BY <1>1, <1>2, ConcatProperties DEF JoinReplies

\* What joining c does when those known, and those told of, are known.
Joined(c, known, told) ==
  LET replies == JoinReplies(c, GetChannelTopic(c, known), known, told.users)
  IN /\ Store(told.known)
     /\ answers' = <<Message(<<Me>>, "JOIN", <<c>>)>>
                     \o [i \in DOMAIN replies |-> Reply(replies[i], Nick[Me])]
     /\ panicked' = Contains(GetChannelTopic(c, known), Panic[1])

\* JOIN of a channel there is.
LEMMA JoinCmdIs ==
  ASSUME NEW l, NEW m, JoinCmd(l, m), NEW c, c = m.params[1], ChannelExists(c)
  PROVE  \E known \in TopicResolved(c) : \E told \in GetChannelUsers(c, known) :
           Joined(c, known, told)
  BY ZenonT(60) DEF JoinCmd, Joined, JoinReplies

\* JoinCmd keeps the types.
LEMMA JoinCmdTypes ==
  ASSUME FlowTypes, Idle, NEW l \in ClientLines, JoinCmd(l, StringToMessage(l))
  PROVE  FlowTypes'
<1>1. PICK m : m = StringToMessage(l)
  OBVIOUS
<1>2. ~Malformed(m) /\ m.cmd = "JOIN" /\ Read(l) /\ incoming' = incoming
  BY <1>1, Zenon DEF JoinCmd, Parsed
<1>3. PICK c \in Seq(Speech) : c = m.params[1]
  BY <1>1, <1>2, ReadType
<1>4. CASE ~ChannelExists(c)
  <2>1. Write(<<ErrNoSuchChannel(c)>>) /\ userInfo' = userInfo /\ panicked' = panicked
    BY <1>1, <1>3, <1>4, Zenon DEF JoinCmd, userMaps
  <2>2. userInfo \subseteq userInfo' /\ userInfo' \subseteq Users /\ panicked' \in BOOLEAN
    BY <2>1 DEF FlowTypes
  <2>3. answers' \in Seq(MessagesOf(Speech))
    BY <2>1, WriteType, ErrorsType
  <2> QED
    BY <1>2, <2>2, <2>3, ReadKeeps
<1>5. CASE ChannelExists(c)
  <2> DEFINE topic(k) == GetChannelTopic(c, k)
  <2>0. PICK known \in TopicResolved(c) : \E told \in GetChannelUsers(c, known) :
          Joined(c, known, told)
    BY <1>1, <1>3, <1>5, JoinCmdIs
  <2>1. PICK told \in GetChannelUsers(c, known) : Joined(c, known, told)
    BY <2>0
  <2> DEFINE replies == JoinReplies(c, topic(known), known, told.users)
  <2>2. /\ userInfo' = told.known
        /\ answers' = <<Message(<<Me>>, "JOIN", <<c>>)>>
                        \o [i \in DOMAIN replies |-> Reply(replies[i], Nick[Me])]
        /\ panicked' = Contains(topic(known), Panic[1])
    BY <2>1, StoreIs, Zenon DEF Joined
  <2>3. userInfo \subseteq known /\ known \in SUBSET Users
    BY TopicResolvedType
  <2>4. known \subseteq told.known /\ told.known \subseteq Users /\ told.users \in Seq(Users)
    BY <2>3, ChannelUsersType
  <2>5. panicked' \in BOOLEAN
    BY <2>2, Zenon DEF Contains
  <2>6. [i \in DOMAIN replies |-> Reply(replies[i], Nick[Me])] \in Seq(MessagesOf(Speech))
    <3>1. topic(known) \in Seq(Speech)
      BY <2>3, TopicsAreSpeech
    <3>2. replies \in Seq(NumericsOf(Speech))
      BY <2>2, <2>3, <2>4, <3>1, JoinRepliesType
    <3> QED
      BY <3>2, SpeechIs, RepliesType
  <2>7. Message(<<Me>>, "JOIN", <<c>>) \in MessagesOf(Speech)
    <3>1. "JOIN" \in Commands /\ "JOIN" # ""
      BY CommandsAre
    <3>2. <<Me>> \in Seq(Solid(Speech))
      BY SpeechIs, SendersAre, FlowAssumption
    <3>3. <<c>> \in Seq(Seq(Speech)) /\ <<c>> # <<>>
      BY OneAtom
    <3> QED
      BY <3>1, <3>2, <3>3, MessageType
  <2>8. answers' \in Seq(MessagesOf(Speech))
    BY <2>2, <2>6, <2>7, OneAtom, ConcatProperties
  <2>9. userInfo \subseteq userInfo' /\ userInfo' \subseteq Users
    BY <2>2, <2>3, <2>4
  <2> QED
    BY <1>2, <2>5, <2>8, <2>9, ReadKeeps
<1> QED
  BY <1>4, <1>5

\* Welcome keeps the types: the code's own words and the configured MOTD.
LEMMA WelcomeTypes ==
  ASSUME FlowTypes, Idle, Welcome
  PROVE  FlowTypes'
<1> DEFINE n == <<Numeric("001", << <<"Welcome", " ", "to tanya">> >>),
                  Numeric("002", << <<"Your host", " ", "is tanya">> >>),
                  Numeric("005", << <<"MAP">>, <<"are supported", " ", "by this server">> >>),
                  Numeric("005", << <<"NICKLEN=32">>,
                                    <<"are supported", " ", "by this server">> >>)>>
<1>1. {"001", "002", "005", "Welcome", "to tanya", "Your host", "is tanya", "MAP",
       "NICKLEN=32", "are supported", "by this server"} \subseteq Wording
  BY DEF Wording
<1>2. /\ "001" \in Speech /\ "002" \in Speech /\ "005" \in Speech
      /\ <<"Welcome", " ", "to tanya">> \in Seq(Speech)
      /\ <<"Your host", " ", "is tanya">> \in Seq(Speech)
      /\ <<"MAP">> \in Seq(Speech) /\ <<"NICKLEN=32">> \in Seq(Speech)
      /\ <<"are supported", " ", "by this server">> \in Seq(Speech)
  BY <1>1, SpeechIs, WordingTexts, Zenon
<1>3. /\ Numeric("001", << <<"Welcome", " ", "to tanya">> >>) \in NumericsOf(Speech)
      /\ Numeric("002", << <<"Your host", " ", "is tanya">> >>) \in NumericsOf(Speech)
      /\ Numeric("005", << <<"MAP">>, <<"are supported", " ", "by this server">> >>)
           \in NumericsOf(Speech)
      /\ Numeric("005", << <<"NICKLEN=32">>, <<"are supported", " ", "by this server">> >>)
           \in NumericsOf(Speech)
  BY <1>2, OneAtom, TwoAtoms, NumericType, Zenon
<1>4. n \in Seq(NumericsOf(Speech))
  BY <1>3, FiveAtoms, Zenon
<1>5. MOTDAsNumerics(Motd) \in Seq(NumericsOf(Speech))
  BY SpeechIs, MOTDType
<1>6. Write(n \o MOTDAsNumerics(Motd))
  BY Zenon DEF Welcome
<1> HIDE DEF n
<1>7. n \o MOTDAsNumerics(Motd) \in Seq(NumericsOf(Speech))
  BY <1>4, <1>5, ConcatProperties
<1>8. answers' \in Seq(MessagesOf(Speech))
  BY <1>6, <1>7, WriteType
<1>9. UNCHANGED <<userInfo, channelInfo, dmInfo, line, incoming, posted, relayed, event,
                  shown, panicked>>
  BY Zenon DEF Welcome, userMaps, channelMaps
<1> QED
  BY <1>8, <1>9, Zenon DEF FlowTypes

\* ReadStale keeps the types: the process is gone.
LEMMA ReadStaleTypes ==
  ASSUME FlowTypes, Idle, NEW l \in ClientLines, ReadStale(l, StringToMessage(l))
  PROVE  FlowTypes'
<1>1. /\ Read(l) /\ userInfo' = userInfo /\ incoming' = incoming /\ answers' = answers
      /\ panicked' = TRUE
  BY Zenon DEF ReadStale, userMaps
<1>2. userInfo \subseteq userInfo' /\ userInfo' \subseteq Users /\ panicked' \in BOOLEAN
      /\ answers' \in Seq(MessagesOf(Speech))
  BY <1>1 DEF FlowTypes
<1> QED
  BY <1>1, <1>2, ReadKeeps

\* What is to be routed is a PRIVMSG of one line.
LEMMA IncomingIs ==
  ASSUME FlowTypes, incoming # None
  PROVE  \E pre \in Seq(Solid(Speech)), target \in Seq(Speech), text \in Seq(Speech) :
           /\ incoming = Privmsg(pre, target, text)
           /\ pre # <<>> => Contains(pre, "!")
<1>1. PICK m : m = StringToMessage(line)
  OBVIOUS
<1>2. /\ line \in ClientLines /\ ~Malformed(m) /\ m.cmd = "PRIVMSG"
      /\ incoming = ParseMessage(m)
  BY <1>1 DEF FlowTypes, Parsed
<1>3. /\ m \in RequestsOf(Speech) /\ m.prefix \in Seq(Solid(Speech))
      /\ m.params[1] \in Seq(Speech)
      /\ Len(m.params) > 1 => m.params[2] \in Seq(Speech)
  BY <1>1, <1>2, ReadType DEF RequestsOf
<1>4. PICK text \in Seq(Speech) :
        text = IF Len(m.params) > 1 THEN m.params[2] ELSE <<>>
  BY <1>3, EmptySeq
<1>5. PICK pre \in Seq(Solid(Speech)) :
        pre = UserString(m.prefix) /\ (pre # <<>> => Contains(pre, "!"))
  BY <1>3, EmptySeq, Zenon DEF UserString
<1>6. incoming = Privmsg(pre, m.params[1], text)
  BY <1>2, <1>4, <1>5, Zenon DEF ParseMessage
<1> QED
  BY <1>3, <1>5, <1>6

\* The parts of a PRIVMSG.
LEMMA PrivmsgParts ==
  ASSUME NEW m, NEW pre, NEW target, NEW text, m = Privmsg(pre, target, text)
  PROVE  m.prefix = pre /\ m.params[1] = target /\ m.params[2] = text
  BY DEF Privmsg, Message

\* The other clients are told the message, the message from the user, or his own
\* DM with a mark.
LEMMA PostProcessIs ==
  ASSUME NEW m, NEW pre, NEW target, NEW text, m = Privmsg(pre, target, text)
  PROVE  PostProcessClientMessage(m) =
           IF pre # <<>> THEN m
           ELSE IF IsTargetChannel(target) THEN Privmsg(<<Me>>, target, text)
           ELSE Privmsg(GetUserFromNick(target), Nick[Me], Mark \o text)
<1>1. m.prefix = pre /\ m.params[1] = target /\ m.params[2] = text
  BY PrivmsgParts
<1> QED
  BY <1>1, Zenon DEF PostProcessClientMessage, IsFromSelf

\* What is relayed is a message on one line.
LEMMA PostProcessType ==
  ASSUME FlowTypes, incoming # None
  PROVE  PostProcessClientMessage(incoming) \in MessagesOf(Speech)
<1>1. PICK pre \in Seq(Solid(Speech)), target \in Seq(Speech), text \in Seq(Speech) : incoming = Privmsg(pre, target, text)
  BY IncomingIs
<1>2. Privmsg(pre, target, text) \in MessagesOf(Speech)
  BY TellingType
<1>3. Privmsg(<<Me>>, target, text) \in MessagesOf(Speech)
  <2>1. <<Me>> \in Seq(Solid(Speech))
    BY SpeechIs, SendersAre, FlowAssumption
  <2> QED
    BY <2>1, TellingType
<1>4. Privmsg(GetUserFromNick(target), Nick[Me], Mark \o text) \in MessagesOf(Speech)
  <2>1. GetUserFromNick(target) \in Seq(Solid(Speech))
    <3>1. ASSUME NEW u \in userInfo
          PROVE  <<u>> \in Seq(Solid(Speech))
      BY SpeechIs, SendersAre DEF FlowTypes
    <3> QED
      BY <3>1, UserFromNickType, EmptySeq
  <2>2. Nick[Me] \in Seq(Speech)
    BY SpeechIs, FlowAssumption, NickType
  <2>3. Mark \o text \in Seq(Speech)
    BY SpeechIs, MarkType, ConcatProperties
  <2> QED
    BY <2>1, <2>2, <2>3, TellingType
<1> QED
  BY <1>1, <1>2, <1>3, <1>4, PostProcessIs

\* Routing keeps the types if what is posted, the DMs and what is shown have theirs.
LEMMA RouteKeeps ==
  ASSUME FlowTypes, Route, dmInfo \subseteq dmInfo', dmInfo' \subseteq userInfo,
         posted' \in {posted} \cup [conv : Channels \cup Users, text : Texts],
         shown' = shown \/ shown' \in Seq(ToldOf(Speech)), panicked' \in BOOLEAN
  PROVE  FlowTypes'
<1>1. /\ incoming # None /\ incoming' = None
      /\ relayed' = PostProcessClientMessage(incoming)
      /\ userInfo' = userInfo /\ channelInfo' = channelInfo /\ line' = line
      /\ answers' = answers /\ event' = event
  BY Zenon DEF Route, userMaps, channelMaps
<1>2. relayed' \in MessagesOf(Speech)
  BY <1>1, PostProcessType
<1>3. /\ shown' \in Seq(ToldOf(STRING))
      /\ event' = None \/ event'.sub \notin {"message_changed", "channel_topic"} =>
           shown' \in Seq(ToldOf(Speech))
  <2>1. Seq(ToldOf(Speech)) \subseteq Seq(ToldOf(STRING))
    BY SpeechIs, SeqMonotonic
  <2> QED
    BY <1>1, <2>1, Zenon DEF FlowTypes
<1>4. posted' \in {None} \cup [conv : Channels \cup Users, text : Texts]
  BY Zenon DEF FlowTypes
<1> QED
  BY <1>1, <1>2, <1>3, <1>4 DEF FlowTypes

\* What the gateway itself says.
LEMMA NoticeType ==
  ASSUME NEW w \in {"failed to send message", "connected to slack!"}
  PROVE  <<Privmsg(<<"*tanya">>, Nick[Me], <<w>>)>> \in Seq(ToldOf(Speech))
<1>1. w \in Wording /\ "*tanya" \in Wording
  <2>1. {"failed to send message", "connected to slack!", "*tanya"} \subseteq Wording
    BY ZenonT(60) DEF Wording
  <2> QED
    BY <2>1, Zenon
<1>2. <<w>> \in Seq(Speech) /\ <<"*tanya">> \in Seq(Solid(Speech))
  BY <1>1, SpeechIs, WordingTexts, SendersAre
<1>3. Nick[Me] \in Seq(Speech)
  BY SpeechIs, FlowAssumption, NickType
<1> QED
  BY <1>2, <1>3, PrivmsgType, OneAtom

\* A message goes to a channel or to a user that is known.
LEMMA ConversationsAre ==
  ASSUME FlowTypes, NEW conv \in Conversations
  PROVE  /\ conv \in Channels \cup Users
         /\ IsDmChannel(conv) => conv \in userInfo
<1>1. CASE conv \in userInfo
  BY <1>1 DEF FlowTypes
<1>2. CASE conv \in channelInfo
  BY <1>2, WorldAssumption DEF FlowTypes, IsDmChannel
<1> QED
  BY <1>1, <1>2 DEF Conversations

\* SendNothing keeps the types.
LEMMA SendNothingTypes ==
  ASSUME FlowTypes, SendNothing
  PROVE  FlowTypes'
<1>1. Route /\ dmInfo' = dmInfo /\ posted' = posted /\ shown' = shown /\ panicked' = panicked
  BY Zenon DEF SendNothing
<1>2. dmInfo \subseteq userInfo /\ panicked' \in BOOLEAN
  BY <1>1 DEF FlowTypes
<1> QED
  BY <1>1, <1>2, RouteKeeps

\* SendToNoChannel and SendStale keep the types.
LEMMA SendToNoChannelTypes ==
  ASSUME FlowTypes, SendToNoChannel \/ SendStale
  PROVE  FlowTypes'
<1>1. panicked' = TRUE /\ UNCHANGED <<userMaps, channelMaps, dmInfo, client, event, shown>>
  BY Zenon DEF SendToNoChannel, SendStale
<1> QED
  BY <1>1, Zenon DEF FlowTypes, userMaps, channelMaps, client

\* RegenerateReverseMappings keeps the types.
LEMMA RegenerateTypes ==
  ASSUME FlowTypes, RegenerateReverseMappings
  PROVE  FlowTypes'
<1>1. UNCHANGED <<userInfo, channelInfo, dmInfo, client, event, shown, panicked>>
  BY Zenon DEF RegenerateReverseMappings
<1> QED
  BY <1>1, Zenon DEF FlowTypes, client

\* SendPrivmsg keeps the types: what is posted is a text, and a DM that is
\* opened is with a user who is known.
LEMMA SendPrivmsgTypes ==
  ASSUME FlowTypes, SendPrivmsg
  PROVE  FlowTypes'
<1>1. PICK conv \in Conversations :
        /\ \E text \in UnparseMessageText(incoming.params[2], Owner) :
             posted' = [conv |-> conv, text |-> text]
        /\ dmInfo' = IF IsDmChannel(conv) THEN dmInfo \cup {conv} ELSE dmInfo
  BY Zenon DEF SendPrivmsg
<1>2. PICK text \in UnparseMessageText(incoming.params[2], Owner) :
        posted' = [conv |-> conv, text |-> text]
  BY <1>1
<1>3. Route /\ shown' = shown /\ panicked' = panicked /\ incoming # None
  BY Zenon DEF SendPrivmsg, Route
<1>4. conv \in Channels \cup Users /\ (IsDmChannel(conv) => conv \in userInfo)
  BY ConversationsAre
<1>5. dmInfo \subseteq dmInfo' /\ dmInfo' \subseteq userInfo /\ panicked' \in BOOLEAN
  BY <1>1, <1>3, <1>4 DEF FlowTypes
<1>6. text \in Texts
  <2>1. incoming.params[2] \in Seq(Speech)
    BY <1>3, IncomingIs, PrivmsgParts
  <2>2. Speech \subseteq STRING
    BY DEF Speech
  <2>3. incoming.params[2] \in Seq(STRING)
    BY <2>1, <2>2, SeqMonotonic
  <2>4. OwnersAre(Users, Owner)
    BY OwnerType DEF FlowTypes, OwnersAre
  <2>5. ~MentionIsStale(incoming.params[2], Owner)
    BY Zenon DEF SendPrivmsg
  <2> QED
    BY <1>2, <2>3, <2>4, <2>5, SpeechIs, UnparseType DEF Texts
<1>7. posted' \in [conv : Channels \cup Users, text : Texts]
  BY <1>2, <1>4, <1>6
<1> QED
  BY <1>3, <1>5, <1>7, RouteKeeps

\* SendFails keeps the types.
LEMMA SendFailsTypes ==
  ASSUME FlowTypes, SendFails
  PROVE  FlowTypes'
<1>1. PICK conv \in Conversations :
        \/ dmInfo' = dmInfo
        \/ dmInfo' = IF IsDmChannel(conv) THEN dmInfo \cup {conv} ELSE dmInfo
  BY Zenon DEF SendFails
<1>2. /\ Route /\ posted' = posted /\ panicked' = panicked
      /\ shown' = <<Privmsg(<<"*tanya">>, Nick[Me], <<"failed to send message">>)>>
  BY Zenon DEF SendFails
<1>3. IsDmChannel(conv) => conv \in userInfo
  BY ConversationsAre
<1>4. dmInfo \subseteq dmInfo' /\ dmInfo' \subseteq userInfo /\ panicked' \in BOOLEAN
  BY <1>1, <1>2, <1>3 DEF FlowTypes
<1>5. shown' \in Seq(ToldOf(Speech))
  BY <1>2, NoticeType
<1> QED
  BY <1>2, <1>4, <1>5, RouteKeeps

\* Forget keeps the types.
LEMMA ForgetTypes ==
  ASSUME FlowTypes, Forget
  PROVE  FlowTypes'
<1>1. /\ line' = None /\ posted' = None /\ relayed' = None /\ answers' = <<>>
      /\ event' = None /\ shown' = <<>> /\ incoming' = None /\ incoming = None
      /\ UNCHANGED <<userInfo, channelInfo, dmInfo, panicked>>
  BY Zenon DEF Forget, userMaps, channelMaps
<1>2. <<>> \in Seq(MessagesOf(Speech)) /\ <<>> \in Seq(ToldOf(Speech))
      /\ <<>> \in Seq(ToldOf(STRING))
  BY EmptySeq
<1> QED
  BY <1>1, <1>2, Zenon DEF FlowTypes

\* An event keeps the types if the directory and what is shown have theirs.
LEMMA DeliverKeeps ==
  ASSUME FlowTypes, NEW e \in {None} \cup SlackEvents, Deliver(e),
         userInfo \subseteq userInfo', userInfo' \subseteq Users,
         channelInfo' \subseteq Channels, dmInfo' \subseteq userInfo',
         shown' \in Seq(ToldOf(STRING)), panicked' \in BOOLEAN,
         e = None \/ e.sub \notin {"message_changed", "channel_topic"} =>
           shown' \in Seq(ToldOf(Speech))
  PROVE  FlowTypes'
<1>1. event' = e /\ UNCHANGED client
  BY Zenon DEF Deliver
<1>2. Me \in userInfo'
  BY DEF FlowTypes
<1> QED
  BY <1>1, <1>2, Zenon DEF FlowTypes, client

\* Nothing shown, or what has one line.
LEMMA OneLineShown ==
  ASSUME NEW s \in Seq(ToldOf(Speech))
  PROVE  s \in Seq(ToldOf(STRING))
  BY SpeechIs, SeqMonotonic

\* HandleUnresolvedSender keeps the types.
LEMMA UnresolvedSenderTypes ==
  ASSUME FlowTypes, NEW e \in SlackEvents, HandleUnresolvedSender(e)
  PROVE  FlowTypes'
<1>1. /\ Deliver(e) /\ shown' = <<>> /\ panicked' = panicked
      /\ UNCHANGED <<userInfo, channelInfo, dmInfo>>
  BY Zenon DEF HandleUnresolvedSender, Drop, userMaps, channelMaps
<1>2. shown' \in Seq(ToldOf(Speech)) /\ shown' \in Seq(ToldOf(STRING))
  BY <1>1, EmptySeq
<1>3. /\ userInfo \subseteq userInfo' /\ userInfo' \subseteq Users /\ channelInfo' \subseteq Channels
      /\ dmInfo' \subseteq userInfo' /\ panicked' \in BOOLEAN
  BY <1>1 DEF FlowTypes
<1> QED
  BY <1>1, <1>2, <1>3, DeliverKeeps

\* HandleUnresolvedConversation keeps the types: the DMs stored are with users
\* who are known.
LEMMA UnresolvedConversationTypes ==
  ASSUME FlowTypes, NEW e \in SlackEvents, HandleUnresolvedConversation(e)
  PROVE  FlowTypes'
<1>1. /\ Deliver(e) /\ shown' = <<>> /\ panicked' = panicked /\ channelInfo' = channelInfo
      /\ userInfo' = userInfo \cup Sender(e)
      /\ dmInfo' = dmInfo \/ \E listed \in SUBSET Users : dmInfo' = ListDMs(listed)
  BY StoreIs, Zenon DEF HandleUnresolvedConversation, Drop, channelMaps
<1>2. shown' \in Seq(ToldOf(Speech)) /\ shown' \in Seq(ToldOf(STRING))
  BY <1>1, EmptySeq
<1>3. dmInfo' \subseteq userInfo
  BY <1>1 DEF FlowTypes, ListDMs
<1>4. /\ userInfo \subseteq userInfo' /\ userInfo' \subseteq Users /\ channelInfo' \subseteq Channels
      /\ dmInfo' \subseteq userInfo' /\ panicked' \in BOOLEAN
  BY <1>1, <1>3 DEF FlowTypes, Sender
<1> QED
  BY <1>1, <1>2, <1>4, DeliverKeeps

\* Those an event resolves are users.
LEMMA EventUsersType ==
  ASSUME NEW e \in SlackEvents
  PROVE  EventUsers(e) \subseteq Users
<1>1. e.link \in Users \cup {None}
  BY WorldAssumption
<1>2. \A T : UNION {Resolved(t) : t \in T} \subseteq Users
  BY ResolvedType
<1>3. Resolved(e.fallbacks[1]) \subseteq Users
  BY ResolvedType
<1>4. (IF e.link = None THEN {} ELSE {e.link} \cup Resolved(e.fallbacks[1])) \subseteq Users
  BY <1>1, <1>3
<1> QED
  BY <1>2, <1>4 DEF EventUsers

\* HandleMessageEvent keeps the types: each line of the texts is a message.
LEMMA MessageEventTypes ==
  ASSUME FlowTypes, NEW e \in SlackEvents, HandleMessageEvent(e)
  PROVE  FlowTypes'
<1>1. /\ Deliver(e)
      /\ \/ channelInfo' = channelInfo
         \/ channelInfo' = channelInfo \cup {e.conv} /\ ~IsDmChannel(e.conv)
      /\ dmInfo' = dmInfo \/ \E listed \in SUBSET Users : dmInfo' = ListDMs(listed)
  BY Zenon DEF HandleMessageEvent, ResolveDMToUser, StoreChannel, channelMaps
<1>2. PICK known \in Answered(userInfo \cup Sender(e), EventUsers(e)) :
        /\ userInfo' = known
        /\ panicked' = (\E i \in DOMAIN EventMessages(e, known) :
                          Contains(EventMessages(e, known)[i].params[2], Panic[1]))
        /\ shown' = IF panicked' THEN <<>> ELSE EventMessages(e, known)
  BY StoreIs, Zenon DEF HandleMessageEvent
<1>3. userInfo \subseteq known /\ known \in SUBSET Users
  <2>1. userInfo \cup Sender(e) \in SUBSET Users
    BY DEF FlowTypes, Sender
  <2>2. EventUsers(e) \in SUBSET Users
    BY EventUsersType
  <2> QED
    BY <1>2, <2>1, <2>2, AnsweredType
<1>4. ShowableEvent(STRING, e)
  <2>1. e.text \in Seq(Atoms) /\ e.fallbacks \in Seq(Seq(Atoms))
    BY WorldAssumption
  <2>2. \A t \in ToSet(e.fallbacks) : t \in Seq(Atoms)
    BY <2>1, LenProperties, ElementOfSeq DEF ToSet
  <2> QED
    BY <2>1, <2>2, SpeechIs DEF ShowableEvent, Showable
<1>5. /\ EventMessages(e, known) \in Seq(ToldOf(STRING))
      /\ e.sub \notin {"message_changed", "channel_topic"} =>
           EventMessages(e, known) \in Seq(ToldOf(Speech))
  BY <1>3, <1>4, SpeechIs, EventMessagesType DEF Speech
<1>6. /\ shown' \in Seq(ToldOf(STRING))
      /\ e.sub \notin {"message_changed", "channel_topic"} =>
           shown' \in Seq(ToldOf(Speech))
  <2>1. <<>> \in Seq(ToldOf(Speech)) /\ <<>> \in Seq(ToldOf(STRING))
    BY EmptySeq
  <2> QED
    BY <1>2, <1>5, <2>1, Zenon
<1>7. panicked' \in BOOLEAN
  BY <1>2, Zenon
<1>8. dmInfo' \subseteq userInfo
  BY <1>1 DEF FlowTypes, ListDMs
<1>9. /\ userInfo \subseteq userInfo' /\ userInfo' \subseteq Users /\ channelInfo' \subseteq Channels
      /\ dmInfo' \subseteq userInfo'
  <2>1. e.conv \in Channels \cup Users
    BY WorldAssumption
  <2> QED
    BY <1>1, <1>2, <1>3, <1>8, <2>1 DEF FlowTypes, IsDmChannel
<1>10. e # None
  BY WorldAssumption
<1> QED
  BY <1>1, <1>6, <1>7, <1>9, <1>10, DeliverKeeps

\* FileShared keeps the types.
LEMMA FileSharedTypes ==
  ASSUME FlowTypes, NEW u \in Users, NEW c \in Channels, FileShared(u, c)
  PROVE  FlowTypes'
<1> DEFINE told == Privmsg(<<u>>, <<c>>, Decode(<<"@">> \o Nick[u] \o <<" ", "shared">>))
<1>1. /\ Deliver(None) /\ dmInfo' = dmInfo
      /\ (channelInfo' = channelInfo \/ channelInfo' = channelInfo \cup {c})
      /\ (userInfo' = userInfo \/ userInfo' = userInfo \cup {u})
      /\ panicked' = panicked /\ (shown' = <<>> \/ shown' = <<told>>)
  BY StoreIs, Zenon DEF FileShared, Drop, StoreChannel, userMaps, channelMaps
<1>2. told \in ToldOf(Speech)
  <2>1. u \in Speech /\ c \in Speech /\ "@" \in Speech /\ " " \in Speech
        /\ Nick[u] \in Seq(Speech)
    BY SpeechIs, AlphabetHas, NickType
  <2>2. "shared" \in Speech
    <3>1. "shared" \in Wording
      BY DEF Wording
    <3> QED
      BY <3>1, SpeechIs, AlphabetHas
  <2>3. <<u>> \in Seq(Solid(Speech)) /\ <<c>> \in Seq(Speech)
    BY <2>1, OneAtom, SpeechIs, SendersAre
  <2>4. <<"@">> \in Seq(Speech) /\ <<" ", "shared">> \in Seq(Speech)
    BY <2>1, <2>2, OneAtom, TwoAtoms
  <2>5. <<"@">> \o Nick[u] \o <<" ", "shared">> \in Seq(Speech)
    BY <2>1, <2>4, ConcatProperties
  <2>6. Decode(<<"@">> \o Nick[u] \o <<" ", "shared">>) \in Seq(Speech)
    BY <2>5, SpeechIs, DecodeType
  <2> QED
    BY <2>3, <2>6, PrivmsgType
<1>3. shown' \in Seq(ToldOf(Speech))
  <2> HIDE DEF told
  <2> QED
    BY <1>1, <1>2, OneAtom, EmptySeq
<1>4. shown' \in Seq(ToldOf(STRING))
  BY <1>3, OneLineShown
<1>5. /\ userInfo \subseteq userInfo' /\ userInfo' \subseteq Users /\ channelInfo' \subseteq Channels
      /\ dmInfo' \subseteq userInfo' /\ panicked' \in BOOLEAN
  BY <1>1 DEF FlowTypes
<1> QED
  BY <1>1, <1>3, <1>4, <1>5, DeliverKeeps

\* Notice keeps the types.
LEMMA NoticeTypes ==
  ASSUME FlowTypes, Notice
  PROVE  FlowTypes'
<1>1. /\ Deliver(None) /\ UNCHANGED <<userInfo, channelInfo, dmInfo>> /\ panicked' = panicked
      /\ shown' = <<Privmsg(<<"*tanya">>, Nick[Me], <<"connected to slack!">>)>>
  BY Zenon DEF Notice, userMaps, channelMaps
<1>2. shown' \in Seq(ToldOf(Speech))
  BY <1>1, NoticeType
<1>3. shown' \in Seq(ToldOf(STRING))
  BY <1>2, OneLineShown
<1>4. /\ userInfo \subseteq userInfo' /\ userInfo' \subseteq Users /\ channelInfo' \subseteq Channels
      /\ dmInfo' \subseteq userInfo' /\ panicked' \in BOOLEAN
  BY <1>1 DEF FlowTypes
<1> QED
  BY <1>1, <1>2, <1>3, <1>4, DeliverKeeps

\* What a line makes the client do.
Command(l, m) ==
  \/ ReadStale(l, m) \/ ReadMalformed(l, m) \/ ReadPrivmsg(l, m) \/ Ping(l, m) \/ Mode(l, m)
  \/ TopicCmd(l, m) \/ Who(l, m) \/ Whois(l, m) \/ JoinCmd(l, m)

\* What an event of Slack makes the gateway do.
Event(e) ==
  HandleUnresolvedSender(e) \/ HandleUnresolvedConversation(e) \/ HandleMessageEvent(e)

\* The steps, one by one.
LEMMA NextIs ==
  ASSUME Next
  PROVE  \/ Idle /\ \E l \in ClientLines : Command(l, StringToMessage(l))
         \/ Idle /\ Welcome
         \/ Idle /\ Notice
         \/ RegenerateReverseMappings
         \/ SendNothing \/ SendToNoChannel \/ SendStale \/ SendPrivmsg \/ SendFails
         \/ Idle /\ \E e \in SlackEvents : Event(e)
         \/ Idle /\ \E u \in Users, c \in Channels : FileShared(u, c)
         \/ Forget
  BY Zenon DEF Next, Command, Event

\* Every step keeps the types.
LEMMA NextTypes ==
  ASSUME FlowTypes, [Next]_vars
  PROVE  FlowTypes'
<1>1. ASSUME NEW l \in ClientLines, Idle, Command(l, StringToMessage(l))
      PROVE  FlowTypes'
  <2>1. PICK m : m = StringToMessage(l)
    OBVIOUS
  <2>2. Command(l, m)
    BY <1>1, <2>1
  <2> QED
    BY <1>1, <2>1, <2>2, Zenon, ReadStaleTypes, ReadMalformedTypes, ReadPrivmsgTypes, PingTypes, ModeTypes,
       TopicCmdTypes, WhoTypes, WhoisTypes, JoinCmdTypes DEF Command
<1>2. ASSUME NEW e \in SlackEvents, Event(e)
      PROVE  FlowTypes'
  BY <1>2, Zenon, UnresolvedSenderTypes, UnresolvedConversationTypes, MessageEventTypes
     DEF Event
<1>3. CASE UNCHANGED vars
  BY <1>3, Zenon DEF FlowTypes, vars, userMaps, channelMaps, client
<1> QED
  BY <1>1, <1>2, <1>3, NextIs, Zenon, WelcomeTypes, NoticeTypes, RegenerateTypes,
     SendNothingTypes, SendToNoChannelTypes, SendPrivmsgTypes, SendFailsTypes, FileSharedTypes, ForgetTypes

\* What is on its way has the type the steps of MessageFlow rely on, whatever is
\* said and whatever Slack answers: FlowTypes is an invariant.
THEOREM FlowTypesInvariant == Spec => []FlowTypes
<1>1. Init => FlowTypes
  BY InitTypes
<1>2. FlowTypes /\ [Next]_vars => FlowTypes'
  BY NextTypes
<1> QED
  BY <1>1, <1>2, PTL DEF Spec

\* The inverse maps: what they lead to, and that a directory whose maps have been
\* regenerated has every channel under its own name.
MapTypes ==
  /\ nickToUserMap \in [DOMAIN nickToUserMap -> Users]
  /\ channelNameToIDMap \in [DOMAIN channelNameToIDMap -> Channels]
  /\ reloading \in BOOLEAN
  /\ ~reloading => \A c \in DOMAIN channelNameToIDMap : channelNameToIDMap[c] = c

\* A map written over another, entry by entry.
LEMMA WrittenOver ==
  ASSUME NEW R, NEW D, NEW f \in [D -> R], NEW E, NEW g \in [E -> R]
  PROVE  [n \in D \cup E |-> IF n \in E THEN g[n] ELSE f[n]] \in [D \cup E -> R]
  OBVIOUS

\* Store keeps the type of nickToUserMap.
LEMMA StoreTypes ==
  ASSUME MapTypes, NEW known \in SUBSET Users, Store(known)
  PROVE  nickToUserMap' \in [DOMAIN nickToUserMap' -> Users]
<1>1. PICK found \in Inverses(known \ userInfo) :
        nickToUserMap' =
          [n \in DOMAIN nickToUserMap \cup DOMAIN found |->
             IF n \in DOMAIN found THEN found[n] ELSE nickToUserMap[n]]
  BY Zenon DEF Store
<1>2. found \in [DOMAIN found -> Users]
  BY DEF Inverses
<1>3. nickToUserMap \in [DOMAIN nickToUserMap -> Users]
  BY DEF MapTypes
<1>4. nickToUserMap' \in [DOMAIN nickToUserMap \cup DOMAIN found -> Users]
  BY <1>1, <1>2, <1>3, WrittenOver, Zenon
<1> QED
  BY <1>4

\* A channel that is stored is stored under its own name.
LEMMA StoreChannelTypes ==
  ASSUME MapTypes, NEW c \in Channels, StoreChannel(c)
  PROVE  /\ channelNameToIDMap' \in [DOMAIN channelNameToIDMap' -> Channels]
         /\ reloading' = reloading
         /\ ~reloading => \A k \in DOMAIN channelNameToIDMap' : channelNameToIDMap'[k] = k
<1>1. CASE c \in channelInfo
  BY <1>1 DEF StoreChannel, MapTypes
<1>2. CASE c \notin channelInfo
  <2>1. channelNameToIDMap' =
          [k \in DOMAIN channelNameToIDMap \cup {c} |->
             IF k = c THEN c ELSE channelNameToIDMap[k]]
        /\ reloading' = reloading
    BY <1>2 DEF StoreChannel
  <2> QED
    BY <2>1 DEF MapTypes
<1> QED
  BY <1>1, <1>2

\* How a step may change the maps of users, and those of channels.
UsersStored == UNCHANGED nickToUserMap \/ \E known : Store(known)
ChannelsStored ==
  UNCHANGED <<channelNameToIDMap, reloading>> \/ \E c \in Channels : StoreChannel(c)

\* All steps but RegenerateReverseMappings store something, or nothing.
LEMMA MapsStored ==
  ASSUME Next, ~RegenerateReverseMappings
  PROVE  UsersStored /\ ChannelsStored
<1>1. ASSUME NEW l, NEW m, Command(l, m)
      PROVE  UsersStored /\ ChannelsStored
  <2>1. Read(l) => UNCHANGED <<channelNameToIDMap, reloading>>
    BY Zenon DEF Read, channelMaps
  <2>2. ReadStale(l, m) \/ ReadMalformed(l, m) \/ ReadPrivmsg(l, m) \/ Ping(l, m) \/ Mode(l, m)
          => Read(l) /\ UNCHANGED nickToUserMap
    BY Zenon DEF ReadStale, ReadMalformed, ReadPrivmsg, Ping, Mode, userMaps
  <2>3. TopicCmd(l, m) => Read(l) /\ UsersStored
    BY Zenon DEF TopicCmd, userMaps, UsersStored
  <2>4. Who(l, m) => Read(l) /\ UsersStored
    BY Zenon DEF Who, userMaps, UsersStored
  <2>5. Whois(l, m) => Read(l) /\ UNCHANGED nickToUserMap
    BY Zenon DEF Whois, userMaps
  <2>6. JoinCmd(l, m) => Read(l) /\ UsersStored
    BY Zenon DEF JoinCmd, userMaps, UsersStored
  <2> QED
    BY <1>1, <2>1, <2>2, <2>3, <2>4, <2>5, <2>6, Zenon DEF Command, UsersStored, ChannelsStored
<1>2. ASSUME Welcome \/ Notice \/ SendNothing \/ SendToNoChannel \/ SendStale \/ SendPrivmsg
             \/ SendFails \/ Forget
      PROVE  UNCHANGED <<userMaps, channelMaps>>
  BY <1>2, Zenon DEF Welcome, Notice, SendNothing, SendToNoChannel, SendStale, SendPrivmsg,
                     SendFails, Forget, Route
<1>3. ASSUME NEW e \in SlackEvents, Event(e)
      PROVE  UsersStored /\ ChannelsStored
  <2>1. HandleUnresolvedSender(e) => UNCHANGED <<userMaps, channelMaps>>
    BY Zenon DEF HandleUnresolvedSender
  <2>2. HandleUnresolvedConversation(e) => UsersStored /\ UNCHANGED channelMaps
    BY Zenon DEF HandleUnresolvedConversation, UsersStored
  <2>3. HandleMessageEvent(e) =>
          /\ UsersStored
          /\ (UNCHANGED channelMaps \/ (e.conv \notin Users /\ StoreChannel(e.conv)))
    BY Zenon DEF HandleMessageEvent, UsersStored, IsDmChannel
  <2>4. e.conv \in Channels \cup Users
    BY WorldAssumption
  <2> QED
    BY <1>3, <2>1, <2>2, <2>3, <2>4, Zenon
       DEF Event, UsersStored, ChannelsStored, userMaps, channelMaps
<1>4. ASSUME NEW u \in Users, NEW c \in Channels, FileShared(u, c)
      PROVE  UsersStored /\ ChannelsStored
  BY <1>4, Zenon DEF FileShared, UsersStored, ChannelsStored, userMaps, channelMaps
<1> QED
  BY <1>1, <1>2, <1>3, <1>4, NextIs, Zenon
     DEF UsersStored, ChannelsStored, userMaps, channelMaps

\* The inverse maps of a directory that has been regenerated are right about the
\* channels, and lead to users and channels always.
THEOREM MapsInvariant == Spec => []MapTypes
<1>1. Init => MapTypes
  BY FlowAssumption DEF Init, MapTypes
<1>2. ASSUME FlowTypes', MapTypes, [Next]_vars
      PROVE  MapTypes'
  <2>1. CASE UNCHANGED vars
    BY <1>2, <2>1, Zenon DEF MapTypes, vars, userMaps, channelMaps
  <2>2. CASE RegenerateReverseMappings
    <3>1. /\ reloading' = FALSE /\ channelNameToIDMap' = [c \in channelInfo |-> c]
          /\ nickToUserMap' \in Inverses(userInfo)
          /\ channelInfo' = channelInfo /\ userInfo' = userInfo
      BY <2>2, Zenon DEF RegenerateReverseMappings
    <3> QED
      BY <1>2, <3>1 DEF MapTypes, FlowTypes, Inverses
  <2>3. CASE Next /\ ~RegenerateReverseMappings
    <3>1. UsersStored /\ ChannelsStored
      BY <2>3, MapsStored
    <3>2. nickToUserMap' \in [DOMAIN nickToUserMap' -> Users]
      <4>1. ASSUME NEW known, Store(known)
            PROVE  nickToUserMap' \in [DOMAIN nickToUserMap' -> Users]
        <5>1. known \in SUBSET Users
          BY <1>2, <4>1, StoreIs DEF FlowTypes
        <5> QED
          BY <1>2, <4>1, <5>1, StoreTypes
      <4> QED
        BY <1>2, <3>1, <4>1, Zenon DEF UsersStored, MapTypes
    <3>3. /\ channelNameToIDMap' \in [DOMAIN channelNameToIDMap' -> Channels]
          /\ reloading' = reloading
          /\ ~reloading => \A k \in DOMAIN channelNameToIDMap' : channelNameToIDMap'[k] = k
      BY <1>2, <3>1, StoreChannelTypes, Zenon DEF ChannelsStored, MapTypes
    <3> QED
      BY <1>2, <3>2, <3>3, Zenon DEF MapTypes
  <2> QED
    BY <1>2, <2>1, <2>2, <2>3
<1> QED
  BY <1>1, <1>2, FlowTypesInvariant, PTL DEF Spec

\* Whatever is read, asked and received, every variable has its type.
THEOREM TypeCorrect == Spec => []TypeOK
<1>1. FlowTypes /\ MapTypes => TypeOK
  <2>1. MessagesOf(Speech) \subseteq Messages /\ ToldOf(STRING) \subseteq Messages
    <3>1. Seq(Solid(STRING)) \subseteq Texts /\ Commands \subseteq STRING
      BY SolidTexts DEF Texts, Commands
    <3>2. MessagesOf(STRING) \subseteq Messages
      BY <3>1 DEF MessagesOf, Messages, Texts
    <3> QED
      BY <3>2, SpeechIs DEF ToldOf
  <2>2. ASSUME FlowTypes, incoming # None
        PROVE  incoming \in Messages
    <3>1. PICK pre \in Seq(Solid(Speech)), target \in Seq(Speech), text \in Seq(Speech) :
            incoming = Privmsg(pre, target, text)
      BY <2>2, IncomingIs
    <3> QED
      BY <2>1, <3>1, TellingType
  <2>3. ClientLines \subseteq Texts
    <3>1. Seq(Speech) \subseteq Seq(STRING)
      BY SeqMonotonic DEF Speech
    <3> QED
      BY <3>1, SpeechIs, WorldAssumption DEF Texts
  <2>4. Seq(MessagesOf(Speech)) \subseteq Seq(Messages)
        /\ Seq(ToldOf(STRING)) \subseteq Seq(Messages)
    BY <2>1, SeqMonotonic
  <2> QED
    BY <2>1, <2>2, <2>3, <2>4, Zenon DEF FlowTypes, MapTypes, TypeOK
<1> QED
  BY <1>1, FlowTypesInvariant, MapsInvariant, PTL

\* What is one line for the gateway is one line for every client.
THEOREM OneLineEach == Spec => []OneLine
<1>1. FlowTypes => OneLine
  <2> DEFINE single(m) == \A i \in DOMAIN m.params : ~Contains(m.params[i], "\n")
  <2>1. ASSUME NEW m \in MessagesOf(Speech)
        PROVE  single(m)
    <3>1. PICK p \in Seq(Seq(Speech)) : p = m.params
      BY DEF MessagesOf
    <3>2. ASSUME NEW i \in DOMAIN p
          PROVE  ~Contains(p[i], "\n")
      <4>1. PICK s \in Seq(Speech) : s = p[i]
        BY ElementOfSeq, LenProperties
      <4>2. "\n" \notin Speech
        BY DEF Speech
      <4>3. \A k \in 1 .. Len(s) : s[k] \in Speech
        BY ElementOfSeq
      <4> QED
        BY <4>1, <4>2, <4>3 DEF Contains
    <3> QED
      BY <3>1, <3>2
  <2>2. ASSUME NEW s \in Seq(MessagesOf(Speech))
        PROVE  \A m \in ToSet(s) : single(m)
    <3> HIDE DEF single
    <3>1. \A i \in 1 .. Len(s) : s[i] \in MessagesOf(Speech)
      BY ElementOfSeq
    <3>2. DOMAIN s = 1 .. Len(s)
      BY LenProperties
    <3> QED
      BY <2>1, <3>1, <3>2 DEF ToSet
  <2>3. FlowTypes => \A m \in ToSet(answers) : single(m)
    <3> HIDE DEF single
    <3> QED
      BY <2>2, Zenon DEF FlowTypes
  <2>4. FlowTypes /\ (event = None \/ event.sub \notin {"message_changed", "channel_topic"})
          => \A m \in ToSet(shown) : single(m)
    <3> HIDE DEF single
    <3>1. Seq(ToldOf(Speech)) \subseteq Seq(MessagesOf(Speech))
      <4>1. ToldOf(Speech) \subseteq MessagesOf(Speech)
        BY DEF ToldOf
      <4> QED
        BY <4>1, SeqMonotonic
    <3> QED
      BY <2>2, <3>1, Zenon DEF FlowTypes
  <2> QED
    BY <2>3, <2>4, Zenon DEF OneLine
<1> QED
  BY <1>1, FlowTypesInvariant, PTL

(***************************************************************************)
(* Splitting and joining                                                   *)
(***************************************************************************)

\* The words of t between separators sep.
SplitAt(sep, t) == Words!Fold(sep, << <<>> >>, t)

\* One more atom ends the last word or is of it.
LEMMA SplitAppend ==
  ASSUME NEW S, NEW sep, NEW t \in Seq(S), NEW a \in S
  PROVE  SplitAt(sep, Append(t, a)) = AddAtom(sep, SplitAt(sep, t), a)
  BY Words!FoldAppend DEF SplitAt

\* Nothing is split into one empty word.
LEMMA SplitNothing ==
  ASSUME NEW sep
  PROVE  SplitAt(sep, <<>>) = << <<>> >>
  BY Words!FoldEmpty DEF SplitAt

\* What comes first stays before what is appended.
LEMMA ConcatAppend ==
  ASSUME NEW S, NEW s \in Seq(S), NEW t \in Seq(S), NEW x \in S
  PROVE  s \o Append(t, x) = Append(s \o t, x)
<1>1. <<x>> \in Seq(S)
  BY OneAtom
<1>2. s \o (t \o <<x>>) = (s \o t) \o <<x>>
  BY <1>1, ConcatAssociative
<1>3. t \o <<x>> = Append(t, x)
  BY AppendIsConcat
<1>4. s \o t \in Seq(S)
  BY ConcatProperties
<1>5. (s \o t) \o <<x>> = Append(s \o t, x)
  BY <1>4, AppendIsConcat
<1> QED
  BY <1>2, <1>3, <1>5, Zenon

\* What comes last is replaced.
LEMMA ExceptLast ==
  ASSUME NEW W, NEW ws \in Seq(W), NEW w \in W, NEW v \in W
  PROVE  /\ Len(Append(ws, w)) = Len(ws) + 1 /\ Append(ws, w)[Len(ws) + 1] = w
         /\ [Append(ws, w) EXCEPT ![Len(ws) + 1] = v] = Append(ws, v)
<1>1. PICK n \in Nat, m \in Nat : n = Len(ws) /\ m = n + 1
  BY LenProperties
<1>2. /\ Append(ws, w) \in Seq(W) /\ Len(Append(ws, w)) = m /\ Append(ws, w)[m] = w
      /\ \A i \in 1 .. n : Append(ws, w)[i] = ws[i]
  BY <1>1, AppendProperties
<1>3. /\ Append(ws, v) \in Seq(W) /\ Len(Append(ws, v)) = m /\ Append(ws, v)[m] = v
      /\ \A i \in 1 .. n : Append(ws, v)[i] = ws[i]
  BY <1>1, AppendProperties
<1>4. PICK u \in Seq(W), x \in Seq(W) : u = Append(ws, w) /\ x = Append(ws, v)
  BY <1>2, <1>3
<1>5. PICK y \in Seq(W) : /\ y = [u EXCEPT ![m] = v] /\ Len(y) = m
                          /\ \A i \in 1 .. m : y[i] = IF i = m THEN v ELSE u[i]
  <2>1. m \in 1 .. Len(u)
    BY <1>1, <1>2, <1>4
  <2>2. /\ [u EXCEPT ![m] = v] \in Seq(W) /\ Len([u EXCEPT ![m] = v]) = Len(u)
        /\ \A i \in 1 .. Len(u) : [u EXCEPT ![m] = v][i] = IF i = m THEN v ELSE u[i]
    BY <2>1, ExceptSeq
  <2> QED
    BY <1>2, <1>4, <2>2
<1>6. y = x
  <2>1. \A i \in 1 .. m : y[i] = x[i]
    BY <1>1, <1>2, <1>3, <1>4, <1>5
  <2> QED
    BY <1>3, <1>4, <1>5, <2>1, SeqEqual, ZenonT(60)
<1> QED
  BY <1>1, <1>2, <1>4, <1>5, <1>6, Zenon

\* An atom is added to the last word.
LEMMA AddToLast ==
  ASSUME NEW S, NEW ws \in Seq(Seq(S)), NEW w \in Seq(S), NEW a \in S, NEW sep, a # sep
  PROVE  AddAtom(sep, Append(ws, w), a) = Append(ws, Append(w, a))
<1>1. PICK W : W = Seq(S)
  OBVIOUS
<1>2. PICK v \in W : v = Append(w, a)
  BY <1>1, AppendProperties
<1>3. PICK n : /\ n = Len(ws) + 1 /\ Len(Append(ws, w)) = n /\ Append(ws, w)[n] = w
               /\ [Append(ws, w) EXCEPT ![n] = Append(w, a)] = Append(ws, Append(w, a))
  <2>1. ws \in Seq(W) /\ w \in W
    BY <1>1
  <2>2. /\ Len(Append(ws, w)) = Len(ws) + 1 /\ Append(ws, w)[Len(ws) + 1] = w
        /\ [Append(ws, w) EXCEPT ![Len(ws) + 1] = v] = Append(ws, v)
    BY <2>1, ExceptLast
  <2> QED
    BY <1>2, <2>2, Zenon
<1>4. AddAtom(sep, Append(ws, w), a) = [Append(ws, w) EXCEPT ![n] = Append(w, a)]
  BY <1>3, Zenon DEF AddAtom
<1> QED
  BY <1>3, <1>4, Zenon

\* What has no separator is one word.
LEMMA SplitOfWord ==
  ASSUME NEW S, NEW sep
  PROVE  \A t \in Seq(S \ {sep}) : SplitAt(sep, t) = <<t>>
<1> DEFINE T == {t \in Seq(S \ {sep}) : SplitAt(sep, t) = <<t>>}
<1>1. <<>> \in T
  BY SplitNothing, EmptySeq
<1>2. ASSUME NEW t \in Seq(S \ {sep}), NEW a \in S \ {sep}, t \in T
      PROVE  Append(t, a) \in T
  <2>1. PICK W : W = S \ {sep} /\ t \in Seq(W) /\ a \in W /\ a # sep
    OBVIOUS
  <2>2. PICK u \in Seq(W) : u = Append(t, a)
    BY <2>1, AppendProperties
  <2>3. SplitAt(sep, u) = AddAtom(sep, <<t>>, a)
    BY <1>2, <2>1, <2>2, SplitAppend
  <2>4. Len(<<t>>) = 1 /\ <<t>>[1] = t /\ [<<t>> EXCEPT ![1] = u] = <<u>>
    OBVIOUS
  <2>5. AddAtom(sep, <<t>>, a) = <<u>>
    BY <2>1, <2>2, <2>4, Zenon DEF AddAtom
  <2> QED
    BY <2>1, <2>2, <2>3, <2>5
<1>3. Seq(S \ {sep}) \subseteq T
  <2> HIDE DEF T
  <2> QED
    BY <1>1, <1>2, AppendInduct
<1> QED
  BY <1>3

\* What is before and after a separator is split for itself.
LEMMA SplitConcat ==
  ASSUME NEW S, NEW sep \in S, NEW a \in Seq(S)
  PROVE  \A t \in Seq(S) : SplitAt(sep, (a \o <<sep>>) \o t) = SplitAt(sep, a) \o SplitAt(sep, t)
<1> DEFINE T == {t \in Seq(S) :
                   SplitAt(sep, (a \o <<sep>>) \o t) = SplitAt(sep, a) \o SplitAt(sep, t)}
<1>1. PICK W : W = Seq(S)
  OBVIOUS
<1>2. PICK b \in Seq(S) : b = a \o <<sep>> /\ b = Append(a, sep)
  <2>1. a \o <<sep>> = Append(a, sep)
    BY AppendIsConcat
  <2> QED
    BY <2>1, AppendProperties
<1>3. ASSUME NEW t \in Seq(S)
      PROVE  SplitAt(sep, t) \in Seq(W) /\ SplitAt(sep, t) # <<>>
  <2>1. SplitAt(sep, t) \in Seq(Seq(S \ {sep})) \ {<<>>}
    BY WordsType DEF SplitAt
  <2>2. Seq(S \ {sep}) \subseteq W
    BY <1>1, SeqMonotonic
  <2> QED
    BY <2>1, <2>2, SeqMonotonic
<1>4. <<>> \in T
  <2>1. SplitAt(sep, Append(a, sep)) = AddAtom(sep, SplitAt(sep, a), sep)
    BY SplitAppend
  <2>6. SplitAt(sep, b) = Append(SplitAt(sep, a), <<>>)
    BY <1>2, <2>1, Zenon DEF AddAtom
  <2>2. b \o <<>> = b
    BY ConcatEmptySeq
  <2>3. <<>> \in W
    BY <1>1, EmptySeq
  <2>4. Append(SplitAt(sep, a), <<>>) = SplitAt(sep, a) \o << <<>> >>
    BY <1>3, <2>3, AppendIsConcat
  <2>5. <<>> \in Seq(S)
    BY EmptySeq
  <2> QED
    BY <1>2, <2>2, <2>4, <2>5, <2>6, SplitNothing, Zenon
<1>5. ASSUME NEW t \in Seq(S), NEW x \in S, t \in T
      PROVE  Append(t, x) \in T
  <2>1. PICK u \in Seq(S) : u = Append(t, x)
    BY AppendProperties
  <2>2. PICK p \in Seq(W) : p = SplitAt(sep, a)
    BY <1>3
  <2>3. PICK q \in Seq(W) : q = SplitAt(sep, t) /\ q # <<>>
    BY <1>3
  <2>4. PICK c \in Seq(S) : c = b \o t
    BY ConcatProperties
  <2>5. b \o u = Append(b \o t, x)
    BY <2>1, ConcatAppend, SMTT(40)
  <2>6. SplitAt(sep, b \o u) = AddAtom(sep, p \o q, x)
    <3>1. SplitAt(sep, b \o t) = p \o q
      BY <1>2, <1>5, <2>2, <2>3, Zenon
    <3>2. SplitAt(sep, Append(c, x)) = AddAtom(sep, SplitAt(sep, c), x)
      BY SplitAppend
    <3> QED
      BY <2>4, <2>5, <3>1, <3>2, Zenon
  <2>7. SplitAt(sep, u) = AddAtom(sep, q, x)
    BY <2>1, <2>3, SplitAppend
  <2>8. AddAtom(sep, p \o q, x) = p \o AddAtom(sep, q, x)
    <3>1. CASE x = sep
      <4>1. <<>> \in W
        BY <1>1, EmptySeq
      <4>2. p \o Append(q, <<>>) = Append(p \o q, <<>>)
        BY <4>1, ConcatAppend, SMTT(40)
      <4> QED
        BY <3>1, <4>2 DEF AddAtom
    <3>2. CASE x # sep
      <4>1. PICK r \in Seq(W), w \in W : q = Append(r, w)
        BY <2>3, SequenceEmptyOrAppend
      <4>2. PICK v \in W : v = Append(w, x)
        BY <1>1, AppendProperties
      <4>3. AddAtom(sep, q, x) = Append(r, v)
        BY <1>1, <3>2, <4>1, <4>2, AddToLast
      <4>4. p \o q = Append(p \o r, w) /\ p \o Append(r, v) = Append(p \o r, v)
        BY <4>1, ConcatAppend, SMTT(40)
      <4>5. PICK z \in Seq(W) : z = p \o r
        BY ConcatProperties
      <4>6. AddAtom(sep, Append(z, w), x) = Append(z, v)
        BY <1>1, <3>2, <4>2, AddToLast, SMTT(40)
      <4> QED
        BY <4>1, <4>3, <4>4, <4>5, <4>6, Zenon
    <3> QED
      BY <3>1, <3>2
  <2> QED
    BY <1>2, <2>1, <2>2, <2>6, <2>7, <2>8, Zenon
<1>6. Seq(S) \subseteq T
  <2> HIDE DEF T
  <2> QED
    BY <1>4, <1>5, AppendInduct
<1> QED
  BY <1>6

\* What Join puts after the first word.
Gap == <<" ">>
\* Each word but the first, after a blank.
Gaps(ws) == [i \in 1 .. Len(ws) - 1 |-> Gap \o ws[i + 1]]

\* A blank is a text of one atom.
LEMMA GapType ==
  ASSUME NEW S, Alphabet(S)
  PROVE  Gap \in Seq(S) /\ Len(Gap) = 1
<1>1. PICK b \in S : b = " "
  BY AlphabetHas
<1>2. <<b>> \in Seq(S) /\ Len(<<b>>) = 1
  BY OneAtom
<1> QED
  BY <1>1, <1>2, Zenon DEF Gap

\* Each word but the first, after a blank.
LEMMA GapsType ==
  ASSUME NEW S, Alphabet(S), NEW ws \in Seq(Seq(S)), ws # <<>>
  PROVE  /\ Gaps(ws) \in Seq(Seq(S)) /\ Len(Gaps(ws)) = Len(ws) - 1
         /\ \A i \in 1 .. Len(ws) - 1 : Gaps(ws)[i] = Gap \o ws[i + 1]
<1>1. PICK n \in Nat : n = Len(ws) /\ n # 0
  BY EmptySeq
<1>2. PICK m \in Nat : m = n - 1
  <2>1. n - 1 \in Nat
    BY <1>1
  <2> QED
    BY <2>1
<1>3. \A i \in 1 .. m : Gap \o ws[i + 1] \in Seq(S)
  <2> SUFFICES ASSUME NEW i \in 1 .. m
               PROVE  Gap \o ws[i + 1] \in Seq(S)
    OBVIOUS
  <2>1. ws[i + 1] \in Seq(S)
    BY <1>1, <1>2, ElementOfSeq
  <2> QED
    BY <2>1, GapType, ConcatProperties
<1>4. Gaps(ws) = [i \in 1 .. m |-> Gap \o ws[i + 1]]
  BY <1>1, <1>2 DEF Gaps
<1>5. Gaps(ws) \in Seq(Seq(S)) /\ Len(Gaps(ws)) = m
  BY <1>3, <1>4
<1> QED
  BY <1>1, <1>2, <1>4, <1>5

\* Words joined are the first of them, and each of the others after a blank.
LEMMA JoinIs ==
  ASSUME NEW S, NEW ws \in Seq(Seq(S)), ws # <<>>
  PROVE  Join(ws) = ws[1] \o FlattenSeq(Gaps(ws))
<1>1. Head(ws) = ws[1]
  OBVIOUS
<1> QED
  BY <1>1, Zenon DEF Join, Gaps, Gap

\* One word joined is that word.
LEMMA JoinOne ==
  ASSUME NEW S, NEW w \in Seq(S)
  PROVE  Join(<<w>>) = w
<1>1. <<w>> \in Seq(Seq(S)) /\ <<w>> # <<>> /\ Len(<<w>>) - 1 = 0 /\ <<w>>[1] = w
  OBVIOUS
<1>2. [i \in 1 .. 0 |-> Gap \o <<w>>[i + 1]] = <<>>
  OBVIOUS
<1>3. Gaps(<<w>>) = <<>>
  BY <1>1, <1>2, Zenon DEF Gaps
<1>4. Join(<<w>>) = w \o <<>>
  BY <1>1, <1>3, JoinIs, FlattenEmpty
<1> QED
  BY <1>4, ConcatEmptySeq

\* Texts in a row are concatenated in any order.
Associates(p, f, v) == (p \o f) \o v = p \o (f \o v)

\* Three texts in a row, whichever two are put together first.
LEMMA Associate ==
  ASSUME NEW S, NEW p \in Seq(S), NEW f \in Seq(S), NEW v \in Seq(S)
  PROVE  Associates(p, f, v)
  BY ConcatAssociative, SMTT(40) DEF Associates

\* One more word comes after a gap.
LEMMA JoinAppend ==
  ASSUME NEW S, Alphabet(S), NEW ws \in Seq(Seq(S)), ws # <<>>, NEW w \in Seq(S)
  PROVE  Join(Append(ws, w)) = Join(ws) \o (Gap \o w)
<1>1. PICK W : W = Seq(S) /\ ws \in Seq(W) /\ w \in W
  OBVIOUS
<1>2. PICK n \in Nat, m \in Nat, k \in Nat : n = Len(ws) /\ n = m + 1 /\ k = n + 1
  <2>1. Len(ws) \in Nat /\ Len(ws) # 0
    BY EmptySeq
  <2>2. Len(ws) - 1 \in Nat
    BY <2>1
  <2> QED
    BY <2>1, <2>2
<1>3. PICK x \in Seq(W) : /\ x = Append(ws, w) /\ Len(x) = k /\ x[k] = w /\ x # <<>>
                          /\ \A i \in 1 .. n : x[i] = ws[i]
  <2>1. PICK x \in Seq(W) : x = Append(ws, w)
    BY <1>1, AppendProperties
  <2>2. /\ x # <<>> /\ Len(x) = Len(ws) + 1 /\ x[Len(ws) + 1] = w
        /\ \A i \in 1 .. Len(ws) : x[i] = ws[i]
    BY <1>1, <2>1, AppendProperties
  <2> QED
    BY <1>2, <2>1, <2>2
<1>4. PICK v \in W : v = Gap \o w
  BY <1>1, GapType, ConcatProperties
<1>5. /\ Gaps(ws) \in Seq(Seq(S)) /\ Len(Gaps(ws)) = m
      /\ \A i \in 1 .. m : Gaps(ws)[i] = Gap \o ws[i + 1]
  <2>1. Len(ws) - 1 = m
    BY <1>2
  <2> QED
    BY <2>1, GapsType
<1>6. PICK g \in Seq(W) : /\ g = Gaps(ws) /\ Len(g) = m /\ g \in Seq(Seq(S))
                          /\ \A i \in 1 .. m : g[i] = Gap \o ws[i + 1]
  BY <1>1, <1>5, Zenon
<1>7. x \in Seq(Seq(S))
  BY <1>1, Zenon
<1>8. /\ Gaps(x) \in Seq(Seq(S)) /\ Len(Gaps(x)) = n
      /\ \A i \in 1 .. n : Gaps(x)[i] = Gap \o x[i + 1]
  <2>1. Len(x) - 1 = n
    BY <1>2, <1>3
  <2> QED
    BY <1>3, <1>7, <2>1, GapsType
<1>9. PICK h \in Seq(W) : /\ h = Gaps(x) /\ Len(h) = n
                          /\ \A i \in 1 .. n : h[i] = Gap \o x[i + 1]
  BY <1>1, <1>8, Zenon
<1>10. h = Append(g, v)
  <2>1. /\ Append(g, v) \in Seq(W) /\ Len(Append(g, v)) = n /\ Append(g, v)[n] = v
        /\ \A i \in 1 .. m : Append(g, v)[i] = g[i]
    BY <1>2, <1>6, AppendProperties, SMTT(40)
  <2>2. ASSUME NEW i \in 1 .. n
        PROVE  h[i] = Append(g, v)[i]
    <3>1. CASE i = n
      BY <1>2, <1>3, <1>4, <1>9, <2>1, <3>1, ZenonT(60)
    <3>2. CASE i # n
      <4>1. i \in 1 .. m /\ i + 1 \in 1 .. n
        BY <1>2, <3>2
      <4> QED
        BY <1>3, <1>6, <1>9, <2>1, <4>1, ZenonT(60)
    <3> QED
      BY <3>1, <3>2
  <2> QED
    BY <1>9, <2>1, <2>2, SeqEqual
<1>11. FlattenSeq(h) = FlattenSeq(g) \o v
  <2>1. v \in Seq(S)
    BY <1>1
  <2> QED
    BY <1>6, <1>10, <2>1, FlattenAppend
<1>12. Join(ws) = ws[1] \o FlattenSeq(g) /\ Join(x) = x[1] \o FlattenSeq(h)
  BY <1>3, <1>6, <1>7, <1>9, JoinIs
<1>13. x[1] = ws[1] /\ ws[1] \in Seq(S)
  <2>1. 1 \in 1 .. n
    BY <1>2
  <2> QED
    BY <1>2, <1>3, <2>1, ElementOfSeq
<1>14. FlattenSeq(g) \in Seq(S) /\ v \in Seq(S)
  BY <1>1, <1>6, FlattenType
<1>15. ws[1] \o (FlattenSeq(g) \o v) = (ws[1] \o FlattenSeq(g)) \o v
  <2>1. Associates(ws[1], FlattenSeq(g), v)
    BY <1>13, <1>14, Associate
  <2> QED
    BY <2>1, Zenon DEF Associates
<1> QED
  BY <1>3, <1>4, <1>11, <1>12, <1>13, <1>15, Zenon

\* Splitting is undone by joining.
THEOREM JoinOfSplit ==
  ASSUME NEW S, Alphabet(S)
  PROVE  \A t \in Seq(S) : Join(Split(t)) = t
<1> DEFINE T == {t \in Seq(S) : Join(Split(t)) = t}
<1>1. PICK b \in S : b = " " /\ Gap = <<b>>
  <2>1. " " \in S
    BY AlphabetHas
  <2> QED
    BY <2>1, Zenon DEF Gap
<1>2. \A t : Split(t) = SplitAt(b, t)
  BY <1>1, SplitIsFold, Zenon DEF SplitAt
<1>3. PICK W : W = Seq(S)
  OBVIOUS
<1>4. ASSUME NEW t \in Seq(S)
      PROVE  SplitAt(b, t) \in Seq(W) /\ SplitAt(b, t) # <<>>
  <2>1. SplitAt(b, t) \in Seq(Seq(S \ {b})) \ {<<>>}
    BY WordsType DEF SplitAt
  <2>2. Seq(S \ {b}) \subseteq W
    BY <1>3, SeqMonotonic
  <2> QED
    BY <2>1, <2>2, SeqMonotonic
<1>5. <<>> \in T
  <2>1. <<>> \in Seq(S)
    BY EmptySeq
  <2> QED
    BY <1>2, <2>1, SplitNothing, JoinOne
<1>6. ASSUME NEW t \in Seq(S), NEW a \in S, t \in T
      PROVE  Append(t, a) \in T
  <2>1. PICK ws \in Seq(W) : ws = SplitAt(b, t) /\ ws # <<>> /\ Join(ws) = t
    BY <1>2, <1>4, <1>6
  <2>2. SplitAt(b, Append(t, a)) = AddAtom(b, ws, a)
    BY <2>1, SplitAppend
  <2>3. Append(t, a) \in Seq(S)
    BY AppendProperties
  <2>4. CASE a = b
    <3>1. <<>> \in Seq(S)
      BY EmptySeq
    <3>2. Join(Append(ws, <<>>)) = t \o (Gap \o <<>>)
      BY <1>3, <2>1, <3>1, JoinAppend
    <3>3. Gap \o <<>> = Gap
      BY GapType, ConcatEmptySeq
    <3>4. t \o <<a>> = Append(t, a)
      BY AppendIsConcat
    <3>5. AddAtom(b, ws, a) = Append(ws, <<>>)
      BY <2>4 DEF AddAtom
    <3> QED
      BY <1>1, <1>2, <2>2, <2>3, <2>4, <3>2, <3>3, <3>4, <3>5, Zenon
  <2>5. CASE a # b
    <3>1. PICK r \in Seq(W), w \in W : ws = Append(r, w)
      BY <2>1, SequenceEmptyOrAppend
    <3>2. PICK v \in W : v = Append(w, a)
      BY <1>3, AppendProperties
    <3>3. AddAtom(b, ws, a) = Append(r, v)
      BY <1>3, <2>5, <3>1, <3>2, AddToLast
    <3>4. CASE r = <<>>
      <4>1. ws = <<w>> /\ Append(r, v) = <<v>>
        BY <3>1, <3>4
      <4>2. Join(<<w>>) = w /\ Join(<<v>>) = v
        BY <1>3, JoinOne
      <4> QED
        BY <1>2, <2>1, <2>2, <2>3, <3>2, <3>3, <4>1, <4>2, Zenon
    <3>5. CASE r # <<>>
      <4>1. Join(ws) = Join(r) \o (Gap \o w) /\ Join(Append(r, v)) = Join(r) \o (Gap \o v)
        BY <1>3, <3>1, <3>5, JoinAppend
      <4>2. Gap \o v = Append(Gap \o w, a)
        BY <1>3, <3>2, GapType, ConcatAppend, SMTT(40)
      <4>3. PICK x \in Seq(S) : x = Gap \o w
        BY <1>3, GapType, ConcatProperties
      <4>4. Join(r) \in Seq(S)
        BY <1>3, JoinType
      <4>5. Join(r) \o Append(x, a) = Append(Join(r) \o x, a)
        BY <4>4, ConcatAppend
      <4> QED
        BY <1>2, <2>1, <2>2, <2>3, <3>3, <4>1, <4>2, <4>3, <4>5, Zenon
    <3> QED
      BY <3>4, <3>5
  <2> QED
    BY <2>4, <2>5
<1>7. Seq(S) \subseteq T
  <2> HIDE DEF T
  <2> QED
    BY <1>5, <1>6, AppendInduct
<1> QED
  BY <1>7

\* What is before a gap and after it is split for itself.
LEMMA SplitAtGap ==
  ASSUME NEW S, Alphabet(S), NEW a \in Seq(S), NEW t \in Seq(S)
  PROVE  /\ Split(a \o (Gap \o t)) = Split(a) \o Split(t)
         /\ a \in Seq(Solid(S)) => Split(a) = <<a>>
<1>1. PICK b \in S : b = " " /\ Gap = <<b>>
  <2>1. " " \in S
    BY AlphabetHas
  <2> QED
    BY <2>1, Zenon DEF Gap
<1>2. \A x : Split(x) = SplitAt(b, x)
  BY <1>1, SplitIsFold, Zenon DEF SplitAt
<1>3. (a \o Gap) \o t = a \o (Gap \o t)
  BY GapType, ConcatAssociative, SMTT(40)
<1>4. SplitAt(b, (a \o <<b>>) \o t) = SplitAt(b, a) \o SplitAt(b, t)
  BY SplitConcat, ZenonT(60)
<1>5. Solid(S) = S \ {b}
  BY <1>1, Zenon DEF Solid
<1>6. a \in Seq(Solid(S)) => SplitAt(b, a) = <<a>>
  BY <1>5, SplitOfWord
<1> QED
  BY <1>1, <1>2, <1>3, <1>4, <1>6, Zenon

\* Joining is undone by splitting, if the words are words.
THEOREM SplitOfJoin ==
  ASSUME NEW S, Alphabet(S)
  PROVE  \A ws \in Seq(Seq(Solid(S))) : ws # <<>> => Split(Join(ws)) = ws
<1>1. PICK W : W = Seq(Solid(S))
  OBVIOUS
<1> DEFINE T == {ws \in Seq(W) : ws # <<>> => Split(Join(ws)) = ws}
<1>2. <<>> \in T
  BY EmptySeq
<1>3. W \subseteq Seq(S)
  BY <1>1, SolidTexts
<1>4. ASSUME NEW ws \in Seq(W), NEW w \in W, ws \in T
      PROVE  Append(ws, w) \in T
  <2>1. Append(ws, w) \in Seq(W)
    BY AppendProperties
  <2>2. w \in Seq(S) /\ ws \in Seq(Seq(S))
    BY <1>3, SeqMonotonic
  <2>3. Split(w) = <<w>>
    BY <1>1, <2>2, SplitAtGap
  <2>4. CASE ws = <<>>
    <3>1. Append(ws, w) = <<w>>
      BY <2>4
    <3>2. Join(<<w>>) = w
      BY <2>2, JoinOne
    <3> QED
      BY <2>1, <2>3, <3>1, <3>2, Zenon
  <2>5. CASE ws # <<>>
    <3>1. Join(Append(ws, w)) = Join(ws) \o (Gap \o w)
      BY <2>2, <2>5, JoinAppend
    <3>2. Join(ws) \in Seq(S)
      BY <2>2, JoinType
    <3>3. Split(Join(ws) \o (Gap \o w)) = Split(Join(ws)) \o Split(w)
      BY <2>2, <3>2, SplitAtGap
    <3>4. ws \o <<w>> = Append(ws, w)
      BY AppendIsConcat
    <3> QED
      BY <1>4, <2>1, <2>3, <2>5, <3>1, <3>3, <3>4, Zenon
  <2> QED
    BY <2>4, <2>5
<1>5. Seq(W) \subseteq T
  <2> HIDE DEF T
  <2> QED
    BY <1>2, <1>4, AppendInduct
<1> QED
  BY <1>1, <1>5

\* Two sequences in a row, by their elements.
InARow(c, a, b, n, m) ==
  /\ Len(c) = n + m /\ \A i \in 1 .. n : c[i] = a[i]
  /\ \A i \in 1 .. m : c[n + i] = b[i]

\* The atoms of two texts in a row, by position.
LEMMA ConcatIs ==
  ASSUME NEW S, NEW a \in Seq(S), NEW b \in Seq(S), NEW n, NEW m, n = Len(a), m = Len(b)
  PROVE  a \o b \in Seq(S) /\ InARow(a \o b, a, b, n, m)
<1>0. n \in Nat /\ m \in Nat
  BY LenProperties
<1>1. /\ a \o b \in Seq(S) /\ Len(a \o b) = n + m
      /\ \A i \in 1 .. n + m : (a \o b)[i] = IF i <= n THEN a[i] ELSE b[i - n]
  BY ConcatProperties
<1>2. PICK c : c = a \o b
  OBVIOUS
<1>3. \A i \in 1 .. n + m : c[i] = IF i <= n THEN a[i] ELSE b[i - n]
  BY <1>1, <1>2, Zenon
<1>4. \A i \in 1 .. n : c[i] = a[i]
  BY <1>3
<1>5. \A i \in 1 .. m : c[n + i] = b[i]
  <2> SUFFICES ASSUME NEW i \in 1 .. m
               PROVE  c[n + i] = b[i]
    OBVIOUS
  <2>1. n + i \in 1 .. n + m /\ ~(n + i <= n) /\ n + i - n = i
    OBVIOUS
  <2> QED
    BY <1>3, <2>1
<1>6. c \in Seq(S) /\ c = a \o b /\ Len(c) = n + m
  BY <1>1, <1>2
<1> QED
  BY <1>4, <1>5, <1>6, Zenon DEF InARow

\* A part of a sequence, by its elements.
IsPart(x, c, k, m) == Len(x) = m /\ \A i \in 1 .. m : x[i] = c[k + i - 1]

\* The atoms of a part of a text, by position.
LEMMA PartIs ==
  ASSUME NEW S, NEW c \in Seq(S), NEW k \in Nat, NEW l \in Nat, NEW m \in Nat,
         k # 0, l <= Len(c), k + m = l + 1
  PROVE  SubSeq(c, k, l) \in Seq(S) /\ IsPart(SubSeq(c, k, l), c, k, m)
<1>1. \A i \in k .. l : c[i] \in S
  <2>1. Len(c) \in Nat
    BY LenProperties
  <2>2. \A i \in k .. l : i \in 1 .. Len(c)
    BY <2>1
  <2> QED
    BY <2>2, ElementOfSeq
<1>2. PICK x : x = SubSeq(c, k, l)
  OBVIOUS
<1>3. /\ x \in Seq(S) /\ Len(x) = IF k <= l THEN l - k + 1 ELSE 0
      /\ \A i \in 1 .. l - k + 1 : x[i] = c[k + i - 1]
  BY <1>1, <1>2, SubSeqProperties, SMTT(40)
<1>4. l - k + 1 = m /\ (k <= l \/ m = 0)
  OBVIOUS
<1>5. Len(x) = m /\ \A i \in 1 .. m : x[i] = c[k + i - 1]
  BY <1>3, <1>4
<1> QED
  BY <1>2, <1>3, <1>5, Zenon DEF IsPart

\* What two sequences in a row are cut into.
LEMMA Halves ==
  ASSUME NEW S, NEW a \in Seq(S), NEW b \in Seq(S), NEW k \in Nat, k = Len(a) + 1,
         NEW n \in Nat, n = Len(a)
  PROVE  /\ SubSeq(a \o b, 1, n) = a
         /\ SubSeq(a \o b, k, Len(a \o b)) = b
<1>1. PICK m \in Nat, l \in Nat : m = Len(b) /\ l = n + m
  <2>1. Len(b) \in Nat
    BY LenProperties
  <2> QED
    BY <2>1
<1>2. PICK c \in Seq(S) : c = a \o b /\ InARow(c, a, b, n, m)
  BY <1>1, ConcatIs
<1>3. SubSeq(c, 1, n) = a
  <2>1. 1 + n = n + 1 /\ n <= Len(c) /\ 1 \in Nat /\ 1 # 0
    BY <1>1, <1>2 DEF InARow
  <2>2. PICK x \in Seq(S) : x = SubSeq(c, 1, n) /\ IsPart(x, c, 1, n)
    BY <2>1, PartIs
  <2>3. \A i \in 1 .. n : x[i] = a[i]
    BY <1>2, <2>2 DEF InARow, IsPart
  <2>4. Len(x) = n
    BY <2>2 DEF IsPart
  <2> QED
    BY <2>2, <2>3, <2>4, SeqEqual
<1>4. SubSeq(c, k, l) = b
  <2>1. k + m = l + 1 /\ l <= Len(c) /\ k # 0
    BY <1>1, <1>2 DEF InARow
  <2>2. PICK x \in Seq(S) : x = SubSeq(c, k, l) /\ IsPart(x, c, k, m)
    BY <2>1, PartIs
  <2>3. \A i \in 1 .. m : x[i] = b[i]
    <3> SUFFICES ASSUME NEW i \in 1 .. m
                 PROVE  x[i] = b[i]
      OBVIOUS
    <3>1. k + i - 1 = n + i
      OBVIOUS
    <3>2. c[n + i] = b[i]
      BY <1>2 DEF InARow
    <3>3. x[i] = c[k + i - 1]
      BY <2>2 DEF IsPart
    <3> QED
      BY <3>1, <3>2, <3>3, Zenon
  <2>4. Len(x) = m
    BY <2>2 DEF IsPart
  <2> QED
    BY <1>1, <2>2, <2>3, <2>4, SeqEqual
<1>5. Len(c) = l
  BY <1>1, <1>2 DEF InARow
<1> QED
  BY <1>2, <1>3, <1>4, <1>5, Zenon

\* All words after a gap each.
Gapped(ws) == [i \in DOMAIN ws |-> Gap \o ws[i]]

\* Each word after a blank.
LEMMA GappedType ==
  ASSUME NEW S, Alphabet(S), NEW ws \in Seq(Seq(S))
  PROVE  /\ Gapped(ws) \in Seq(Seq(S)) /\ Len(Gapped(ws)) = Len(ws)
         /\ \A i \in 1 .. Len(ws) : Gapped(ws)[i] = Gap \o ws[i]
<1>1. PICK n \in Nat : n = Len(ws) /\ DOMAIN ws = 1 .. n
  BY LenProperties
<1>2. \A i \in 1 .. n : Gap \o ws[i] \in Seq(S)
  <2> SUFFICES ASSUME NEW i \in 1 .. n
               PROVE  Gap \o ws[i] \in Seq(S)
    OBVIOUS
  <2>1. ws[i] \in Seq(S)
    BY <1>1, ElementOfSeq
  <2> QED
    BY <2>1, GapType, ConcatProperties
<1>3. Gapped(ws) = [i \in 1 .. n |-> Gap \o ws[i]]
  BY <1>1 DEF Gapped
<1>4. Gapped(ws) \in Seq(Seq(S)) /\ Len(Gapped(ws)) = n
  BY <1>2, <1>3
<1> QED
  BY <1>1, <1>3, <1>4

\* More words come after a gap each.
LEMMA JoinConcat ==
  ASSUME NEW S, Alphabet(S), NEW ws \in Seq(Seq(S)), ws # <<>>, NEW xs \in Seq(Seq(S))
  PROVE  Join(ws \o xs) = Join(ws) \o FlattenSeq(Gapped(xs))
<1>1. PICK W : W = Seq(S)
  OBVIOUS
<1>2. PICK n \in Nat, m \in Nat, l \in Nat : n = Len(ws) /\ n # 0 /\ m = n - 1 /\ l = Len(xs)
  <2>1. Len(ws) \in Nat /\ Len(ws) # 0 /\ Len(xs) \in Nat
    BY EmptySeq, LenProperties
  <2>2. Len(ws) - 1 \in Nat
    BY <2>1
  <2> QED
    BY <2>1, <2>2
<1>3. PICK c \in Seq(W) : c = ws \o xs /\ InARow(c, ws, xs, n, l)
  <2>1. ws \in Seq(W) /\ xs \in Seq(W)
    BY <1>1
  <2> QED
    BY <1>2, <2>1, ConcatIs
<1>4. c \in Seq(Seq(S)) /\ c # <<>>
  <2>1. c # <<>>
    BY <1>2, <1>3, EmptySeq DEF InARow
  <2> QED
    BY <1>1, <2>1
<1>5. PICK g \in Seq(W) : /\ g = Gaps(ws) /\ Len(g) = m
                          /\ \A i \in 1 .. m : g[i] = Gap \o ws[i + 1]
  <2>1. /\ Gaps(ws) \in Seq(Seq(S)) /\ Len(Gaps(ws)) = Len(ws) - 1
        /\ \A i \in 1 .. Len(ws) - 1 : Gaps(ws)[i] = Gap \o ws[i + 1]
    BY GapsType
  <2> QED
    BY <1>1, <1>2, <2>1
<1>6. PICK p \in Seq(W) : /\ p = Gapped(xs) /\ Len(p) = l
                          /\ \A i \in 1 .. l : p[i] = Gap \o xs[i]
  <2>1. /\ Gapped(xs) \in Seq(Seq(S)) /\ Len(Gapped(xs)) = Len(xs)
        /\ \A i \in 1 .. Len(xs) : Gapped(xs)[i] = Gap \o xs[i]
    BY GappedType
  <2> QED
    BY <1>1, <1>2, <2>1
<1>7. PICK h \in Seq(W) : /\ h = Gaps(c) /\ Len(h) = m + l
                          /\ \A i \in 1 .. m + l : h[i] = Gap \o c[i + 1]
  <2>1. /\ Gaps(c) \in Seq(Seq(S)) /\ Len(Gaps(c)) = Len(c) - 1
        /\ \A i \in 1 .. Len(c) - 1 : Gaps(c)[i] = Gap \o c[i + 1]
    BY <1>4, GapsType
  <2>2. Len(c) - 1 = m + l
    BY <1>2, <1>3 DEF InARow
  <2> QED
    BY <1>1, <2>1, <2>2
<1>8. h = g \o p
  <2>1. PICK q \in Seq(W) : q = g \o p /\ InARow(q, g, p, m, l)
    BY <1>5, <1>6, ConcatIs
  <2>2. ASSUME NEW i \in 1 .. m
        PROVE  h[i] = q[i]
    <3>1. i + 1 \in 1 .. n /\ i \in 1 .. m + l
      BY <1>2
    <3> QED
      BY <1>3, <1>5, <1>7, <2>1, <3>1, ZenonT(60) DEF InARow
  <2>3. ASSUME NEW i \in 1 .. l
        PROVE  h[m + i] = q[m + i]
    <3>1. m + i + 1 = n + i /\ m + i \in 1 .. m + l
      BY <1>2
    <3>2. h[m + i] = Gap \o c[m + i + 1]
      BY <1>7, <3>1, Zenon
    <3>3. c[n + i] = xs[i]
      BY <1>3 DEF InARow
    <3>4. p[i] = Gap \o xs[i]
      BY <1>6
    <3>5. q[m + i] = p[i]
      BY <2>1 DEF InARow
    <3> QED
      BY <3>1, <3>2, <3>3, <3>4, <3>5, Zenon
  <2>4. ASSUME NEW i \in 1 .. m + l
        PROVE  h[i] = q[i]
    <3>1. CASE i \in 1 .. m
      BY <2>2, <3>1
    <3>2. CASE i \notin 1 .. m
      <4>1. PICK j \in Nat : j = i - m
        BY <3>2
      <4>2. j \in 1 .. l /\ i = m + j
        BY <3>2, <4>1
      <4> QED
        BY <2>3, <4>2
    <3> QED
      BY <3>1, <3>2
  <2> QED
    <3>1. Len(h) = m + l /\ Len(q) = m + l
      BY <1>7, <2>1 DEF InARow
    <3>2. h = q
      BY <2>4, <3>1, SeqEqual
    <3> QED
      BY <2>1, <3>2
<1>9. FlattenSeq(h) = FlattenSeq(g) \o FlattenSeq(p)
  <2>1. g \in Seq(Seq(S)) /\ p \in Seq(Seq(S))
    BY <1>1
  <2> QED
    BY <1>8, <2>1, FlattenConcat
<1>10. Join(ws) = ws[1] \o FlattenSeq(g) /\ Join(c) = c[1] \o FlattenSeq(h)
  BY <1>4, <1>5, <1>7, JoinIs
<1>11. c[1] = ws[1] /\ ws[1] \in Seq(S)
  <2>1. 1 \in 1 .. n /\ 1 \in 1 .. n + l
    BY <1>2
  <2>2. ws[1] \in Seq(S)
    BY <1>2, <2>1, ElementOfSeq
  <2> QED
    BY <1>3, <2>1, <2>2 DEF InARow
<1>12. FlattenSeq(g) \in Seq(S) /\ FlattenSeq(p) \in Seq(S)
  BY <1>1, FlattenType
<1>13. Associates(ws[1], FlattenSeq(g), FlattenSeq(p))
  BY <1>11, <1>12, Associate
<1> QED
  BY <1>3, <1>6, <1>9, <1>10, <1>11, <1>13, Zenon DEF Associates

\* What starts with a colon has a first word that does.
LEMMA SplitStarts ==
  ASSUME NEW S, Alphabet(S), NEW a \in Solid(S)
  PROVE  \A t \in Seq(S) : Starts(Split(<<a>> \o t)[1], a)
<1> DEFINE T == {t \in Seq(S) : Starts(Split(<<a>> \o t)[1], a)}
<1>1. PICK b \in S : b = " " /\ a # b
  BY AlphabetHas DEF Solid
<1>2. \A x : Split(x) = SplitAt(b, x)
  BY <1>1, SplitIsFold, Zenon DEF SplitAt
<1>3. a \in S /\ <<a>> \in Seq(S) /\ <<a>> \in Seq(Solid(S))
  BY OneAtom DEF Solid
<1>4. PICK W : W = Seq(S)
  OBVIOUS
<1>5. <<>> \in T
  <2>1. Split(<<a>>) = << <<a>> >>
    BY <1>3, SplitAtGap
  <2>2. <<a>> \o <<>> = <<a>>
    BY <1>3, ConcatEmptySeq
  <2>3. Starts(<<a>>, a) /\ << <<a>> >>[1] = <<a>>
    BY DEF Starts
  <2>4. <<>> \in Seq(S)
    BY EmptySeq
  <2> QED
    BY <2>1, <2>2, <2>3, <2>4, Zenon
<1>6. ASSUME NEW t \in Seq(S), NEW x \in S, t \in T
      PROVE  Append(t, x) \in T
  <2>1. PICK u \in Seq(S), v \in Seq(S) : u = <<a>> \o t /\ v = Append(t, x)
    BY <1>3, ConcatProperties, AppendProperties
  <2>2. <<a>> \o v = Append(u, x)
    BY <1>3, <2>1, ConcatAppend
  <2>3. PICK ws \in Seq(W) : ws = SplitAt(b, u) /\ ws # <<>> /\ Starts(ws[1], a)
    <3>1. SplitAt(b, u) \in Seq(Seq(S \ {b})) \ {<<>>}
      BY WordsType DEF SplitAt
    <3>2. Seq(S \ {b}) \subseteq W
      BY <1>4, SeqMonotonic
    <3>3. SplitAt(b, u) \in Seq(W) /\ SplitAt(b, u) # <<>>
      BY <3>1, <3>2, SeqMonotonic
    <3>4. Starts(SplitAt(b, u)[1], a)
      BY <1>2, <1>6, <2>1, Zenon
    <3> QED
      BY <3>3, <3>4
  <2>4. SplitAt(b, <<a>> \o v) = AddAtom(b, ws, x)
    <3>1. SplitAt(b, Append(u, x)) = AddAtom(b, SplitAt(b, u), x)
      BY SplitAppend
    <3> QED
      BY <2>2, <2>3, <3>1, Zenon
  <2>5. Starts(AddAtom(b, ws, x)[1], a)
    <3>1. PICK r \in Seq(W), w \in W : ws = Append(r, w)
      BY <2>3, SequenceEmptyOrAppend
    <3>2. CASE x = b
      <4>1. <<>> \in W /\ 1 \in 1 .. Len(ws)
        <5>1. <<>> \in W
          BY <1>4, EmptySeq
        <5>2. Len(ws) \in Nat \ {0}
          BY <2>3, EmptySeq
        <5> QED
          BY <5>1, <5>2
      <4>2. Append(ws, <<>>)[1] = ws[1]
        BY <4>1, AppendProperties
      <4> QED
        BY <2>3, <3>2, <4>2, Zenon DEF AddAtom
    <3>3. CASE x # b
      <4>1. PICK y \in W : y = Append(w, x)
        BY <1>4, AppendProperties
      <4>2. AddAtom(b, ws, x) = Append(r, y)
        BY <1>4, <3>1, <3>3, <4>1, AddToLast
      <4>3. CASE r = <<>>
        <5>1. ws[1] = w /\ Append(r, y)[1] = y
          BY <3>1, <4>3
        <5>2. Starts(w, a)
          BY <2>3, <5>1, Zenon
        <5>3. Starts(y, a)
          <6>1. PICK z \in Seq(S) : z = w /\ z # <<>> /\ Head(z) = a
            BY <1>4, <5>2 DEF Starts
          <6>2. Append(z, x) # <<>> /\ Head(Append(z, x)) = Head(z)
            BY <6>1, HeadTailAppend, AppendProperties, SMTT(40)
          <6> QED
            BY <4>1, <6>1, <6>2, Zenon DEF Starts
        <5> QED
          BY <4>2, <5>1, <5>3, Zenon
      <4>4. CASE r # <<>>
        <5>1. Len(r) \in Nat \ {0}
          BY <4>4, EmptySeq
        <5>2. 1 \in 1 .. Len(r)
          BY <5>1
        <5>3. Append(r, w)[1] = r[1] /\ Append(r, y)[1] = r[1]
          BY <5>2, AppendProperties
        <5> QED
          BY <2>3, <3>1, <4>2, <5>3, Zenon
      <4> QED
        BY <4>3, <4>4
    <3> QED
      BY <3>2, <3>3
  <2>6. Starts(Split(<<a>> \o v)[1], a)
    BY <1>2, <2>4, <2>5, Zenon
  <2> QED
    BY <2>1, <2>6, Zenon
<1>7. Seq(S) \subseteq T
  <2> HIDE DEF T
  <2> QED
    BY <1>5, <1>6, AppendInduct
<1> QED
  BY <1>7

\* What begins a text in a row begins the whole.
LEMMA HeadOfConcat ==
  ASSUME NEW S, NEW x \in Seq(S), x # <<>>, NEW y \in Seq(S)
  PROVE  x \o y # <<>> /\ Head(x \o y) = Head(x)
<1>1. PICK n \in Nat, m \in Nat : n = Len(x) /\ m = Len(y) /\ n # 0
  <2>1. Len(x) \in Nat /\ Len(y) \in Nat /\ Len(x) # 0
    BY EmptySeq, LenProperties
  <2> QED
    BY <2>1
<1>2. PICK c \in Seq(S) : c = x \o y /\ InARow(c, x, y, n, m)
  BY <1>1, ConcatIs
<1>3. Len(c) # 0 /\ c[1] = x[1]
  BY <1>1, <1>2 DEF InARow
<1>4. c # <<>> /\ Head(c) = c[1] /\ Head(x) = x[1]
  BY <1>3
<1> QED
  BY <1>2, <1>3, <1>4, Zenon

\* What is after the first.
LEMMA TailOfConcat ==
  ASSUME NEW S, NEW a \in S, NEW t \in Seq(S)
  PROVE  Tail(<<a>> \o t) = t /\ Head(<<a>> \o t) = a /\ <<a>> \o t # <<>>
<1>1. <<a>> \in Seq(S) /\ Len(<<a>>) = 1 /\ <<a>> # <<>> /\ Head(<<a>>) = a
  OBVIOUS
<1>2. PICK c \in Seq(S) : c = <<a>> \o t /\ c # <<>> /\ Head(c) = a
  <2>1. PICK x \in Seq(S) : x = <<a>> /\ x # <<>> /\ Head(x) = a
    BY <1>1
  <2>2. x \o t \in Seq(S) /\ x \o t # <<>> /\ Head(x \o t) = a
    BY <2>1, HeadOfConcat, ConcatProperties
  <2> QED
    BY <2>1, <2>2, Zenon
<1>3. SubSeq(<<a>> \o t, 2, Len(<<a>> \o t)) = t
  <2>1. PICK k \in Nat, n \in Nat : k = 2 /\ n = 1
    OBVIOUS
  <2>2. n = Len(<<a>>) /\ k = Len(<<a>>) + 1
    BY <1>1, <2>1
  <2> QED
    BY <1>1, <2>1, <2>2, Halves
<1>4. Tail(c) = SubSeq(c, 2, Len(c))
  BY <1>2, TailIsSubSeq
<1> QED
  BY <1>2, <1>3, <1>4, Zenon

\* How a last parameter is written.
Coloned(p) == IF Trailing(p) THEN <<":">> \o p ELSE p

\* A text after a colon is a text.
LEMMA ColonedType ==
  ASSUME NEW S, Alphabet(S), NEW p \in Seq(S)
  PROVE  Coloned(p) \in Seq(S)
<1>1. <<":">> \in Seq(S)
  BY AlphabetHas, OneAtom
<1> QED
  BY <1>1, ConcatProperties DEF Coloned

\* A word that starts with a colon starts the last parameter.
Final(w) == Starts(w, ":")

\* Parameters are read as they were written, whatever the last one has.
LEMMA ParamsOf ==
  ASSUME NEW S, Alphabet(S), NEW ws \in Seq(Seq(S)), NEW p \in Seq(S),
         \A i \in 1 .. Len(ws) : ~Final(ws[i])
  PROVE  Params(ws \o Split(Coloned(p))) = Append(ws, p)
<1>1. PICK W : W = Seq(S)
  OBVIOUS
<1>2. PICK col \in Solid(S) : col = ":" /\ col \in S
  <2>1. ":" \in S /\ ":" # " "
    BY AlphabetHas
  <2> QED
    BY <2>1 DEF Solid
<1>3. PICK q \in W : q = Coloned(p)
  BY <1>1, ColonedType
<1>4. PICK s \in Seq(W) : s = Split(q) /\ s # <<>> /\ Join(s) = q
  <2>1. Split(q) \in Seq(Seq(Solid(S))) \ {<<>>}
    BY <1>1, SplitType
  <2>2. Seq(Solid(S)) \subseteq W
    BY <1>1, SolidTexts
  <2>3. Split(q) \in Seq(W) /\ Split(q) # <<>>
    BY <2>1, <2>2, SeqMonotonic
  <2>4. Join(Split(q)) = q
    BY <1>1, JoinOfSplit
  <2> QED
    BY <2>3, <2>4
<1>5. PICK n \in Nat, k \in Nat, m \in Nat :
        n = Len(ws) /\ k = n + 1 /\ m = Len(s) /\ m # 0
  <2>1. Len(ws) \in Nat /\ Len(s) \in Nat /\ Len(s) # 0
    BY <1>4, EmptySeq, LenProperties
  <2>2. Len(ws) + 1 \in Nat
    BY <2>1
  <2> QED
    BY <2>1, <2>2
<1>6. PICK c \in Seq(W) : c = ws \o s /\ InARow(c, ws, s, n, m)
  BY <1>1, <1>5, ConcatIs
<1>7. PICK i \in 0 .. n + m :
        /\ i = Colon(c) /\ (i # 0 => Final(c[i]))
        /\ \A j \in 1 .. n + m : Final(c[j]) => i # 0 /\ i <= j
  <2>1. Len(c) = n + m /\ c \in Seq(Seq(S))
    BY <1>1, <1>6 DEF InARow
  <2>2. /\ Colon(c) \in 0 .. Len(c)
        /\ Colon(c) # 0 => Final(c[Colon(c)])
        /\ \A j \in 1 .. Len(c) : Final(c[j]) => Colon(c) # 0 /\ Colon(c) <= j
    BY <2>1, ColonIs DEF Final
  <2> QED
    BY <2>1, <2>2
<1>8. Params(c) = IF i = 0 THEN c
                  ELSE Append(SubSeq(c, 1, i - 1), Tail(Join(SubSeq(c, i, Len(c)))))
  BY <1>7 DEF Params, Colon
<1>9. \A j \in 1 .. n : ~Final(c[j])
  BY <1>5, <1>6 DEF InARow
<1>10. CASE Trailing(p)
  <2>1. q = <<":">> \o p
    BY <1>3, <1>10 DEF Coloned
  <2>2. Final(s[1])
    <3>1. Starts(Split(<<col>> \o p)[1], col)
      BY SplitStarts
    <3> QED
      BY <1>2, <1>4, <2>1, <3>1, Zenon DEF Final
  <2>3. c[k] = s[1] /\ k \in 1 .. n + m
    BY <1>5, <1>6 DEF InARow
  <2>4. i # 0 /\ i <= k
    BY <1>7, <2>2, <2>3, Zenon
  <2>5. i = k
    <3>1. i \notin 1 .. n
      BY <1>7, <1>9, <2>4
    <3> QED
      BY <1>5, <2>4, <3>1
  <2>6. SubSeq(c, 1, n) = ws /\ SubSeq(c, k, Len(c)) = s
    <3>1. ws \in Seq(W)
      BY <1>1
    <3>2. SubSeq(ws \o s, 1, n) = ws /\ SubSeq(ws \o s, k, Len(ws \o s)) = s
      BY <1>5, <3>1, Halves, SMTT(40)
    <3> QED
      BY <1>6, <3>2, Zenon
  <2>7. i - 1 = n
    BY <1>5, <2>5
  <2>8. Tail(<<col>> \o p) = p
    BY <1>2, TailOfConcat
  <2>9. Params(c) = Append(ws, Tail(q))
    BY <1>4, <1>8, <2>4, <2>5, <2>6, <2>7, Zenon
  <2> QED
    BY <1>2, <1>3, <1>4, <1>6, <2>1, <2>8, <2>9, Zenon
<1>11. CASE ~Trailing(p)
  <2>1. q = p
    BY <1>3, <1>11 DEF Coloned
  <2>2. p \in Seq(Solid(S)) /\ ~Final(p)
    <3>1. PICK l \in Nat : l = Len(p) /\ p \in [1 .. l -> S]
      BY LenProperties
    <3>2. \A j \in 1 .. l : p[j] # " "
      BY <1>11, <3>1, Zenon DEF Trailing, Contains
    <3>3. \A j \in 1 .. l : p[j] \in Solid(S)
      BY <3>1, <3>2, Zenon DEF Solid
    <3>4. p = [j \in 1 .. l |-> p[j]]
      BY <3>1
    <3>5. p \in Seq(Solid(S))
      <4>1. PICK X : X = Solid(S)
        OBVIOUS
      <4>2. \A j \in 1 .. l : p[j] \in X
        BY <3>3, <4>1
      <4>3. [j \in 1 .. l |-> p[j]] \in Seq(X)
        BY <4>2
      <4> QED
        BY <3>4, <4>1, <4>3, Zenon
    <3>6. ~Final(p)
      BY <1>11, Zenon DEF Trailing, Final
    <3> QED
      BY <3>5, <3>6
  <2>3. s = <<p>>
    BY <1>4, <2>1, <2>2, SplitAtGap
  <2>4. i = 0
    <3>1. m = 1 /\ s[1] = p
      BY <1>5, <2>3
    <3>2. c[k] = p
      BY <1>5, <1>6, <3>1 DEF InARow
    <3>3. \A j \in 1 .. n + m : j \in 1 .. n \/ j = k
      BY <1>5, <3>1
    <3>4. \A j \in 1 .. n + m : ~Final(c[j])
      BY <1>9, <2>2, <3>2, <3>3, Zenon
    <3>5. i # 0 => i \in 1 .. n + m
      OBVIOUS
    <3> QED
      BY <1>7, <3>4, <3>5, Zenon
  <2>5. Append(ws, p) = ws \o <<p>>
    BY AppendIsConcat
  <2> QED
    BY <1>3, <1>4, <1>6, <1>8, <2>3, <2>4, <2>5, Zenon
<1> QED
  BY <1>10, <1>11

(***************************************************************************)
(* Lines are read back                                                     *)
(***************************************************************************)

\* The words a line begins with, its parameters as they are written, and what is
\* before them.
Prefixed(m) == IF m.prefix = <<>> THEN <<>> ELSE << <<":">> \o m.prefix >>
\* The parts of a message as String writes them.
Commanded(m) == IF m.cmd = "" THEN <<>> ELSE << <<m.cmd>> >>
Written(m) == [i \in DOMAIN m.params |->
                 IF i = Len(m.params) /\ Trailing(m.params[i]) THEN <<":">> \o m.params[i]
                 ELSE m.params[i]]
Begun(m) == (IF m.prefix = <<>> THEN <<>> ELSE <<":">> \o m.prefix)
              \o (IF m.cmd = "" THEN <<>>
                  ELSE IF m.prefix = <<>> THEN <<m.cmd>> ELSE <<" ", m.cmd>>)

\* Texts in which commands may be.
Speakable(S) == Alphabet(S) /\ STRING \subseteq S

\* The prefix and the command of a message, as words of a line.
LEMMA BeginningType ==
  ASSUME NEW S, Speakable(S), NEW m \in MessagesOf(S)
  PROVE  /\ Prefixed(m) \in Seq(Seq(Solid(S))) /\ Commanded(m) \in Seq(Seq(Solid(S)))
         /\ Prefixed(m) \o Commanded(m) \in Seq(Seq(Solid(S)))
         /\ Prefixed(m) \o Commanded(m) # <<>>
<1>1. PICK W : W = Seq(Solid(S))
  OBVIOUS
<1>2. /\ m.prefix \in W /\ m.cmd \in Solid(S) /\ (m.cmd = "" => m.prefix # <<>>)
  <2>1. m.cmd \in STRING /\ m.cmd # " " /\ m.prefix \in W /\ (m.cmd = "" => m.prefix # <<>>)
    BY <1>1, Zenon DEF MessagesOf, Commands
  <2> QED
    BY <2>1, Zenon DEF Speakable, Solid
<1>3. <<":">> \in W
  <2>1. ":" \in S /\ ":" # " "
    BY AlphabetHas DEF Speakable
  <2>2. ":" \in Solid(S)
    BY <2>1, Zenon DEF Solid
  <2> QED
    BY <1>1, <2>2, OneAtom
<1>4. Prefixed(m) \in Seq(W) /\ (m.prefix # <<>> => Prefixed(m) # <<>>)
  <2>1. <<":">> \o m.prefix \in W
    BY <1>1, <1>2, <1>3, ConcatProperties
  <2>2. << <<":">> \o m.prefix >> \in Seq(W) /\ << <<":">> \o m.prefix >> # <<>>
    BY <2>1, OneAtom
  <2>3. <<>> \in Seq(W)
    BY EmptySeq
  <2> QED
    BY <2>2, <2>3, Zenon DEF Prefixed
<1>5. Commanded(m) \in Seq(W) /\ (m.cmd # "" => Commanded(m) # <<>>)
  <2>1. <<m.cmd>> \in W
    BY <1>1, <1>2, OneAtom
  <2>2. << <<m.cmd>> >> \in Seq(W) /\ << <<m.cmd>> >> # <<>>
    BY <2>1, OneAtom
  <2>3. <<>> \in Seq(W)
    BY EmptySeq
  <2> QED
    BY <2>2, <2>3, Zenon DEF Commanded
<1>6. Prefixed(m) \o Commanded(m) \in Seq(W)
  BY <1>4, <1>5, ConcatProperties
<1>7. Prefixed(m) \o Commanded(m) # <<>>
  <2>1. PICK a \in Seq(W), b \in Seq(W) : a = Prefixed(m) /\ b = Commanded(m)
    BY <1>4, <1>5
  <2>2. a \o b = <<>> <=> a = <<>> /\ b = <<>>
    BY ConcatEqualIffEmpty
  <2>3. a # <<>> \/ b # <<>>
    BY <1>2, <1>4, <1>5, <2>1, Zenon
  <2> QED
    BY <2>1, <2>2, <2>3, Zenon
<1> QED
  BY <1>1, <1>4, <1>5, <1>6, <1>7

\* One after the other is both.
LEMMA TwoAlone ==
  ASSUME NEW S, NEW a \in S, NEW b \in S
  PROVE  <<a>> \o <<b>> = <<a, b>>
<1>1. PICK x \in Seq(S) : x = <<a>> /\ Len(x) = 1 /\ x[1] = a
  <2>1. <<a>> \in Seq(S) /\ Len(<<a>>) = 1 /\ <<a>>[1] = a
    OBVIOUS
  <2> QED
    BY <2>1
<1>2. PICK y \in Seq(S) : y = <<b>> /\ Len(y) = 1 /\ y[1] = b
  <2>1. <<b>> \in Seq(S) /\ Len(<<b>>) = 1 /\ <<b>>[1] = b
    OBVIOUS
  <2> QED
    BY <2>1
<1>3. PICK z \in Seq(S) : z = <<a, b>> /\ Len(z) = 2 /\ z[1] = a /\ z[2] = b
  <2>1. <<a, b>> \in Seq(S) /\ Len(<<a, b>>) = 2 /\ <<a, b>>[1] = a /\ <<a, b>>[2] = b
    OBVIOUS
  <2> QED
    BY <2>1
<1>4. PICK c \in Seq(S) : c = x \o y /\ Len(c) = 2 /\ c[1] = a /\ c[2] = b
  <2>1. /\ x \o y \in Seq(S) /\ Len(x \o y) = Len(x) + Len(y)
        /\ \A i \in 1 .. Len(x) + Len(y) : (x \o y)[i] =
             IF i <= Len(x) THEN x[i] ELSE y[i - Len(x)]
    BY ConcatProperties
  <2>2. PICK c : c = x \o y
    OBVIOUS
  <2>3. Len(c) = 2 /\ \A i \in 1 .. 2 : c[i] = IF i <= 1 THEN x[i] ELSE y[i - 1]
    BY <1>1, <1>2, <2>1, <2>2
  <2>4. c[1] = x[1] /\ c[2] = y[1]
    BY <2>3
  <2> QED
    BY <1>1, <1>2, <2>1, <2>2, <2>3, <2>4
<1>5. c = z
  <2>1. \A i \in 1 .. 2 : c[i] = z[i]
    BY <1>3, <1>4
  <2> QED
    BY <1>3, <1>4, <2>1, SeqEqual, ZenonT(60)
<1> QED
  BY <1>1, <1>2, <1>3, <1>4, <1>5, Zenon

\* A line begins with its first words.
LEMMA BegunIs ==
  ASSUME NEW S, Speakable(S), NEW m \in MessagesOf(S)
  PROVE  Begun(m) = Join(Prefixed(m) \o Commanded(m)) /\ Begun(m) \in Seq(S)
<1>1. Alphabet(S)
  BY DEF Speakable
<1>2. PICK p \in Seq(S) : p = m.prefix
  <2>1. m.prefix \in Seq(Solid(S))
    BY Zenon DEF MessagesOf
  <2> QED
    BY <2>1, SolidTexts
<1>3. PICK c \in S : c = m.cmd
  BY Zenon DEF MessagesOf, Commands, Speakable
<1>4. <<":">> \o p \in Seq(S) /\ <<c>> \in Seq(S)
  <2>1. <<":">> \in Seq(S)
    BY <1>1, AlphabetHas, OneAtom
  <2> QED
    BY <2>1, ConcatProperties, OneAtom
<1>5. PICK x \in Seq(S) : x = <<":">> \o p
  BY <1>4
<1>6. Begun(m) = Join(Prefixed(m) \o Commanded(m))
  <2>1. CASE p = <<>>
    <3>1. c # ""
      BY <1>2, <1>3, <2>1, Zenon DEF MessagesOf
    <3>2. Prefixed(m) = <<>> /\ Commanded(m) = << <<c>> >> /\ Begun(m) = <<>> \o <<c>>
      BY <1>2, <1>3, <2>1, <3>1, Zenon DEF Prefixed, Commanded, Begun
    <3>3. <<>> \o <<c>> = <<c>> /\ <<>> \o << <<c>> >> = << <<c>> >>
      OBVIOUS
    <3>4. Join(<< <<c>> >>) = <<c>>
      BY <1>4, JoinOne
    <3> QED
      BY <3>2, <3>3, <3>4, Zenon
  <2>2. CASE p # <<>> /\ c = ""
    <3>1. Prefixed(m) = <<x>> /\ Commanded(m) = <<>> /\ Begun(m) = x \o <<>>
      BY <1>2, <1>3, <1>5, <2>2, Zenon DEF Prefixed, Commanded, Begun
    <3>2. x \o <<>> = x /\ <<x>> \o <<>> = <<x>>
      BY ConcatEmptySeq
    <3>3. Join(<<x>>) = x
      BY JoinOne
    <3> QED
      BY <3>1, <3>2, <3>3, Zenon
  <2>3. CASE p # <<>> /\ c # ""
    <3>1. Prefixed(m) = <<x>> /\ Commanded(m) = << <<c>> >> /\ Begun(m) = x \o <<" ", c>>
      BY <1>2, <1>3, <1>5, <2>3, Zenon DEF Prefixed, Commanded, Begun
    <3>2. PICK y \in Seq(S) : y = <<c>>
      BY <1>4
    <3>3. <<x>> \o <<y>> = Append(<<x>>, y)
      OBVIOUS
    <3>4. Join(Append(<<x>>, y)) = Join(<<x>>) \o (Gap \o y)
      <4>1. <<x>> \in Seq(Seq(S)) /\ <<x>> # <<>>
        BY OneAtom
      <4> QED
        BY <1>1, <4>1, JoinAppend
    <3>5. Gap \o y = <<" ", c>>
      <4>1. PICK b \in S : b = " "
        BY <1>1, AlphabetHas
      <4>2. <<b>> \o <<c>> = <<b, c>>
        BY TwoAlone
      <4> QED
        BY <3>2, <4>1, <4>2, Zenon DEF Gap
    <3>6. Join(<<x>>) = x
      BY JoinOne
    <3> QED
      BY <3>1, <3>2, <3>3, <3>4, <3>5, <3>6, Zenon
  <2> QED
    BY <2>1, <2>2, <2>3
<1>7. Join(Prefixed(m) \o Commanded(m)) \in Seq(S)
  <2>1. PICK ws \in Seq(Seq(Solid(S))) : ws = Prefixed(m) \o Commanded(m)
    BY BeginningType
  <2>2. ws \in Seq(Seq(S))
    BY SolidTexts, SeqMonotonic
  <2> QED
    BY <1>1, <2>1, <2>2, JoinType
<1> QED
  BY <1>6, <1>7

\* The parameters of a message as they are written: the last after a colon.
LEMMA WrittenIs ==
  ASSUME NEW S, Alphabet(S), NEW m, NEW r \in Seq(Seq(S)), NEW p \in Seq(S),
         m.params = Append(r, p)
  PROVE  Written(m) = Append(r, Coloned(p))
<1>1. PICK W : W = Seq(S)
  OBVIOUS
<1>2. PICK n \in Nat, k \in Nat : n = Len(r) /\ k = n + 1
  BY LenProperties
<1>3. PICK ps \in Seq(W) : /\ ps = m.params /\ Len(ps) = k /\ ps[k] = p /\ DOMAIN ps = 1 .. k
                           /\ \A i \in 1 .. n : ps[i] = r[i]
  <2>1. r \in Seq(W) /\ p \in W
    BY <1>1
  <2>2. /\ Append(r, p) \in Seq(W) /\ Len(Append(r, p)) = k /\ Append(r, p)[k] = p
        /\ \A i \in 1 .. n : Append(r, p)[i] = r[i]
    BY <1>2, <2>1, AppendProperties
  <2>3. DOMAIN Append(r, p) = 1 .. k
    BY <2>2, LenProperties
  <2> QED
    BY <2>2, <2>3, Zenon
<1>4. PICK q \in W : q = Coloned(p)
  BY <1>1, ColonedType
<1>5. PICK x \in Seq(W) : /\ x = Append(r, q) /\ Len(x) = k /\ x[k] = q
                          /\ \A i \in 1 .. n : x[i] = r[i]
  <2>1. r \in Seq(W)
    BY <1>1
  <2>2. /\ Append(r, q) \in Seq(W) /\ Len(Append(r, q)) = k /\ Append(r, q)[k] = q
        /\ \A i \in 1 .. n : Append(r, q)[i] = r[i]
    BY <1>2, <2>1, AppendProperties
  <2> QED
    BY <2>2, Zenon
<1>6. Written(m) = [i \in 1 .. k |-> IF i = k /\ Trailing(ps[i]) THEN <<":">> \o ps[i]
                                     ELSE ps[i]]
  BY <1>3, Zenon DEF Written
<1>7. \A i \in 1 .. k : (IF i = k /\ Trailing(ps[i]) THEN <<":">> \o ps[i] ELSE ps[i]) = x[i]
  <2> SUFFICES ASSUME NEW i \in 1 .. k
               PROVE  (IF i = k /\ Trailing(ps[i]) THEN <<":">> \o ps[i] ELSE ps[i]) = x[i]
    OBVIOUS
  <2>1. CASE i = k
    BY <1>3, <1>4, <1>5, <2>1, Zenon DEF Coloned
  <2>2. CASE i # k
    <3>1. i \in 1 .. n
      BY <1>2, <2>2
    <3> QED
      BY <1>3, <1>5, <2>2, <3>1, Zenon
  <2> QED
    BY <2>1, <2>2
<1>8. x = [i \in 1 .. k |-> x[i]]
  <2>1. x \in [1 .. Len(x) -> W]
    BY LenProperties
  <2>2. x \in [1 .. k -> W]
    BY <1>5, <2>1, Zenon
  <2> QED
    BY <2>2, Zenon
<1>9. Written(m) = x
  BY <1>6, <1>7, <1>8, Zenon
<1> QED
  BY <1>4, <1>5, <1>9, Zenon

\* The words before the parameters are joined with the parameters as they are
\* written.
LEMMA StringIs ==
  ASSUME NEW S, Speakable(S), NEW m \in MessagesOf(S)
  PROVE  String(m) = Begun(m) \o FlattenSeq(Gapped(Written(m)))
<1>1. Alphabet(S)
  BY DEF Speakable
<1>2. PICK ps \in Seq(Seq(S)) : ps = m.params
  BY Zenon DEF MessagesOf
<1>3. PICK n \in Nat : n = Len(ps) /\ DOMAIN ps = 1 .. n
  BY LenProperties
<1>4. PICK col \in Seq(S), no \in Seq(S), gap \in Seq(S) :
        col = <<":">> /\ no = <<>> /\ gap = <<" ">>
  <2>1. ":" \in S /\ " " \in S
    BY <1>1, AlphabetHas
  <2>2. <<":">> \in Seq(S) /\ <<>> \in Seq(S) /\ <<" ">> \in Seq(S)
    BY <2>1, OneAtom, EmptySeq
  <2> QED
    BY <2>2
<1> DEFINE last(i) == i = n /\ Trailing(ps[i])
           param(i) == gap \o (IF last(i) THEN col ELSE no) \o ps[i]
           written(i) == IF last(i) THEN col \o ps[i] ELSE ps[i]
<1>5. String(m) = Begun(m) \o FlattenSeq([i \in 1 .. n |-> param(i)])
  BY <1>2, <1>3, <1>4, Zenon DEF String, Begun
<1>6. Written(m) = [i \in 1 .. n |-> written(i)]
  BY <1>2, <1>3, <1>4, Zenon DEF Written
<1>7. ASSUME NEW i \in 1 .. n
      PROVE  param(i) = gap \o written(i)
  <2>1. PICK p \in Seq(S) : p = ps[i]
    BY <1>3, ElementOfSeq
  <2>2. Associates(gap, col, p)
    BY Associate
  <2>3. gap \o no = gap
    BY <1>4, ConcatEmptySeq
  <2> QED
    BY <2>1, <2>2, <2>3, Zenon DEF Associates
<1>8. Gapped(Written(m)) = [i \in 1 .. n |-> gap \o written(i)]
  <2>1. PICK f : f = Written(m)
    OBVIOUS
  <2>2. DOMAIN f = 1 .. n /\ \A i \in 1 .. n : f[i] = written(i)
    <3> HIDE DEF written
    <3> QED
      BY <1>6, <2>1
  <2>3. Gapped(f) = [i \in 1 .. n |-> gap \o f[i]]
    BY <1>4, <2>2, Zenon DEF Gapped, Gap
  <2> HIDE DEF written
  <2>4. [i \in 1 .. n |-> gap \o f[i]] = [i \in 1 .. n |-> gap \o written(i)]
    BY <2>2, Zenon
  <2> QED
    BY <2>1, <2>3, <2>4, Zenon
<1>9. [i \in 1 .. n |-> param(i)] = [i \in 1 .. n |-> gap \o written(i)]
  <2> HIDE DEF param, written
  <2> QED
    BY <1>7, Zenon
<1> QED
  BY <1>5, <1>8, <1>9, Zenon

\* A parameter that is not the last can be written if it is a word.
Word(t) == t # <<>> /\ ~Contains(t, " ") /\ ~Starts(t, ":")

\* The names LinesReadBack has for the parts of a message.
Fields(m) == <<m.prefix>> \o (IF m.cmd = "" THEN <<>> ELSE << <<m.cmd>> >>) \o m.params

Writable(m) == /\ \A i \in 1 .. Len(m.params) - 1 : Word(m.params[i])
               /\ Last(m.params) # <<>>

\* The words of the line of a message are those it begins with, its parameters, and
\* those of the last as it is written.
LEMMA WordsOfLine ==
  ASSUME NEW S, Speakable(S), NEW m \in MessagesOf(S), NEW r \in Seq(Seq(S)),
         r \in Seq(Seq(Solid(S))), NEW p \in Seq(S), m.params = Append(r, p)
  PROVE  Split(String(m)) = ((Prefixed(m) \o Commanded(m)) \o r) \o Split(Coloned(p))
<1>1. Alphabet(S)
  BY DEF Speakable
<1>2. PICK W : W = Seq(Solid(S)) /\ W \subseteq Seq(S)
  BY SolidTexts
<1>3. PICK h \in Seq(W) : h = Prefixed(m) \o Commanded(m) /\ h # <<>>
  BY <1>2, BeginningType
<1>4. PICK z \in Seq(W) : z = h \o r /\ z # <<>>
  <2>1. r \in Seq(W)
    BY <1>2
  <2>2. h \o r \in Seq(W)
    BY <2>1, ConcatProperties
  <2>3. h \o r # <<>>
    BY <1>3, <2>1, ConcatEqualIffEmpty
  <2> QED
    BY <2>2, <2>3
<1>5. h \in Seq(Seq(S)) /\ z \in Seq(Seq(S))
  BY <1>2, SeqMonotonic
<1>6. PICK q \in Seq(S) : q = Coloned(p)
  BY <1>1, ColonedType
<1>7. String(m) = Join(h) \o FlattenSeq(Gapped(Append(r, q)))
  <2>1. String(m) = Begun(m) \o FlattenSeq(Gapped(Written(m)))
    BY StringIs
  <2>2. Begun(m) = Join(h)
    BY <1>3, BegunIs
  <2>3. Written(m) = Append(r, q)
    BY <1>1, <1>6, WrittenIs
  <2> QED
    BY <2>1, <2>2, <2>3, Zenon
<1>8. Append(r, q) \in Seq(Seq(S))
  BY AppendProperties
<1>9. Join(h \o Append(r, q)) = Join(h) \o FlattenSeq(Gapped(Append(r, q)))
  BY <1>1, <1>3, <1>5, <1>8, JoinConcat
<1>10. h \o Append(r, q) = Append(z, q)
  <2>1. PICK X : X = Seq(S) /\ h \in Seq(X) /\ r \in Seq(X) /\ q \in X
    BY <1>5
  <2> QED
    BY <1>4, <2>1, ConcatAppend, SMTT(40)
<1>11. Join(Append(z, q)) = Join(z) \o (Gap \o q)
  BY <1>1, <1>4, <1>5, JoinAppend
<1>12. PICK j \in Seq(S) : j = Join(z)
  BY <1>1, <1>5, JoinType
<1>13. Split(j \o (Gap \o q)) = Split(j) \o Split(q)
  BY <1>1, SplitAtGap
<1>14. Split(j) = z
  BY <1>1, <1>2, <1>4, <1>12, SplitOfJoin
<1> QED
  BY <1>3, <1>4, <1>6, <1>7, <1>9, <1>10, <1>11, <1>12, <1>13, <1>14, Zenon

\* What a line starts with.
LEMMA LineStarts ==
  ASSUME NEW S, Speakable(S), NEW m \in MessagesOf(S)
  PROVE  Starts(String(m), ":") <=> m.prefix # <<>>
<1>1. Alphabet(S)
  BY DEF Speakable
<1>2. PICK col \in S : col = ":"
  BY <1>1, AlphabetHas
<1>3. PICK f \in Seq(S) : f = FlattenSeq(Gapped(Written(m)))
  <2>1. PICK ps \in Seq(Seq(S)) : ps = m.params /\ ps # <<>>
    BY Zenon DEF MessagesOf
  <2>2. PICK r \in Seq(Seq(S)), p \in Seq(S) : ps = Append(r, p)
    BY <2>1, SequenceEmptyOrAppend
  <2>3. Coloned(p) \in Seq(S) /\ Written(m) = Append(r, Coloned(p))
    <3>1. Coloned(p) \in Seq(S)
      BY <1>1, ColonedType
    <3>2. m.params = Append(r, p)
      BY <2>1, <2>2, Zenon
    <3>3. Written(m) = Append(r, Coloned(p))
      BY <1>1, <3>2, WrittenIs
    <3> QED
      BY <3>1, <3>3
  <2>4. Written(m) \in Seq(Seq(S))
    BY <2>3, AppendProperties
  <2>5. Gapped(Written(m)) \in Seq(Seq(S))
    BY <1>1, <2>4, GappedType
  <2> QED
    BY <2>5, FlattenType
<1>4. PICK b \in Seq(S) : b = Begun(m)
  BY BegunIs
<1>5. String(m) = b \o f
  BY <1>3, <1>4, StringIs
<1>6. CASE m.prefix # <<>>
  <2>1. PICK p \in Seq(S) : p = m.prefix
    <3>1. m.prefix \in Seq(Solid(S))
      BY Zenon DEF MessagesOf
    <3> QED
      BY <3>1, SolidTexts
  <2>2. PICK x \in Seq(S) : x = <<col>> \o p /\ x # <<>> /\ Head(x) = col
    <3>1. <<col>> \o p # <<>> /\ Head(<<col>> \o p) = col
      BY TailOfConcat
    <3>2. <<col>> \in Seq(S)
      BY OneAtom
    <3>3. <<col>> \o p \in Seq(S)
      BY <3>2, ConcatProperties
    <3> QED
      BY <3>1, <3>3
  <2>3. PICK y \in Seq(S) : b = x \o y
    <3>1. m.cmd \in S
      BY Zenon DEF MessagesOf, Commands, Speakable
    <3>2. " " \in S
      BY <1>1, AlphabetHas
    <3>3. <<>> \in Seq(S) /\ <<" ", m.cmd>> \in Seq(S)
      BY <3>1, <3>2, TwoAtoms, EmptySeq
    <3>4. b = x \o (IF m.cmd = "" THEN <<>> ELSE <<" ", m.cmd>>)
      BY <1>2, <1>4, <1>6, <2>1, <2>2, Zenon DEF Begun
    <3> QED
      BY <3>3, <3>4, Zenon
  <2>4. b # <<>> /\ Head(b) = col
    BY <2>2, <2>3, HeadOfConcat
  <2>5. b \o f # <<>> /\ Head(b \o f) = col
    BY <2>4, HeadOfConcat
  <2> QED
    BY <1>2, <1>5, <1>6, <2>5, Zenon DEF Starts
<1>7. CASE m.prefix = <<>>
  <2>1. PICK c \in S : c = m.cmd /\ c # "" /\ c # col
    BY <1>2, <1>7, Zenon DEF MessagesOf, Commands, Speakable
  <2>2. b = <<>> \o <<c>>
    BY <1>4, <1>7, <2>1, Zenon DEF Begun
  <2>3. <<>> \o <<c>> = <<c>>
    OBVIOUS
  <2>4. <<c>> \o f # <<>> /\ Head(<<c>> \o f) = c
    BY TailOfConcat
  <2> QED
    BY <1>2, <1>5, <1>7, <2>1, <2>2, <2>3, <2>4, Zenon DEF Starts
<1> QED
  BY <1>6, <1>7

\* A message that can be written is read back.
LEMMA LineReadsBack ==
  ASSUME NEW S, Speakable(S), NEW m \in MessagesOf(S), Writable(m)
  PROVE  ReadBack(String(m)) = Fields(m)
<1>1. Alphabet(S)
  BY DEF Speakable
<1>2. PICK W : W = Seq(Solid(S)) /\ W \subseteq Seq(S)
  BY SolidTexts
<1>3. PICK X : X = Seq(S) /\ W \subseteq X
  BY <1>2
<1>4. PICK r \in Seq(X), p \in X : m.params = Append(r, p)
  <2>1. m.params \in Seq(X) /\ m.params # <<>>
    BY <1>3, Zenon DEF MessagesOf
  <2> QED
    BY <2>1, SequenceEmptyOrAppend
<1>5. PICK n \in Nat : n = Len(r)
  BY LenProperties
<1>6. \A i \in 1 .. n : Word(r[i])
  <2>1. Len(Append(r, p)) = n + 1 /\ \A i \in 1 .. n : Append(r, p)[i] = r[i]
    BY <1>5, AppendProperties
  <2>2. Len(m.params) - 1 = n
    BY <1>4, <2>1
  <2> QED
    BY <1>4, <2>1, <2>2, Zenon DEF Writable
<1>7. r \in Seq(W)
  <2>1. ASSUME NEW t \in X, Word(t)
        PROVE  t \in W
    <3>1. PICK l \in Nat : l = Len(t) /\ t \in [1 .. l -> S]
      BY <1>3, LenProperties
    <3>2. \A j \in 1 .. l : t[j] # " "
      BY <2>1, <3>1, Zenon DEF Word, Contains
    <3>3. PICK Z : Z = Solid(S)
      OBVIOUS
    <3>4. \A j \in 1 .. l : t[j] \in Z
      BY <3>1, <3>2, <3>3, Zenon DEF Solid
    <3>5. [j \in 1 .. l |-> t[j]] \in Seq(Z)
      BY <3>4
    <3>6. t = [j \in 1 .. l |-> t[j]]
      BY <3>1
    <3> QED
      BY <1>2, <3>3, <3>5, <3>6, Zenon
  <2>2. \A i \in 1 .. n : r[i] \in W
    BY <1>5, <1>6, <2>1, ElementOfSeq
  <2>3. [i \in 1 .. n |-> r[i]] \in Seq(W)
    BY <2>2
  <2>4. r = [i \in 1 .. n |-> r[i]]
    BY <1>5
  <2> QED
    BY <2>3, <2>4, Zenon
<1>8. PICK h \in Seq(W), c \in Seq(W) : h = Prefixed(m) /\ c = Commanded(m)
  BY <1>2, BeginningType
<1>9. PICK s \in Seq(X) : s = Split(Coloned(p))
  <2>1. PICK q \in Seq(S) : q = Coloned(p)
    BY <1>1, <1>3, ColonedType
  <2>2. Split(q) \in Seq(W)
    BY <1>2, SplitType
  <2> QED
    BY <1>3, <2>1, <2>2, SeqMonotonic
<1>10. Split(String(m)) = ((h \o c) \o r) \o s
  <2>1. r \in Seq(Seq(S)) /\ r \in Seq(Seq(Solid(S))) /\ p \in Seq(S)
    BY <1>2, <1>3, <1>4, <1>7, Zenon
  <2>2. Split(String(m)) = ((Prefixed(m) \o Commanded(m)) \o r) \o Split(Coloned(p))
    BY <1>4, <2>1, WordsOfLine, SMTT(40)
  <2> QED
    BY <1>8, <1>9, <2>2, Zenon
<1>11. h \in Seq(X) /\ c \in Seq(X)
  BY <1>3, <1>8, SeqMonotonic
<1>12. PICK a \in Seq(X) : a = c \o r
  BY <1>11, ConcatProperties
<1>13. Params(a \o s) = Append(a, p)
  <2>1. \A i \in 1 .. Len(a) : ~Final(a[i])
    <3>1. \A i \in 1 .. n : ~Final(r[i])
      BY <1>6, Zenon DEF Word, Final
    <3>2. \A i \in 1 .. Len(c) : ~Final(c[i])
      <4>1. CASE m.cmd = ""
        <5>1. c = <<>>
          BY <1>8, <4>1, Zenon DEF Commanded
        <5> QED
          BY <5>1
      <4>2. CASE m.cmd # ""
        <5>1. PICK w : w = <<m.cmd>>
          OBVIOUS
        <5>2. c = <<w>>
          BY <1>8, <4>2, <5>1, Zenon DEF Commanded
        <5>3. \A i \in 1 .. Len(c) : c[i] = w
          BY <5>2
        <5>4. Head(<<m.cmd>>) = m.cmd
          OBVIOUS
        <5>5. m.cmd # ":"
          BY Zenon DEF MessagesOf, Commands
        <5>6. ~Final(w)
          BY <5>1, <5>4, <5>5, Zenon DEF Final, Starts
        <5> QED
          BY <5>3, <5>6, Zenon
      <4> QED
        BY <4>1, <4>2
    <3>3. PICK k \in Nat : k = Len(c)
      BY LenProperties
    <3>4. InARow(a, c, r, k, n)
      BY <1>5, <1>11, <1>12, <3>3, ConcatIs
    <3>5. ASSUME NEW i \in 1 .. k + n
          PROVE  ~Final(a[i])
      <4>1. CASE i <= k
        BY <3>2, <3>3, <3>4, <4>1 DEF InARow
      <4>2. CASE i > k
        <5>1. PICK j \in Nat : j = i - k
          BY <4>2
        <5>2. j \in 1 .. n /\ i = k + j
          BY <4>2, <5>1
        <5> QED
          BY <3>1, <3>4, <5>2 DEF InARow
      <4> QED
        BY <4>1, <4>2
    <3>6. Len(a) = k + n
      BY <3>4 DEF InARow
    <3> QED
      BY <3>5, <3>6
  <2>2. a \in Seq(Seq(S)) /\ p \in Seq(S)
    BY <1>3
  <2>3. Params(a \o Split(Coloned(p))) = Append(a, p)
    BY <1>1, <2>1, <2>2, ParamsOf
  <2> QED
    BY <1>9, <2>3, Zenon
<1>14. Append(a, p) = c \o m.params
  <2>1. c \o Append(r, p) = Append(c \o r, p)
    BY <1>11, ConcatAppend
  <2> QED
    BY <1>4, <1>12, <2>1, Zenon
<1>15. (h \o a) \o s = h \o (a \o s) /\ (h \o c) \o r = h \o a
  <2>1. Associates(h, a, s) /\ Associates(h, c, r)
    BY <1>11, Associate
  <2> QED
    BY <1>12, <2>1, Zenon DEF Associates
<1>16. PICK t \in Seq(X) : t = a \o s
  BY ConcatProperties
<1>17. Split(String(m)) = h \o t
  BY <1>10, <1>15, <1>16, Zenon
<1>18. m.prefix \in X /\ <<m.prefix>> \in Seq(X)
  <2>1. m.prefix \in X
    BY <1>2, <1>3, Zenon DEF MessagesOf
  <2> QED
    BY <2>1, OneAtom
<1>19. Fields(m) = <<m.prefix>> \o (c \o m.params)
  <2>1. m.params \in Seq(X)
    BY <1>3, Zenon DEF MessagesOf
  <2>2. Associates(<<m.prefix>>, c, m.params)
    BY <1>11, <1>18, <2>1, Associate
  <2> QED
    BY <1>8, <2>2, Zenon DEF Associates, Fields, Commanded
<1>20. CASE m.prefix = <<>>
  <2>1. h = <<>> /\ h \o t = t
    BY <1>8, <1>20, ConcatEmptySeq DEF Prefixed
  <2>2. ~Starts(String(m), ":")
    BY <1>20, LineStarts
  <2>3. ReadBack(String(m)) = << <<>> >> \o Params(t)
    BY <1>17, <2>1, <2>2, Zenon DEF ReadBack
  <2> QED
    BY <1>13, <1>14, <1>16, <1>19, <1>20, <2>3, Zenon
<1>21. CASE m.prefix # <<>>
  <2>1. PICK x : x = <<":">> \o m.prefix
    OBVIOUS
  <2>2. h = <<x>>
    BY <1>8, <1>21, <2>1, Zenon DEF Prefixed
  <2>3. Tail(x) = m.prefix
    <3>1. PICK col \in S : col = ":"
      BY <1>1, AlphabetHas
    <3>2. PICK q \in Seq(S) : q = m.prefix
      BY <1>3, <1>18
    <3>3. Tail(<<col>> \o q) = q
      BY TailOfConcat
    <3> QED
      BY <2>1, <3>1, <3>2, <3>3, Zenon
  <2>4. PICK ws : ws = h \o t
    OBVIOUS
  <2>5. ws[1] = x /\ SubSeq(ws, 2, Len(ws)) = t
    <3>1. Len(h) = 1 /\ h[1] = x
      BY <2>2
    <3>2. PICK k \in Nat, o \in Nat, l \in Nat : k = 2 /\ o = 1 /\ l = Len(t)
      <4>1. Len(t) \in Nat /\ 2 \in Nat /\ 1 \in Nat
        BY LenProperties
      <4> QED
        BY <4>1
    <3>3. o = Len(h) /\ k = Len(h) + 1
      BY <3>1, <3>2
    <3>4. SubSeq(h \o t, k, Len(h \o t)) = t
      BY <1>11, <3>3, Halves
    <3>5. InARow(h \o t, h, t, o, l)
      BY <1>11, <3>2, <3>3, ConcatIs
    <3>6. ws[1] = h[1]
      BY <2>4, <3>2, <3>5 DEF InARow
    <3> QED
      BY <2>4, <3>1, <3>2, <3>4, <3>6, Zenon
  <2>6. Starts(String(m), ":")
    BY <1>21, LineStarts
  <2>7. ReadBack(String(m)) = <<Tail(x)>> \o Params(t)
    BY <1>17, <2>4, <2>5, <2>6, Zenon DEF ReadBack
  <2> QED
    BY <1>13, <1>14, <1>16, <1>19, <2>3, <2>7, Zenon
<1> QED
  BY <1>20, <1>21

\* Every message the server writes to a client can be read as it was meant: with
\* words for its parameters but the last, and something for that, its line is read
\* back as the same prefix, command and parameters, whatever blanks and colons the
\* last one has.
THEOREM EveryLineReadsBack == Spec => []LinesReadBack
<1>1. ASSUME FlowTypes
      PROVE  LinesReadBack
  <2>1. Speakable(STRING)
    BY DEF Speakable, Alphabet
  <2>3. MessagesOf(Speech) \subseteq MessagesOf(STRING)
        /\ ToldOf(STRING) \subseteq MessagesOf(STRING)
    BY SpeechIs, MessagesMonotonic
  <2>4. \A m \in ToSet(answers) \cup ToSet(shown) \cup ({relayed} \ {None}) :
          m \in MessagesOf(STRING)
    <3>1. \A m \in ToSet(answers) : m \in MessagesOf(STRING)
      <4>1. answers \in Seq(MessagesOf(Speech))
        BY <1>1, Zenon DEF FlowTypes
      <4>2. \A i \in DOMAIN answers : answers[i] \in MessagesOf(Speech)
        BY <4>1, LenProperties, ElementOfSeq
      <4> QED
        BY <2>3, <4>2, Zenon DEF ToSet
    <3>2. \A m \in ToSet(shown) : m \in MessagesOf(STRING)
      <4>1. shown \in Seq(ToldOf(STRING))
        BY <1>1, Zenon DEF FlowTypes
      <4>2. \A i \in DOMAIN shown : shown[i] \in ToldOf(STRING)
        BY <4>1, LenProperties, ElementOfSeq
      <4> QED
        BY <2>3, <4>2, Zenon DEF ToSet
    <3>3. relayed # None => relayed \in MessagesOf(STRING)
      BY <1>1, <2>3, Zenon DEF FlowTypes
    <3> QED
      BY <3>1, <3>2, <3>3, Zenon
  <2>5. ASSUME NEW m \in ToSet(answers) \cup ToSet(shown) \cup ({relayed} \ {None}),
               Writable(m)
        PROVE  ReadBack(String(m)) = Fields(m)
    BY <2>1, <2>4, <2>5, LineReadsBack
  <2> QED
    BY <2>5, Zenon DEF LinesReadBack, Writable, Word, Fields
<1> QED
  BY <1>1, FlowTypesInvariant, PTL

(***************************************************************************)
(* The names a client is told                                              *)
(***************************************************************************)

\* Words that nothing is trimmed of.
NickWord == {w \in Seq(Solid(Speech)) : Firm(w)}

\* They are texts, and words.
LEMMA NickWordType ==
  /\ NickWord \subseteq Seq(Speech)
  /\ Seq(NickWord) \subseteq Seq(Seq(Speech))
  /\ Seq(NickWord) \subseteq Seq(Seq(Solid(Speech)))
<1>1. NickWord \subseteq Seq(Speech) /\ NickWord \subseteq Seq(Solid(Speech))
  BY SolidTexts DEF NickWord
<1> QED
  BY <1>1, SeqMonotonic

\* No nick starts or ends with a no-break space.
Trimmed == \A u \in Users : "nbsp" \notin {Head(Nick[u]), Last(Nick[u])}

\* Such a nick is a word that nothing is trimmed of.
LEMMA NicksAreWords ==
  ASSUME Trimmed, NEW u \in Users
  PROVE  Nick[u] \in NickWord
<1>1. PICK S : S = Solid(Speech) /\ " " \notin S
  <2>1. " " \notin Solid(Speech)
    BY DEF Solid
  <2> QED
    BY <2>1
<1>2. PICK w \in Seq(S) : w = Nick[u] /\ w # <<>>
  <2>1. Nick[u] \in Seq(Atoms \ {" ", "\n"}) /\ Nick[u] # <<>>
    BY NickAssumption DEF NickText
  <2>2. Atoms \ {" ", "\n"} \subseteq S
    BY <1>1 DEF Solid, Speech, Atoms
  <2> QED
    BY <2>1, <2>2, SeqMonotonic
<1>3. PICK n \in Nat : n = Len(w) /\ n # 0
  BY <1>2, EmptySeq, LenProperties
<1>4. w[1] # " " /\ w[n] # " "
  <2>1. 1 \in 1 .. n /\ n \in 1 .. n
    BY <1>3
  <2>2. w[1] \in S /\ w[n] \in S
    BY <1>3, <2>1, ElementOfSeq
  <2> QED
    BY <1>1, <2>2
<1>5. Head(w) = w[1] /\ Last(w) = w[n]
  <2>1. Head(w) = w[1]
    BY <1>2
  <2>2. Last(w) = w[n]
    BY <1>3, Zenon DEF Last
  <2> QED
    BY <2>1, <2>2
<1>6. w[1] # "nbsp" /\ w[n] # "nbsp"
  BY <1>2, <1>5, Zenon DEF Trimmed
<1> QED
  BY <1>1, <1>2, <1>3, <1>4, <1>6, Zenon DEF NickWord, Firm

\* Nothing is trimmed of them joined, either.
LEMMA JoinFirm ==
  ASSUME NEW ws \in Seq(NickWord), ws # <<>>
  PROVE  Firm(Join(ws))
<1> DEFINE T == {vs \in Seq(NickWord) : vs # <<>> => Firm(Join(vs))}
<1>1. <<>> \in T
  BY EmptySeq
<1>2. ASSUME NEW vs \in Seq(NickWord), NEW w \in NickWord, vs \in T
      PROVE  Append(vs, w) \in T
  <2>1. w \in Seq(Speech) /\ vs \in Seq(Seq(Speech)) /\ Firm(w)
    BY NickWordType DEF NickWord
  <2>2. CASE vs = <<>>
    <3>1. Append(vs, w) = <<w>>
      BY <2>2
    <3>2. Join(Append(vs, w)) = w
      BY <2>1, <3>1, JoinOne, Zenon
    <3> QED
      BY <2>1, <3>2, AppendProperties
  <2>3. CASE vs # <<>>
    <3>1. Join(Append(vs, w)) = Join(vs) \o (Gap \o w)
      BY <2>1, <2>3, SpeechIs, JoinAppend
    <3>2. PICK j \in Seq(Speech), n \in Nat : j = Join(vs) /\ Firm(j) /\ n = Len(j) /\ n # 0
      <4>1. PICK j \in Seq(Speech) : j = Join(vs) /\ Firm(j)
        BY <1>2, <2>1, <2>3, SpeechIs, JoinType
      <4>2. PICK n \in Nat : n = Len(j) /\ n # 0
        BY <4>1, EmptySeq, LenProperties DEF Firm
      <4> QED
        BY <4>1, <4>2
    <3>3. PICK m \in Nat : m = Len(w) /\ m # 0
      BY <2>1, EmptySeq, LenProperties DEF Firm
    <3>4. PICK g \in Seq(Speech) : g = Gap \o w /\ InARow(g, Gap, w, 1, m)
      BY <2>1, <3>3, SpeechIs, GapType, ConcatIs
    <3>5. Len(g) = 1 + m /\ g[1 + m] = w[m]
      BY <3>3, <3>4 DEF InARow
    <3>6. PICK x \in Seq(Speech) : x = j \o g /\ InARow(x, j, g, n, 1 + m)
      BY <3>2, <3>5, ConcatIs
    <3>7. Len(x) = n + (1 + m) /\ x[1] = j[1] /\ x[n + (1 + m)] = g[1 + m]
      BY <3>2, <3>3, <3>6 DEF InARow
    <3>8. x # <<>>
      BY <3>2, <3>3, <3>7, EmptySeq
    <3>9. Firm(x)
      BY <2>1, <3>2, <3>3, <3>5, <3>7, <3>8, Zenon DEF Firm
    <3> QED
      BY <3>1, <3>2, <3>4, <3>6, <3>9, AppendProperties, Zenon
  <2> QED
    BY <2>2, <2>3
<1>3. Seq(NickWord) \subseteq T
  <2> HIDE DEF T
  <2> QED
    BY <1>1, <1>2, AppendInduct
<1> QED
  BY <1>3

\* One more nick makes a list wider by the nick and a blank.
LEMMA WidthAppend ==
  ASSUME NEW S, NEW ws \in Seq(Seq(S)), NEW w \in Seq(S)
  PROVE  Width(ws) \in Nat /\ Width(Append(ws, w)) = Width(ws) + Len(w) + 1
<1>1. PICK f \in Seq(S) : f = FlattenSeq(ws)
  BY FlattenType
<1>2. FlattenSeq(Append(ws, w)) = f \o w
  BY <1>1, FlattenAppend
<1>3. Len(f \o w) = Len(f) + Len(w) /\ Len(f) \in Nat /\ Len(w) \in Nat
  BY ConcatProperties, LenProperties
<1>4. Len(Append(ws, w)) = Len(ws) + 1 /\ Len(ws) \in Nat
  BY AppendProperties, LenProperties
<1> QED
  BY <1>1, <1>2, <1>3, <1>4 DEF Width

\* No nicks are no atoms wide.
LEMMA WidthNothing == Width(<<>>) = 0
<1>1. FlattenSeq(<<>>) = <<>> /\ Len(<<>>) = 0
  BY FlattenEmpty, EmptySeq
<1>2. Width(<<>>) = Len(<<>>) + Len(<<>>)
  BY <1>1, Zenon DEF Width
<1> QED
  BY <1>1, <1>2

\* The last word has no blank after it.
LEMMA JoinWidth ==
  ASSUME NEW S, Alphabet(S)
  PROVE  \A ws \in Seq(Seq(S)) : ws # <<>> => Len(Join(ws)) + 1 = Width(ws)
<1>1. PICK W : W = Seq(S)
  OBVIOUS
<1> DEFINE T == {ws \in Seq(W) : ws # <<>> => Len(Join(ws)) + 1 = Width(ws)}
<1>2. <<>> \in T
  BY EmptySeq
<1>3. ASSUME NEW ws \in Seq(W), NEW w \in W, ws \in T
      PROVE  Append(ws, w) \in T
  <2>1. Append(ws, w) \in Seq(W) /\ Len(w) \in Nat
    BY <1>1, AppendProperties, LenProperties
  <2>2. Width(ws) \in Nat /\ Width(Append(ws, w)) = Width(ws) + Len(w) + 1
    BY <1>1, WidthAppend
  <2>3. CASE ws = <<>>
    <3>1. Append(ws, w) = <<w>>
      BY <2>3
    <3>2. Join(<<w>>) = w
      BY <1>1, JoinOne
    <3>3. Len(Join(Append(ws, w))) = Len(w)
      BY <3>1, <3>2, Zenon
    <3> QED
      BY <2>1, <2>2, <2>3, <3>3, WidthNothing
  <2>4. CASE ws # <<>>
    <3>1. Join(Append(ws, w)) = Join(ws) \o (Gap \o w)
      BY <1>1, <2>4, JoinAppend
    <3>2. PICK j \in Seq(S) : j = Join(ws)
      BY <1>1, JoinType
    <3>3. Gap \in Seq(S) /\ Len(Gap) = 1 /\ w \in Seq(S)
      BY <1>1, GapType
    <3>4. PICK g \in Seq(S) : g = Gap \o w /\ Len(g) = 1 + Len(w)
      <4>1. Gap \o w \in Seq(S) /\ Len(Gap \o w) = 1 + Len(w)
        BY <3>3, ConcatProperties, ZenonT(60)
      <4> QED
        BY <4>1
    <3>5. Len(j \o g) = Len(j) + Len(g) /\ Len(j) \in Nat
      BY ConcatProperties, LenProperties
    <3>6. Len(j) + 1 = Width(ws)
      BY <1>3, <2>4, <3>2
    <3>7. Len(Join(Append(ws, w))) = Len(j) + Len(g)
      BY <3>1, <3>2, <3>4, <3>5, Zenon
    <3>8. Len(Join(Append(ws, w))) + 1 = Width(Append(ws, w))
      BY <2>1, <2>2, <3>4, <3>5, <3>6, <3>7
    <3> QED
      BY <2>1, <3>8
  <2> QED
    BY <2>3, <2>4
<1>4. Seq(W) \subseteq T
  <2> HIDE DEF T
  <2> QED
    BY <1>2, <1>3, AppendInduct
<1> QED
  BY <1>1, <1>4

\* The list was within the limit before its last nick.
Fits(ns) ==
  ns = <<>> \/ \E h \in Seq(NickWord), u \in Users :
                 ns = Append(h, Nick[u]) /\ Width(h) <= NamesLimit

\* No line is longer than the limit and one nick.
Short(t) == \E u \in Users : Len(t) <= NamesLimit + Len(Nick[u])

\* Nicks of which all but the last are narrower than the limit make a line of
\* at most the limit and one nick.
LEMMA FitsIsShort ==
  ASSUME NEW ns \in Seq(NickWord), ns # <<>>, Fits(ns)
  PROVE  Short(Join(ns))
<1>1. PICK h \in Seq(NickWord), u \in Users :
        ns = Append(h, Nick[u]) /\ Width(h) <= NamesLimit
  BY DEF Fits
<1>2. Seq(NickWord) \subseteq Seq(Seq(Speech)) /\ NickWord \subseteq Seq(Speech)
  BY NickWordType
<1>3. Nick[u] \in Seq(Speech) /\ Len(Nick[u]) \in Nat
  BY SpeechIs, NickType, LenProperties
<1>4. Width(h) \in Nat /\ Width(ns) = Width(h) + Len(Nick[u]) + 1
  BY <1>1, <1>2, <1>3, WidthAppend
<1>5. Len(Join(ns)) + 1 = Width(ns)
  BY <1>2, SpeechIs, JoinWidth
<1>6. Join(ns) \in Seq(Speech)
  BY <1>2, SpeechIs, JoinType
<1>7. Len(Join(ns)) \in Nat /\ NamesLimit \in Nat
  BY <1>6, LenProperties, FlowAssumption
<1>8. Len(Join(ns)) <= NamesLimit + Len(Nick[u])
  BY <1>1, <1>3, <1>4, <1>5, <1>7
<1> QED
  BY <1>8 DEF Short

\* The nicks a reply tells.
ToldBy(n) == IF n.code = "353" THEN Split(n.params[3]) ELSE <<>>

\* Replies that list nicks on a short line, or none.
Tellers == {n \in NumericsOf(Speech) :
              /\ ToldBy(n) \in Seq(NickWord)
              /\ n.code = "353" => Len(n.params) = 3 /\ Short(n.params[3])}

\* What replies tell in a row.
AllTold(rs) == FlattenSeq([i \in DOMAIN rs |-> ToldBy(rs[i])])

\* A list of nicks that fits tells them.
LEMMA ChunkTells ==
  ASSUME NEW c \in Seq(Speech), NEW ns \in Seq(NickWord), ns # <<>>, Fits(ns)
  PROVE  Chunk(c, ns) \in Tellers /\ ToldBy(Chunk(c, ns)) = ns
<1>1. Seq(NickWord) \subseteq Seq(Seq(Speech))
  BY NickWordType
<1>2. Chunk(c, ns) \in NumericsOf(Speech)
  BY <1>1, SpeechIs, ChunkType
<1>3. /\ Chunk(c, ns).code = "353" /\ Len(Chunk(c, ns).params) = 3
      /\ Chunk(c, ns).params[3] = Join(ns)
  <2>1. PICK j : j = TrimSpace(Join(ns))
    OBVIOUS
  <2>2. j = Join(ns)
    BY <1>1, <2>1, JoinFirm, SpeechIs, JoinType, TrimFirm
  <2>3. Chunk(c, ns) = [code |-> "353", params |-> << <<"=">>, c, j >>]
    BY <2>1, Zenon DEF Chunk, Numeric
  <2> QED
    BY <2>2, <2>3
<1>4. Split(Join(ns)) = ns
  BY NickWordType, SpeechIs, SplitOfJoin
<1>5. ToldBy(Chunk(c, ns)) = ns
  BY <1>3, <1>4, Zenon DEF ToldBy
<1>6. Short(Join(ns))
  BY FitsIsShort
<1> QED
  BY <1>2, <1>3, <1>5, <1>6, Zenon DEF Tellers

\* The nicks that each reply tells are nicks.
LEMMA ToldByType ==
  ASSUME NEW rs \in Seq(Tellers)
  PROVE  [i \in DOMAIN rs |-> ToldBy(rs[i])] \in Seq(Seq(NickWord))
         /\ Len([i \in DOMAIN rs |-> ToldBy(rs[i])]) = Len(rs)
<1>1. PICK n \in Nat : n = Len(rs) /\ DOMAIN rs = 1 .. n
  BY LenProperties
<1>2. \A i \in 1 .. n : ToldBy(rs[i]) \in Seq(NickWord)
  BY <1>1, ElementOfSeq DEF Tellers
<1>3. [i \in 1 .. n |-> ToldBy(rs[i])] \in Seq(Seq(NickWord))
      /\ Len([i \in 1 .. n |-> ToldBy(rs[i])]) = n
  BY <1>2
<1> QED
  BY <1>1, <1>3

\* One more reply tells its nicks after the others.
LEMMA ToldAppend ==
  ASSUME NEW rs \in Seq(Tellers), NEW r \in Tellers
  PROVE  AllTold(rs) \in Seq(NickWord)
         /\ AllTold(Append(rs, r)) = AllTold(rs) \o ToldBy(r)
<1>1. PICK n \in Nat : n = Len(rs) /\ DOMAIN rs = 1 .. n
  BY LenProperties
<1>2. PICK f \in Seq(Seq(NickWord)) : f = [i \in DOMAIN rs |-> ToldBy(rs[i])]
  BY ToldByType
<1>3. PICK ps \in Seq(Tellers) : ps = Append(rs, r)
  BY AppendProperties
<1>4. DOMAIN ps = 1 .. n + 1 /\ ps[n + 1] = r /\ \A i \in 1 .. n : ps[i] = rs[i]
  BY <1>1, <1>3, AppendProperties, LenProperties
<1>5. ToldBy(r) \in Seq(NickWord)
  BY DEF Tellers
<1>6. Append(f, ToldBy(r)) = [i \in 1 .. n + 1 |-> ToldBy(ps[i])]
  <2>1. f = [i \in 1 .. n |-> ToldBy(ps[i])]
    BY <1>1, <1>2, <1>4
  <2> DEFINE G(i) == ToldBy(ps[i])
  <2>2. ToldBy(r) = G(n + 1)
    BY <1>4
  <2>3. Append([i \in 1 .. n |-> G(i)], G(n + 1)) = [i \in 1 .. n + 1 |-> G(i)]
    <3> HIDE DEF G
    <3> QED
      OBVIOUS
  <2> QED
    BY <2>1, <2>2, <2>3, Zenon
<1>7. AllTold(ps) = FlattenSeq(Append(f, ToldBy(r)))
  BY <1>4, <1>6, Zenon DEF AllTold
<1>8. AllTold(rs) = FlattenSeq(f)
  BY <1>2, Zenon DEF AllTold
<1>9. FlattenSeq(f) \in Seq(NickWord)
  BY FlattenType
<1> QED
  BY <1>3, <1>5, <1>7, <1>8, <1>9, FlattenAppend, Zenon

\* The nicks of us, in order.
Nicks(us) == [i \in DOMAIN us |-> Nick[us[i]]]

\* No replies tell no nicks.
LEMMA NothingTold == AllTold(<<>>) = <<>> /\ Nicks(<<>>) = <<>>
<1>1. [i \in DOMAIN <<>> |-> ToldBy(<<>>[i])] = <<>>
      /\ [i \in DOMAIN <<>> |-> Nick[<<>>[i]]] = <<>>
  OBVIOUS
<1> QED
  BY <1>1, FlattenEmpty, Zenon DEF AllTold, Nicks

\* What replies tell are nicks.
LEMMA AllToldType ==
  ASSUME NEW rs \in Seq(Tellers)
  PROVE  AllTold(rs) \in Seq(NickWord)
  BY ToldByType, FlattenType DEF AllTold

\* What replies tell, and then others, is what they all tell.
LEMMA ToldConcat ==
  ASSUME NEW rs \in Seq(Tellers), NEW ps \in Seq(Tellers)
  PROVE  AllTold(rs \o ps) = AllTold(rs) \o AllTold(ps)
<1> DEFINE T == {s \in Seq(Tellers) : AllTold(rs \o s) = AllTold(rs) \o AllTold(s)}
<1>1. <<>> \in T
  <2>1. rs \o <<>> = rs
    BY ConcatEmptySeq
  <2>2. AllTold(rs) \o <<>> = AllTold(rs)
    BY AllToldType, ConcatEmptySeq
  <2> QED
    BY <2>1, <2>2, NothingTold, EmptySeq
<1>2. ASSUME NEW s \in Seq(Tellers), NEW r \in Tellers, s \in T
      PROVE  Append(s, r) \in T
  <2>1. rs \o Append(s, r) = Append(rs \o s, r) /\ rs \o s \in Seq(Tellers)
    BY ConcatAppend, ConcatProperties
  <2>2. AllTold(Append(rs \o s, r)) = (AllTold(rs) \o AllTold(s)) \o ToldBy(r)
    BY <1>2, <2>1, ToldAppend
  <2>3. AllTold(Append(s, r)) = AllTold(s) \o ToldBy(r)
    BY ToldAppend
  <2>4. (AllTold(rs) \o AllTold(s)) \o ToldBy(r) = AllTold(rs) \o (AllTold(s) \o ToldBy(r))
    <3>1. AllTold(rs) \in Seq(NickWord) /\ AllTold(s) \in Seq(NickWord)
          /\ ToldBy(r) \in Seq(NickWord)
      BY AllToldType DEF Tellers
    <3> QED
      BY <3>1, ConcatAssociative, SMTT(40)
  <2> QED
    BY <2>1, <2>2, <2>3, <2>4, AppendProperties
<1>3. Seq(Tellers) \subseteq T
  <2> HIDE DEF T
  <2> QED
    BY <1>1, <1>2, AppendInduct
<1> QED
  BY <1>3

\* One more user is one more nick.
LEMMA NicksAppend ==
  ASSUME Trimmed, NEW us \in Seq(Users), NEW u \in Users
  PROVE  Nicks(us) \in Seq(NickWord) /\ Nicks(Append(us, u)) = Append(Nicks(us), Nick[u])
<1>1. PICK n \in Nat : n = Len(us) /\ DOMAIN us = 1 .. n
  BY LenProperties
<1>2. \A i \in 1 .. n : Nick[us[i]] \in NickWord
  BY <1>1, ElementOfSeq, NicksAreWords
<1>3. Nicks(us) = [i \in 1 .. n |-> Nick[us[i]]]
  BY <1>1, Zenon DEF Nicks
<1>4. Nicks(us) \in Seq(NickWord) /\ Len(Nicks(us)) = n
  BY <1>2, <1>3
<1>5. PICK vs \in Seq(Users) : vs = Append(us, u)
  BY AppendProperties
<1>6. DOMAIN vs = 1 .. n + 1 /\ vs[n + 1] = u /\ \A i \in 1 .. n : vs[i] = us[i]
  BY <1>1, <1>5, AppendProperties, LenProperties
<1> DEFINE G(i) == Nick[vs[i]]
<1>7. Append([i \in 1 .. n |-> G(i)], G(n + 1)) = [i \in 1 .. n + 1 |-> G(i)]
  <2> HIDE DEF G
  <2> QED
    OBVIOUS
<1>8. Nicks(us) = [i \in 1 .. n |-> G(i)]
  BY <1>3, <1>6
<1>9. Nicks(vs) = [i \in 1 .. n + 1 |-> G(i)] /\ G(n + 1) = Nick[u]
  BY <1>6, Zenon DEF Nicks
<1> QED
  BY <1>4, <1>5, <1>7, <1>8, <1>9, Zenon

\* What is collected of us: what was sent and what is left tell their nicks.
ListingOf(us) ==
  {l \in [replies : Seq(Tellers), names : Seq(NickWord)] :
     Fits(l.names) /\ AllTold(l.replies) \o l.names = Nicks(us)}

\* While names are listed, the replies written and the names that wait are those
\* of the users so far, in order; one more user keeps it so.
LEMMA AddMemberTells ==
  ASSUME Trimmed, NEW a, a.nick = Nick, a.chan \in Seq(Speech), a.limit = NamesLimit,
         NEW us \in Seq(Users), NEW u \in Users, NEW l \in ListingOf(us)
  PROVE  AddMember(a, l, u) \in ListingOf(Append(us, u))
<1> DEFINE w == Nick[u]
           L == [replies : Seq(Tellers), names : Seq(NickWord)]
<1>1. PICK rs \in Seq(Tellers), ns \in Seq(NickWord) :
        rs = l.replies /\ ns = l.names /\ Fits(ns) /\ AllTold(rs) \o ns = Nicks(us)
  BY DEF ListingOf
<1>2. w \in NickWord
  BY NicksAreWords
<1>3. Nicks(Append(us, u)) = Append(Nicks(us), w) /\ Nicks(us) \in Seq(NickWord)
  BY NicksAppend
<1>4. l = [replies |-> rs, names |-> ns]
  BY <1>1 DEF ListingOf
<1>5. AddMember(a, l, u) =
        IF Width(ns) > NamesLimit
        THEN [replies |-> Append(rs, Chunk(a.chan, ns)), names |-> <<w>>]
        ELSE [l EXCEPT !.names = Append(@, w)]
  BY <1>1, Zenon DEF AddMember, AddName
<1>6. CASE Width(ns) > NamesLimit
  <2>1. ns # <<>>
    BY <1>6, WidthNothing, FlowAssumption
  <2>2. PICK ch \in Tellers : ch = Chunk(a.chan, ns) /\ ToldBy(ch) = ns
    BY <1>1, <2>1, ChunkTells
  <2>3. AllTold(Append(rs, ch)) = Nicks(us)
    BY <1>1, <2>2, ToldAppend
  <2>4. Nicks(us) \o <<w>> = Nicks(Append(us, u))
    BY <1>2, <1>3, AppendIsConcat
  <2>5. Fits(<<w>>)
    <3>1. Append(<<>>, w) = <<w>> /\ <<>> \in Seq(NickWord)
      OBVIOUS
    <3>2. Width(<<>>) <= NamesLimit
      BY WidthNothing, FlowAssumption
    <3> QED
      BY <3>1, <3>2, Zenon DEF Fits
  <2>6. <<w>> \in Seq(NickWord) /\ Append(rs, ch) \in Seq(Tellers)
    BY <1>2, OneAtom, AppendProperties
  <2>7. PICK k \in L : k = [replies |-> Append(rs, ch), names |-> <<w>>]
    BY <2>6, Zenon
  <2>8. k.replies = Append(rs, ch) /\ k.names = <<w>>
    BY <2>7
  <2>9. k \in ListingOf(Append(us, u))
    BY <2>3, <2>4, <2>5, <2>7, <2>8, Zenon DEF ListingOf
  <2> QED
    BY <1>5, <1>6, <2>2, <2>7, <2>9, Zenon
<1>7. CASE ~(Width(ns) > NamesLimit)
  <2>1. Width(ns) <= NamesLimit
    <3>1. Seq(NickWord) \subseteq Seq(Seq(Speech)) /\ NickWord \subseteq Seq(Speech)
      BY NickWordType
    <3>2. Width(ns) \in Nat
      BY <1>2, <3>1, WidthAppend
    <3> QED
      BY <1>7, <3>2, FlowAssumption
  <2>2. PICK ms \in Seq(NickWord) : ms = Append(ns, w)
    BY <1>2, AppendProperties
  <2>3. Fits(ms)
    BY <2>1, <2>2, Zenon DEF Fits
  <2>4. AllTold(rs) \o ms = Nicks(Append(us, u))
    <3>1. AllTold(rs) \in Seq(NickWord)
      BY AllToldType
    <3>2. AllTold(rs) \o Append(ns, w) = Append(AllTold(rs) \o ns, w)
      BY <1>2, <3>1, ConcatAppend, SMTT(40)
    <3> QED
      BY <1>1, <1>3, <2>2, <3>2, Zenon
  <2>5. PICK k \in L : k = [replies |-> rs, names |-> ms]
    BY <2>2, Zenon
  <2>6. [l EXCEPT !.names = Append(@, w)] = k
    <3>1. [l EXCEPT !.names = ms] = [replies |-> rs, names |-> ms]
      BY <1>4
    <3> QED
      BY <1>1, <2>2, <2>5, <3>1, Zenon
  <2>7. k.replies = rs /\ k.names = ms
    BY <2>5
  <2>8. k \in ListingOf(Append(us, u))
    BY <2>3, <2>4, <2>5, <2>7, Zenon DEF ListingOf
  <2> QED
    BY <1>5, <1>7, <2>6, <2>8, Zenon
<1> QED
  BY <1>6, <1>7

\* The replies collected and the nicks left tell those of all members.
LEMMA ListingTells ==
  ASSUME Trimmed, NEW a, a.nick = Nick, a.chan \in Seq(Speech), a.limit = NamesLimit
  PROVE  \A us \in Seq(Users) : Listing(a, us) \in ListingOf(us)
<1> DEFINE none == [replies |-> <<>>, names |-> <<>>]
           T == {us \in Seq(Users) : Listing(a, us) \in ListingOf(us)}
<1>1. <<>> \in T
  <2>1. none \in [replies : Seq(Tellers), names : Seq(NickWord)]
        /\ none.replies = <<>> /\ none.names = <<>>
    BY EmptySeq
  <2>2. AllTold(<<>>) = <<>> /\ Nicks(<<>>) = <<>>
    BY NothingTold
  <2>3. <<>> \o <<>> = <<>>
    OBVIOUS
  <2>4. none \in ListingOf(<<>>)
    <3> HIDE DEF none
    <3> QED
      BY <2>1, <2>2, <2>3, Zenon DEF ListingOf, Fits
  <2>5. Listing(a, <<>>) = none
    BY Names!FoldEmpty DEF Listing
  <2> QED
    BY <2>4, <2>5, EmptySeq
<1>2. ASSUME NEW us \in Seq(Users), NEW u \in Users, us \in T
      PROVE  Append(us, u) \in T
  <2>1. Listing(a, Append(us, u)) = AddMember(a, Listing(a, us), u)
    BY Names!FoldAppend DEF Listing
  <2>2. AddMember(a, Listing(a, us), u) \in ListingOf(Append(us, u))
    BY <1>2, AddMemberTells
  <2> QED
    BY <2>1, <2>2, AppendProperties
<1>3. Seq(Users) \subseteq T
  <2> HIDE DEF T
  <2> QED
    BY <1>1, <1>2, AppendInduct
<1> QED
  BY <1>3

\* The replies without nicks.
LEMMA OtherRepliesTell ==
  ASSUME NEW n \in NumericsOf(Speech), n.code # "353"
  PROVE  n \in Tellers /\ ToldBy(n) = <<>> /\ <<n>> \in Seq(Tellers)
         /\ AllTold(<<n>>) = <<>>
<1>1. ToldBy(n) = <<>>
  BY DEF ToldBy
<1>2. n \in Tellers
  BY <1>1, EmptySeq DEF Tellers
<1>3. AllTold(Append(<<>>, n)) = AllTold(<<>>) \o <<>>
  BY <1>1, <1>2, ToldAppend, EmptySeq
<1>4. Append(<<>>, n) = <<n>> /\ <<>> \o <<>> = <<>>
  OBVIOUS
<1> QED
  BY <1>1, <1>2, <1>3, <1>4, NothingTold, OneAtom

\* The list of the members tells the nick of each.
LEMMA NamelistTells ==
  ASSUME Trimmed, NEW c \in Seq(Speech), NEW us \in Seq(Users)
  PROVE  /\ NamelistAsNumerics(us, Nick, c, NamesLimit) \in Seq(Tellers)
         /\ AllTold(NamelistAsNumerics(us, Nick, c, NamesLimit)) = Nicks(us)
<1>1. PICK a : a = [nick |-> Nick, chan |-> c, limit |-> NamesLimit]
  OBVIOUS
<1>2. a.nick = Nick /\ a.chan = c /\ a.limit = NamesLimit
  BY <1>1
<1>3. PICK l \in ListingOf(us) : l = Listing(a, us)
  BY <1>2, ListingTells
<1>4. PICK rs \in Seq(Tellers), ns \in Seq(NickWord) :
        rs = l.replies /\ ns = l.names /\ Fits(ns) /\ AllTold(rs) \o ns = Nicks(us)
  BY DEF ListingOf
<1>5. PICK more \in Seq(Tellers) :
        more = (IF ns = <<>> THEN <<>> ELSE <<Chunk(c, ns)>>) /\ AllTold(more) = ns
  <2>1. CASE ns = <<>>
    BY <2>1, NothingTold, EmptySeq
  <2>2. CASE ns # <<>>
    <3>1. PICK ch \in Tellers : ch = Chunk(c, ns) /\ ToldBy(ch) = ns
      BY <1>4, <2>2, ChunkTells
    <3>2. AllTold(Append(<<>>, ch)) = AllTold(<<>>) \o ns
      BY <3>1, ToldAppend, EmptySeq
    <3>3. Append(<<>>, ch) = <<ch>> /\ <<>> \o ns = ns
      BY ConcatEmptySeq
    <3>4. AllTold(<<ch>>) = ns /\ <<ch>> \in Seq(Tellers)
      BY <3>2, <3>3, NothingTold, OneAtom
    <3> QED
      BY <2>2, <3>1, <3>4, Zenon
  <2> QED
    BY <2>1, <2>2
<1>6. PICK end \in Tellers : end = EndOfNames(c) /\ <<end>> \in Seq(Tellers)
                             /\ AllTold(<<end>>) = <<>>
  <2>1. "366" \in Speech /\ <<"End", " ", "of /NAMES list">> \in Seq(Speech)
    <3>1. {"366", "End", "of /NAMES list"} \subseteq Wording
      BY DEF Wording
    <3> QED
      BY <3>1, SpeechIs, WordingTexts, Zenon
  <2>2. EndOfNames(c) \in NumericsOf(Speech)
    BY <2>1, TwoAtoms, NumericType, Zenon DEF EndOfNames
  <2>3. EndOfNames(c).code = "366" /\ "366" # "353"
    BY DEF EndOfNames, Numeric
  <2> QED
    BY <2>2, <2>3, OtherRepliesTell
<1>7. NamelistAsNumerics(us, Nick, c, NamesLimit) = (rs \o more) \o <<end>>
  BY <1>2, <1>3, <1>4, <1>5, <1>6, NamelistIsFold, Zenon
<1>8. PICK front \in Seq(Tellers) : front = rs \o more /\ AllTold(front) = Nicks(us)
  <2>1. rs \o more \in Seq(Tellers)
    BY ConcatProperties
  <2>2. AllTold(rs \o more) = AllTold(rs) \o AllTold(more)
    BY ToldConcat
  <2> QED
    BY <1>4, <1>5, <2>1, <2>2
<1>9. front \o <<end>> \in Seq(Tellers)
  BY <1>6, ConcatProperties
<1>10. AllTold(front \o <<end>>) = Nicks(us) \o <<>>
  BY <1>6, <1>8, ToldConcat
<1>11. Nicks(us) \o <<>> = Nicks(us)
  <2>1. Nicks(us) \in Seq(NickWord)
    BY <1>8, AllToldType
  <2> QED
    BY <2>1, ConcatEmptySeq
<1> QED
  BY <1>7, <1>8, <1>9, <1>10, <1>11, Zenon

\* Two are one, and another after it.
LEMMA PairIsAppend ==
  ASSUME NEW S, NEW a \in S, NEW b \in S
  PROVE  Append(<<a>>, b) = <<a, b>>
<1>1. Append(<<a>>, b) = <<a>> \o <<b>>
  BY OneAtom, AppendIsConcat
<1> QED
  BY <1>1, TwoAlone

\* Two replies without nicks.
LEMMA TwoTellNothing ==
  ASSUME NEW n \in Tellers, NEW k \in Tellers, ToldBy(k) = <<>>, AllTold(<<n>>) = <<>>
  PROVE  <<n, k>> \in Seq(Tellers) /\ AllTold(<<n, k>>) = <<>>
<1>1. <<n>> \in Seq(Tellers) /\ <<n, k>> \in Seq(Tellers)
  BY OneAtom, TwoAtoms
<1>2. AllTold(Append(<<n>>, k)) = <<>> \o <<>>
  BY <1>1, ToldAppend
<1>3. <<>> \o <<>> = <<>>
  OBVIOUS
<1> QED
  BY <1>1, <1>2, <1>3, PairIsAppend

\* The topic tells no nicks.
LEMMA TopicTells ==
  ASSUME NEW c \in Seq(Speech), NEW topic \in Seq(Speech), NEW known \in SUBSET Users
  PROVE  /\ SendChannelTopic(c, topic, known) \in Seq(Tellers)
         /\ AllTold(SendChannelTopic(c, topic, known)) = <<>>
<1>1. PICK rs \in Seq(NumericsOf(Speech)) : rs = SendChannelTopic(c, topic, known)
  BY SpeechIs, TopicRepliesType
<1>2. \/ \E n : rs = <<n>> /\ n.code # "353"
      \/ \E n, k : rs = <<n, k>> /\ n.code # "353" /\ k.code # "353"
  <2>1. CASE topic = <<>>
    <3>1. rs = <<Numeric("331", <<c, <<"No topic is set.">> >>)>>
      BY <1>1, <2>1, Zenon DEF SendChannelTopic
    <3>2. PICK n : n = Numeric("331", <<c, <<"No topic is set.">> >>)
      OBVIOUS
    <3>3. n.code = "331" /\ "331" # "353"
      BY <3>2 DEF Numeric
    <3> QED
      BY <3>1, <3>2, <3>3, Zenon
  <2>2. CASE topic # <<>>
    <3>1. PICK by : by = SetBy[c[1]]
      OBVIOUS
    <3>2. PICK who : who = IF by \in known THEN Nick[by] ELSE <<"server">>
      OBVIOUS
    <3>3. PICK n : n = Numeric("332", <<c, topic>>)
      OBVIOUS
    <3>4. PICK k : k = Numeric("333", <<c, who, <<"0">> >>)
      OBVIOUS
    <3>5. rs = <<n, k>>
      BY <1>1, <2>2, <3>1, <3>2, <3>3, <3>4, Zenon DEF SendChannelTopic
    <3>6. n.code = "332" /\ "332" # "353" /\ k.code = "333" /\ "333" # "353"
      BY <3>3, <3>4 DEF Numeric
    <3> QED
      BY <3>5, <3>6, Zenon
  <2> QED
    BY <2>1, <2>2
<1>3. ASSUME NEW n, rs = <<n>>, n.code # "353"
      PROVE  rs \in Seq(Tellers) /\ AllTold(rs) = <<>>
  <2>1. n \in NumericsOf(Speech)
    BY <1>3, ElementOfSeq
  <2> QED
    BY <1>3, <2>1, OtherRepliesTell
<1>4. ASSUME NEW n, NEW k, rs = <<n, k>>, n.code # "353", k.code # "353"
      PROVE  rs \in Seq(Tellers) /\ AllTold(rs) = <<>>
  <2>1. n \in NumericsOf(Speech) /\ k \in NumericsOf(Speech)
    <3>1. Len(<<n, k>>) = 2 /\ <<n, k>>[1] = n /\ <<n, k>>[2] = k
      OBVIOUS
    <3> QED
      BY <1>4, <3>1, ElementOfSeq
  <2>2. n \in Tellers /\ AllTold(<<n>>) = <<>> /\ k \in Tellers /\ ToldBy(k) = <<>>
    BY <1>4, <2>1, OtherRepliesTell
  <2> QED
    BY <1>4, <2>2, TwoTellNothing
<1> QED
  BY <1>1, <1>2, <1>3, <1>4, Zenon

\* Joining tells the nicks of the members.
LEMMA JoinTells ==
  ASSUME Trimmed, NEW c \in Seq(Speech), NEW topic \in Seq(Speech), NEW known \in SUBSET Users,
         NEW us \in Seq(Users)
  PROVE  /\ JoinReplies(c, topic, known, us) \in Seq(Tellers)
         /\ AllTold(JoinReplies(c, topic, known, us)) = Nicks(us)
<1>1. PICK head \in Seq(Tellers) :
        head = (IF topic = <<>> THEN <<>> ELSE SendChannelTopic(c, topic, known))
          /\ AllTold(head) = <<>>
  BY TopicTells, NothingTold, EmptySeq
<1>2. PICK list \in Seq(Tellers) :
        list = NamelistAsNumerics(us, Nick, c, NamesLimit) /\ AllTold(list) = Nicks(us)
  BY NamelistTells
<1>3. head \o list \in Seq(Tellers)
  BY ConcatProperties
<1>4. AllTold(head \o list) = <<>> \o Nicks(us)
  BY <1>1, <1>2, ToldConcat
<1>5. <<>> \o Nicks(us) = Nicks(us)
  <2>1. Nicks(us) \in Seq(NickWord)
    BY <1>2, AllToldType
  <2> QED
    BY <2>1, ConcatEmptySeq
<1> QED
  BY <1>1, <1>2, <1>3, <1>4, <1>5, Zenon DEF JoinReplies

\* A message that lists nicks, and the nicks.
IsList(m) == m.cmd = "" /\ m.params[1] = <<"353">>
\* The nicks a message lists.
ListedIn(m) == IF IsList(m) THEN Split(m.params[5]) ELSE <<>>

\* The client is told what the reply tells.
LEMMA ReplyTells ==
  ASSUME NEW r \in Tellers
  PROVE  /\ ListedIn(Reply(r, Nick[Me])) = ToldBy(r)
         /\ IsList(Reply(r, Nick[Me])) => Short(Reply(r, Nick[Me]).params[5])
<1>1. PICK p \in Seq(Seq(Speech)), code \in Speech : p = r.params /\ code = r.code
  BY DEF Tellers, NumericsOf
<1>2. PICK h \in Seq(Seq(Speech)) : h = << <<code>>, Nick[Me]>> /\ Len(h) = 2 /\ h[1] = <<code>>
  <2>1. << <<code>>, Nick[Me]>> \in Seq(Seq(Speech))
    BY SpeechIs, FlowAssumption, NickType, OneAtom, TwoAtoms
  <2>2. Len(<< <<code>>, Nick[Me]>>) = 2 /\ << <<code>>, Nick[Me]>>[1] = <<code>>
    OBVIOUS
  <2> QED
    BY <2>1, <2>2
<1>3. PICK q \in Seq(Seq(Speech)) : q = h \o p /\ q[1] = h[1] /\ (Len(p) = 3 => q[5] = p[3])
  <2>1. PICK n \in Nat : n = Len(p)
    BY LenProperties
  <2>2. h \o p \in Seq(Seq(Speech)) /\ InARow(h \o p, h, p, 2, n)
    BY <1>2, <2>1, ConcatIs
  <2>3. PICK c \in Seq(Seq(Speech)) : c = h \o p /\ InARow(c, h, p, 2, n)
    BY <2>2
  <2>4. c[1] = h[1] /\ (n = 3 => c[2 + 3] = p[3])
    <3>1. 1 \in 1 .. 2 /\ (n = 3 => 3 \in 1 .. n)
      OBVIOUS
    <3> QED
      BY <2>3, <3>1, Zenon DEF InARow
  <2>5. 2 + 3 = 5
    OBVIOUS
  <2> QED
    BY <2>1, <2>3, <2>4, <2>5, Zenon
<1>4. PICK m : m = Reply(r, Nick[Me])
  OBVIOUS
<1>5. m.cmd = "" /\ m.params = q
  BY <1>1, <1>2, <1>3, <1>4, Zenon DEF Reply, Message
<1>6. IsList(m) <=> code = "353"
  <2>1. <<code>> = <<"353">> <=> code = "353"
    OBVIOUS
  <2> QED
    BY <1>2, <1>3, <1>5, <2>1, Zenon DEF IsList
<1>7. code = "353" => Len(p) = 3 /\ Short(p[3])
  BY <1>1, Zenon DEF Tellers
<1> QED
  BY <1>1, <1>3, <1>4, <1>5, <1>6, <1>7, Zenon DEF ListedIn, ToldBy

\* All that messages list, in a row.
AllListed(ms) == FlattenSeq([i \in DOMAIN ms |-> ListedIn(ms[i])])

\* What the client is told of replies.
ToClient(rs) == [i \in DOMAIN rs |-> Reply(rs[i], Nick[Me])]

\* The client reads the nicks that the replies were made of, on lines that are
\* short enough.
LEMMA ClientIsTold ==
  ASSUME NEW rs \in Seq(Tellers)
  PROVE  /\ AllListed(ToClient(rs)) = AllTold(rs)
         /\ \A m \in ToSet(ToClient(rs)) : IsList(m) => Short(m.params[5])
<1>1. PICK n \in Nat : n = Len(rs) /\ DOMAIN rs = 1 .. n
  BY LenProperties
<1>2. \A i \in 1 .. n : rs[i] \in Tellers
  BY <1>1, ElementOfSeq
<1>3. PICK ms : ms = ToClient(rs) /\ DOMAIN ms = 1 .. n
                /\ \A i \in 1 .. n : ms[i] = Reply(rs[i], Nick[Me])
  <2> DEFINE R(i) == Reply(rs[i], Nick[Me])
  <2>1. PICK ms : ms = [i \in 1 .. n |-> R(i)]
    OBVIOUS
  <2>2. DOMAIN ms = 1 .. n /\ \A i \in 1 .. n : ms[i] = R(i)
    BY <2>1, Zenon
  <2>3. ms = ToClient(rs)
    BY <1>1, <2>1, Zenon DEF ToClient
  <2> QED
    BY <2>2, <2>3
<1>4. \A i \in 1 .. n : ListedIn(ms[i]) = ToldBy(rs[i])
  BY <1>2, <1>3, ReplyTells
<1>5. [i \in DOMAIN ms |-> ListedIn(ms[i])] = [i \in DOMAIN rs |-> ToldBy(rs[i])]
  BY <1>1, <1>3, <1>4, Zenon
<1>6. AllListed(ms) = AllTold(rs)
  BY <1>5, Zenon DEF AllListed, AllTold
<1>7. ASSUME NEW m \in ToSet(ms), IsList(m)
      PROVE  Short(m.params[5])
  <2>1. PICK i \in 1 .. n : m = ms[i]
    BY <1>3 DEF ToSet
  <2> QED
    BY <1>2, <1>3, <1>7, <2>1, ReplyTells
<1> QED
  BY <1>3, <1>6, <1>7

\* The JOIN that comes before the replies lists nothing.
LEMMA JoinListsNothing ==
  ASSUME NEW rs \in Seq(Tellers), NEW j, j.cmd = "JOIN"
  PROVE  /\ AllListed(<<j>> \o ToClient(rs)) = AllTold(rs)
         /\ \A m \in ToSet(<<j>> \o ToClient(rs)) : IsList(m) => Short(m.params[5])
<1>1. ~IsList(j)
  <2>1. "JOIN" # ""
    OBVIOUS
  <2> QED
    BY <2>1, Zenon DEF IsList
<1>2. PICK n \in Nat : n = Len(rs) /\ DOMAIN rs = 1 .. n
  BY LenProperties
<1>3. PICK ms : ms = ToClient(rs)
  OBVIOUS
<1>4. PICK M : M = {j} \cup {Reply(rs[i], Nick[Me]) : i \in 1 .. n}
  OBVIOUS
<1>5. ms \in Seq(M) /\ Len(ms) = n /\ DOMAIN ms = 1 .. n
  <2> DEFINE R(i) == Reply(rs[i], Nick[Me])
  <2>1. \A i \in 1 .. n : R(i) \in M
    BY <1>4
  <2>2. ms = [i \in 1 .. n |-> R(i)]
    BY <1>2, <1>3, Zenon DEF ToClient
  <2> QED
    BY <1>2, <2>1, <2>2
<1>6. PICK h \in Seq(M) : h = <<j>> /\ Len(h) = 1 /\ h[1] = j
  <2>1. <<j>> \in Seq(M) /\ Len(<<j>>) = 1 /\ <<j>>[1] = j
    BY <1>4, OneAtom
  <2> QED
    BY <2>1
<1>7. PICK all \in Seq(M) : all = h \o ms /\ InARow(all, h, ms, 1, n)
  <2>1. h \o ms \in Seq(M) /\ InARow(h \o ms, h, ms, 1, n)
    BY <1>5, <1>6, ConcatIs
  <2> QED
    BY <2>1
<1>8. DOMAIN all = 1 .. 1 + n /\ all[1] = j /\ \A i \in 1 .. n : all[1 + i] = ms[i]
  BY <1>6, <1>7, LenProperties DEF InARow
<1>9. PICK told \in Seq(Seq(NickWord)) : told = [i \in DOMAIN rs |-> ToldBy(rs[i])]
                                         /\ Len(told) = n
  BY <1>2, ToldByType
<1>10. \A i \in 1 .. n : ListedIn(ms[i]) = told[i]
  <2>1. \A i \in 1 .. n : ms[i] = Reply(rs[i], Nick[Me]) /\ rs[i] \in Tellers
    BY <1>2, <1>3, ElementOfSeq DEF ToClient
  <2> QED
    BY <1>2, <1>9, <2>1, ReplyTells
<1>11. ListedIn(j) = <<>>
  BY <1>1, Zenon DEF ListedIn
<1>12. PICK none \in Seq(Seq(NickWord)) : none = << <<>> >> /\ Len(none) = 1 /\ none[1] = <<>>
  <2>1. <<>> \in Seq(NickWord)
    BY EmptySeq
  <2>2. << <<>> >> \in Seq(Seq(NickWord)) /\ Len(<< <<>> >>) = 1 /\ << <<>> >>[1] = <<>>
    BY <2>1, OneAtom
  <2> QED
    BY <2>2
<1>13. PICK lists \in Seq(Seq(NickWord)) : lists = none \o told /\ InARow(lists, none, told, 1, n)
  <2>1. none \o told \in Seq(Seq(NickWord)) /\ InARow(none \o told, none, told, 1, n)
    BY <1>9, <1>12, ConcatIs
  <2> QED
    BY <2>1
<1>14. DOMAIN lists = 1 .. 1 + n /\ lists[1] = <<>> /\ \A i \in 1 .. n : lists[1 + i] = told[i]
  BY <1>12, <1>13, LenProperties DEF InARow
<1>15. \A i \in 1 .. 1 + n : lists[i] = ListedIn(all[i])
  <2> SUFFICES ASSUME NEW i \in 1 .. 1 + n
               PROVE  lists[i] = ListedIn(all[i])
    OBVIOUS
  <2>1. CASE i = 1
    BY <1>8, <1>11, <1>14, <2>1
  <2>2. CASE i # 1
    <3>1. PICK k \in 1 .. n : i = 1 + k
      <4>1. i - 1 \in 1 .. n /\ i = 1 + (i - 1)
        BY <2>2
      <4> QED
        BY <4>1
    <3> QED
      BY <1>8, <1>10, <1>14, <3>1
  <2> QED
    BY <2>1, <2>2
<1>16. lists = [i \in DOMAIN all |-> ListedIn(all[i])]
  <2>1. lists = [i \in 1 .. 1 + n |-> lists[i]]
    BY <1>14, LenProperties
  <2>2. [i \in 1 .. 1 + n |-> lists[i]] = [i \in 1 .. 1 + n |-> ListedIn(all[i])]
    BY <1>15, Zenon
  <2> QED
    BY <1>8, <2>1, <2>2, Zenon
<1>17. FlattenSeq(lists) = <<>> \o FlattenSeq(told)
  BY <1>12, <1>13, EmptySeq, FlattenCons, ZenonT(60)
<1>18. <<>> \o FlattenSeq(told) = FlattenSeq(told)
  BY FlattenType, ConcatEmptySeq
<1>19. AllListed(all) = AllTold(rs)
  BY <1>9, <1>16, <1>17, <1>18, Zenon DEF AllListed, AllTold
<1>20. ASSUME NEW m \in ToSet(all), IsList(m)
       PROVE  Short(m.params[5])
  <2>1. PICK i \in 1 .. 1 + n : m = all[i]
    BY <1>8 DEF ToSet
  <2>2. PICK k \in 1 .. n : i = 1 + k
    <3>1. i # 1
      BY <1>1, <1>8, <1>20, <2>1
    <3>2. i - 1 \in 1 .. n /\ i = 1 + (i - 1)
      BY <3>1
    <3> QED
      BY <3>2
  <2>3. m = ms[k] /\ k \in DOMAIN ms
    BY <1>5, <1>8, <2>1, <2>2
  <2>4. m \in ToSet(ms)
    BY <2>3 DEF ToSet
  <2> QED
    BY <1>3, <1>20, <2>4, ClientIsTold
<1> QED
  BY <1>3, <1>6, <1>7, <1>19, <1>20, Zenon

\* The client is told the nicks of c.
ToldOfChannel(c) ==
  /\ AllListed(answers) \in {Nicks(told.users) : told \in GetChannelUsers(c, userInfo)}
  /\ \A m \in ToSet(answers) : IsList(m) => Short(m.params[5])

\* A JOIN was read.
Joins == line # None /\ Parsed(StringToMessage(line), "JOIN")

\* NamesTold, with its parts named.
LEMMA NamesToldIs ==
  /\ NamesTold <=> (Joins /\ Trimmed => ToldOfChannel(StringToMessage(line).params[1]))
  /\ NamesTold' <=> (Joins' /\ Trimmed => ToldOfChannel(StringToMessage(line).params[1])')
  BY Zenon DEF NamesTold, Joins, Trimmed, ToldOfChannel, AllListed, ListedIn, IsList, Short,
               Nicks, Spread

\* Whoever is known, Slack may tell the same members.
LEMMA SameMembers ==
  ASSUME NEW c, NEW known, NEW found, NEW told \in GetChannelUsers(c, known)
  PROVE  \E t \in GetChannelUsers(c, found) : t.users = told.users
<1>1. CASE ~ChannelExists(c)
  <2>1. told.users = <<>>
    BY <1>1 DEF GetChannelUsers
  <2>2. [users |-> <<>>, known |-> found] \in GetChannelUsers(c, found)
    BY <1>1 DEF GetChannelUsers
  <2> QED
    BY <2>1, <2>2
<1>2. CASE ChannelExists(c)
  <2>1. told.users = <<>> \/ told.users = Members[c[1]]
    BY <1>2 DEF GetChannelUsers
  <2>2. [users |-> Members[c[1]], known |-> found \cup ToSet(Members[c[1]])]
          \in GetChannelUsers(c, found)
    BY <1>2, Zenon DEF GetChannelUsers
  <2>3. found \in Answered(found, ToSet(Members[c[1]]))
    <3>1. {} \in SUBSET (ToSet(Members[c[1]]) \ found) /\ found = found \cup {}
      OBVIOUS
    <3> QED
      BY <3>1, Zenon DEF Answered
  <2>4. [users |-> <<>>, known |-> found] \in GetChannelUsers(c, found)
    BY <1>2, <2>3, Zenon DEF GetChannelUsers
  <2> QED
    BY <2>1, <2>2, <2>4
<1> QED
  BY <1>1, <1>2

\* Slack may tell nothing of a channel, which is what a client has been told who has
\* no answer.
LEMMA NoAnswerTells ==
  ASSUME answers' = <<>>
  PROVE  NamesTold'
<1>1. PICK c : c = StringToMessage(line').params[1]
  OBVIOUS
<1>2. \E told \in GetChannelUsers(c, userInfo)' : told.users = <<>>
  <2>1. PICK t : t = [users |-> <<>>, known |-> userInfo'] /\ t.users = <<>>
    <3>1. [users |-> <<>>, known |-> userInfo'].users = <<>>
      OBVIOUS
    <3> QED
      BY <3>1, Zenon
  <2>2. CASE ~ChannelExists(c)'
    BY <2>1, <2>2, Zenon DEF GetChannelUsers
  <2>3. CASE ChannelExists(c)'
    <3>1. userInfo' \in Answered(userInfo', ToSet(Members[c[1]]))
      <4>1. {} \in SUBSET (ToSet(Members[c[1]]) \ userInfo') /\ userInfo' = userInfo' \cup {}
        OBVIOUS
      <4> QED
        BY <4>1, Zenon DEF Answered
    <3>2. t \in GetChannelUsers(c, userInfo)'
      BY <2>1, <2>3, <3>1, Zenon DEF GetChannelUsers
    <3> QED
      BY <2>1, <3>2
  <2> QED
    BY <2>2, <2>3
<1>3. AllListed(<<>>) = <<>> /\ ToSet(<<>>) = {}
  <2>1. [i \in DOMAIN <<>> |-> ListedIn(<<>>[i])] = <<>> /\ {<<>>[i] : i \in DOMAIN <<>>} = {}
    OBVIOUS
  <2> QED
    BY <2>1, FlattenEmpty, Zenon DEF AllListed, ToSet
<1>4. ToldOfChannel(StringToMessage(line).params[1])'
  BY <1>1, <1>2, <1>3, NothingTold, Zenon DEF ToldOfChannel
<1> QED
  BY <1>4, NamesToldIs, Zenon

\* What a JOIN is answered with tells the members.
LEMMA JoinCmdTells ==
  ASSUME Trimmed, FlowTypes, NEW l \in ClientLines, JoinCmd(l, StringToMessage(l))
  PROVE  NamesTold'
<1>1. PICK m : m = StringToMessage(l)
  OBVIOUS
<1>2. ~Malformed(m) /\ m.cmd = "JOIN" /\ Read(l)
  BY <1>1, Zenon DEF JoinCmd, Parsed
<1>3. PICK c \in Seq(Speech) : c = m.params[1]
  BY <1>1, <1>2, ReadType
<1>4. line' = l /\ channelInfo' = channelInfo /\ channelNameToIDMap' = channelNameToIDMap
  BY <1>2, Zenon DEF Read, channelMaps
<1>5. GetChannelUsers(StringToMessage(line).params[1], userInfo)' = GetChannelUsers(c, userInfo')
  BY <1>1, <1>3, <1>4, Zenon DEF GetChannelUsers, ChannelExists
<1>6. \E us \in Seq(Users) : \E known : \E told \in GetChannelUsers(c, known) :
        /\ us = told.users
        /\ AllListed(answers') = Nicks(us)
        /\ \A a \in ToSet(answers') : IsList(a) => Short(a.params[5])
  <2>1. CASE ~ChannelExists(c)
    <3>1. PICK n : n = ErrNoSuchChannel(c)
      OBVIOUS
    <3>2. answers' = ToClient(<<n>>)
      BY <1>1, <1>3, <2>1, <3>1, Zenon DEF JoinCmd, Write, ToClient
    <3>3. n \in NumericsOf(Speech)
      <4>1. <<n>> \in Seq(NumericsOf(Speech)) /\ Len(<<n>>) = 1 /\ <<n>>[1] = n
        BY <3>1, ErrorsType, OneAtom
      <4> QED
        BY <4>1, ElementOfSeq
    <3>4. n.code = "403" /\ "403" # "353"
      BY <3>1 DEF ErrNoSuchChannel, Numeric
    <3>5. <<n>> \in Seq(Tellers) /\ AllTold(<<n>>) = <<>>
      BY <3>3, <3>4, OtherRepliesTell
    <3>6. AllListed(answers') = Nicks(<<>>)
          /\ \A a \in ToSet(answers') : IsList(a) => Short(a.params[5])
      BY <3>2, <3>5, ClientIsTold, NothingTold
    <3>7. PICK t : t = [users |-> <<>>, known |-> userInfo] /\ t.users = <<>>
      <4>1. [users |-> <<>>, known |-> userInfo].users = <<>>
        OBVIOUS
      <4> QED
        BY <4>1, Zenon
    <3>8. t \in GetChannelUsers(c, userInfo)
      BY <2>1, <3>7 DEF GetChannelUsers
    <3>9. <<>> \in Seq(Users)
      BY EmptySeq
    <3> QED
      BY <3>6, <3>7, <3>8, <3>9, Zenon
  <2>2. CASE ChannelExists(c)
    <3>1. PICK known \in TopicResolved(c) : \E told \in GetChannelUsers(c, known) :
            Joined(c, known, told)
      BY <1>1, <1>3, <2>2, JoinCmdIs
    <3>2. PICK told \in GetChannelUsers(c, known) : Joined(c, known, told)
      BY <3>1
    <3>3. known \in SUBSET Users
      BY TopicResolvedType
    <3>4. PICK us \in Seq(Users) : us = told.users
      BY <3>3, ChannelUsersType
    <3>5. PICK topic \in Seq(Speech) : topic = GetChannelTopic(c, known)
      BY <3>3, TopicsAreSpeech
    <3>6. PICK rs \in Seq(Tellers) : rs = JoinReplies(c, topic, known, us)
                                     /\ AllTold(rs) = Nicks(us)
      BY <3>3, JoinTells
    <3>7. PICK j : j = Message(<<Me>>, "JOIN", <<c>>)
      OBVIOUS
    <3>8. j.cmd = "JOIN"
      BY <3>7 DEF Message
    <3>9. answers' = <<j>> \o ToClient(rs)
      BY <3>2, <3>4, <3>5, <3>6, <3>7, Zenon DEF Joined, ToClient
    <3>10. AllListed(answers') = Nicks(us)
           /\ \A a \in ToSet(answers') : IsList(a) => Short(a.params[5])
      BY <3>6, <3>8, <3>9, JoinListsNothing
    <3> QED
      BY <3>4, <3>10, Zenon
  <2> QED
    BY <2>1, <2>2
<1>7. PICK us \in Seq(Users) : \E known : \E told \in GetChannelUsers(c, known) :
        /\ us = told.users
        /\ AllListed(answers') = Nicks(us)
        /\ \A a \in ToSet(answers') : IsList(a) => Short(a.params[5])
  BY <1>6
<1>8. PICK t \in GetChannelUsers(c, userInfo') : t.users = us
  BY <1>7, SameMembers
<1>9. ToldOfChannel(StringToMessage(line).params[1])'
  BY <1>5, <1>7, <1>8, Zenon DEF ToldOfChannel
<1> QED
  BY <1>9, NamesToldIs, Zenon

\* No other step that leaves an answer is one of a JOIN.
LEMMA OthersTellNothing ==
  ASSUME FlowTypes, Next, ~\E l \in ClientLines : JoinCmd(l, StringToMessage(l)),
         answers' # <<>>
  PROVE  ~Joins'
<1>1. ASSUME Idle, NEW l \in ClientLines, Command(l, StringToMessage(l))
      PROVE  ~Joins'
  <2>1. PICK m : m = StringToMessage(l)
    OBVIOUS
  <2>0. ~ReadStale(l, m)
    BY <1>1, Zenon DEF ReadStale, Idle
  <2>2. /\ "PRIVMSG" # "JOIN" /\ "PING" # "JOIN" /\ "MODE" # "JOIN" /\ "TOPIC" # "JOIN"
        /\ "WHO" # "JOIN" /\ "WHOIS" # "JOIN"
    OBVIOUS
  <2>3. line' = l /\ ~Parsed(m, "JOIN")
    BY <1>1, <2>0, <2>1, <2>2, Zenon DEF Command, ReadMalformed, ReadPrivmsg, Ping, Mode,
       TopicCmd, Who, Whois, Parsed, Read
  <2> QED
    BY <2>1, <2>3, Zenon DEF Joins
<1>2. ASSUME Idle, line' = line
      PROVE  ~Joins'
  BY <1>2, Zenon DEF Idle, Joins
<1>3. ASSUME incoming # None, line' = line
      PROVE  ~Joins'
  <2>1. Parsed(StringToMessage(line), "PRIVMSG")
    BY <1>3, Zenon DEF FlowTypes
  <2>2. "PRIVMSG" # "JOIN"
    OBVIOUS
  <2> QED
    BY <1>3, <2>1, <2>2, Zenon DEF Joins, Parsed
<1>4. Welcome => line' = line
  BY Zenon DEF Welcome
<1>5. Notice => line' = line
  BY Zenon DEF Notice, Deliver, client
<1>6. \A e : Event(e) => line' = line
  BY Zenon DEF Event, HandleUnresolvedSender, HandleUnresolvedConversation,
     HandleMessageEvent, Deliver, client
<1>7. \A u, c : FileShared(u, c) => line' = line
  BY Zenon DEF FileShared, Deliver, client
<1>8. SendNothing \/ SendToNoChannel \/ SendStale \/ SendPrivmsg \/ SendFails
        => incoming # None /\ line' = line
  BY Zenon DEF SendNothing, SendToNoChannel, SendStale, SendPrivmsg, SendFails, Route, client
<1>9. Forget => ~Joins'
  BY Zenon DEF Forget, Joins
<1>10. ~RegenerateReverseMappings
  BY Zenon DEF RegenerateReverseMappings, client
<1> QED
  BY <1>1, <1>2, <1>3, <1>4, <1>5, <1>6, <1>7, <1>8, <1>9, <1>10, NextIs, Zenon

\* A client that joins is told the nicks of all members in order, on lines that
\* are no longer than the limit and one nick, however many there are.
THEOREM NamesToldAll == Spec => []NamesTold
<1>1. Init => NamesTold
  BY Zenon DEF Init, NamesTold
<1>2. FlowTypes /\ NamesTold /\ [Next]_vars => NamesTold'
  <2>1. ASSUME FlowTypes, Next
        PROVE  NamesTold'
    <3>1. CASE \E l \in ClientLines : JoinCmd(l, StringToMessage(l))
      <4>1. Trimmed => NamesTold'
        BY <2>1, <3>1, JoinCmdTells
      <4> QED
        BY <4>1, NamesToldIs, Zenon
    <3>2. CASE answers' = <<>>
      BY <3>2, NoAnswerTells
    <3>3. CASE answers' # <<>> /\ ~\E l \in ClientLines : JoinCmd(l, StringToMessage(l))
      <4>1. ~Joins'
        BY <2>1, <3>3, OthersTellNothing
      <4> QED
        BY <4>1, NamesToldIs, Zenon
    <3> QED
      BY <3>1, <3>2, <3>3
  <2>2. CASE NamesTold /\ UNCHANGED vars
    <3>1. line' = line /\ answers' = answers /\ userInfo' = userInfo
          /\ channelInfo' = channelInfo /\ channelNameToIDMap' = channelNameToIDMap
      BY <2>2, Zenon DEF vars, userMaps, channelMaps, client
    <3>2. PICK c : c = StringToMessage(line).params[1]
      OBVIOUS
    <3>3. StringToMessage(line').params[1] = c /\ (Joins' => Joins)
      BY <3>1, <3>2, Zenon DEF Joins
    <3>4. GetChannelUsers(StringToMessage(line).params[1], userInfo)'
            = GetChannelUsers(c, userInfo)
      BY <3>1, <3>3, Zenon DEF GetChannelUsers, ChannelExists
    <3>5. ToldOfChannel(c) => ToldOfChannel(StringToMessage(line).params[1])'
      BY <3>1, <3>4, Zenon DEF ToldOfChannel
    <3> QED
      BY <2>2, <3>2, <3>3, <3>5, NamesToldIs, Zenon
  <2> QED
    BY <2>1, <2>2
<1> QED
  BY <1>1, <1>2, FlowTypesInvariant, PTL DEF Spec

(***************************************************************************)
(* MessageText: what is encoded is decoded to what it was                  *)
(***************************************************************************)

\* The parts of Decode.
Amp == "&"
Tails == {Entity.amp, Entity.lt, Entity.gt}

IsEntity(t, i) == i \in 1 .. Len(t) - 1 /\ t[i] = Amp /\ t[i + 1] \in Tails

CharOf(tail) == CASE tail = Entity.amp -> "&"
                  [] tail = Entity.lt -> "<"
                  [] tail = Entity.gt -> ">"

\* What is decoded of the atom of t at i.
DecodedAt(t, i) ==
  IF IsEntity(t, i) THEN <<CharOf(t[i + 1])>>
  ELSE IF IsEntity(t, i - 1) THEN <<>> ELSE <<t[i]>>

DecodedRows(t) == [i \in DOMAIN t |-> DecodedAt(t, i)]

\* No entity begins with the last atom of e.
Closed(e) == Len(e) # 0 => e[Len(e)] # Amp

\* x is e with one more atom.
Longer(x, e, a, n, m) ==
  Len(x) = m /\ x[m] = a /\ \A i \in 1 .. n : x[i] = e[i]

\* The atoms of a text with another at its end, by position.
LEMMA LongerIs ==
  ASSUME NEW S, NEW e \in Seq(S), NEW a \in S, NEW n, NEW m, n = Len(e), m = n + 1
  PROVE  Append(e, a) \in Seq(S) /\ Longer(Append(e, a), e, a, n, m)
  BY AppendProperties DEF Longer

\* Decode is a row of what is decoded of each atom.
LEMMA DecodeIs ==
  ASSUME NEW t
  PROVE  Decode(t) = FlattenSeq(DecodedRows(t))
  BY DEF Decode, Spread, DecodedRows, DecodedAt, IsEntity, CharOf, Amp, Tails

\* The atoms are decoded to texts.
LEMMA DecodedRowsType ==
  ASSUME NEW S, Alphabet(S), NEW t \in Seq(S)
  PROVE  /\ DecodedRows(t) \in Seq(Seq(S)) /\ Len(DecodedRows(t)) = Len(t)
         /\ \A i \in 1 .. Len(t) : DecodedRows(t)[i] = DecodedAt(t, i)
<1>1. DOMAIN t = 1 .. Len(t) /\ Len(t) \in Nat /\ \A i \in 1 .. Len(t) : t[i] \in S
  BY LenProperties, ElementOfSeq
<1>2. \A x \in Tails : CharOf(x) \in S
  BY AlphabetHas DEF Entity, CharOf, Tails
<1>3. ASSUME NEW i \in 1 .. Len(t)
      PROVE  DecodedAt(t, i) \in Seq(S)
  <2>1. IsEntity(t, i) => CharOf(t[i + 1]) \in S
    BY <1>2 DEF IsEntity
  <2> QED
    BY <1>1, <2>1 DEF DecodedAt
<1>4. PICK W : W = Seq(S)
  OBVIOUS
<1>5. PICK f : f = [i \in 1 .. Len(t) |-> DecodedAt(t, i)]
  OBVIOUS
<1>6. f \in Seq(W) /\ Len(f) = Len(t) /\ \A i \in 1 .. Len(t) : f[i] = DecodedAt(t, i)
  BY <1>1, <1>3, <1>4, <1>5
<1>7. f = DecodedRows(t)
  BY <1>1, <1>5, Zenon DEF DecodedRows
<1> QED
  BY <1>4, <1>6, <1>7, Zenon

\* What follows a text that ends with no "&" leaves what is decoded of it.
LEMMA DecodedBefore ==
  ASSUME NEW S, NEW e \in Seq(S), Closed(e), NEW x \in Seq(S), Len(e) <= Len(x),
         \A i \in 1 .. Len(e) : x[i] = e[i]
  PROVE  /\ \A i \in 1 .. Len(e) : DecodedAt(x, i) = DecodedAt(e, i)
         /\ ~IsEntity(x, Len(e))
<1>1. PICK n \in Nat, m \in Nat : n = Len(e) /\ m = Len(x) /\ n <= m
  BY LenProperties
<1>2. \A i \in 1 .. n : IsEntity(x, i) <=> IsEntity(e, i)
  <2> SUFFICES ASSUME NEW i \in 1 .. n
               PROVE  IsEntity(x, i) <=> IsEntity(e, i)
    OBVIOUS
  <2>1. CASE i = n
    BY <1>1, <2>1 DEF IsEntity, Closed
  <2>2. CASE i # n
    <3>1. i \in 1 .. n - 1 /\ i \in 1 .. m - 1 /\ i + 1 \in 1 .. n
      BY <1>1, <2>2
    <3> QED
      BY <1>1, <3>1 DEF IsEntity
  <2> QED
    BY <2>1, <2>2
<1>3. ~IsEntity(x, n)
  BY <1>1, <1>2 DEF IsEntity
<1>4. \A i \in 1 .. n : IsEntity(x, i - 1) <=> IsEntity(e, i - 1)
  <2> SUFFICES ASSUME NEW i \in 1 .. n
               PROVE  IsEntity(x, i - 1) <=> IsEntity(e, i - 1)
    OBVIOUS
  <2>1. i = 1 \/ i - 1 \in 1 .. n
    OBVIOUS
  <2>2. ~IsEntity(x, 0) /\ ~IsEntity(e, 0)
    BY <1>1 DEF IsEntity
  <2> QED
    BY <1>2, <2>1, <2>2
<1>5. ASSUME NEW i \in 1 .. n
      PROVE  DecodedAt(x, i) = DecodedAt(e, i)
  <2>1. CASE IsEntity(e, i)
    <3>1. i + 1 \in 1 .. n
      BY <1>1, <2>1 DEF IsEntity
    <3> QED
      BY <1>1, <1>2, <2>1, <3>1 DEF DecodedAt
  <2>2. CASE ~IsEntity(e, i)
    BY <1>1, <1>2, <1>4, <2>2 DEF DecodedAt
  <2> QED
    BY <2>1, <2>2
<1> QED
  BY <1>1, <1>3, <1>5

\* An atom after a text that ends with no "&" is itself.
LEMMA DecodeAppend ==
  ASSUME NEW S, Alphabet(S), NEW e \in Seq(S), Closed(e), NEW a \in S
  PROVE  Decode(Append(e, a)) = Append(Decode(e), a)
<1>1. PICK n \in Nat, m \in Nat : n = Len(e) /\ m = n + 1
  BY LenProperties
<1>2. PICK x \in Seq(S) : x = Append(e, a) /\ Longer(x, e, a, n, m)
  BY <1>1, LongerIs, Zenon
<1>3. PICK W : W = Seq(S)
  OBVIOUS
<1>4. PICK r \in Seq(W) : /\ r = DecodedRows(e) /\ Len(r) = n
                          /\ \A i \in 1 .. n : r[i] = DecodedAt(e, i)
  BY <1>1, <1>3, DecodedRowsType
<1>5. PICK q \in Seq(W) : /\ q = DecodedRows(x) /\ Len(q) = m
                          /\ \A i \in 1 .. m : q[i] = DecodedAt(x, i)
  <2>1. Len(x) = m
    BY <1>2 DEF Longer
  <2> QED
    BY <1>3, <2>1, DecodedRowsType, Zenon
<1>6. /\ \A i \in 1 .. n : DecodedAt(x, i) = DecodedAt(e, i)
      /\ ~IsEntity(x, n)
  <2>1. Len(x) = m /\ n <= m /\ \A i \in 1 .. n : x[i] = e[i]
    BY <1>1, <1>2 DEF Longer
  <2> QED
    BY <1>1, <2>1, DecodedBefore
<1>7. DecodedAt(x, m) = <<a>>
  BY <1>1, <1>2, <1>6 DEF DecodedAt, IsEntity, Longer
<1>8. PICK w \in W : w = <<a>>
  BY <1>3, OneAtom
<1>9. PICK z \in Seq(W) : z = Append(r, w) /\ Longer(z, r, w, n, m)
  BY <1>1, <1>4, LongerIs, Zenon
<1>10. q = z
  <2>1. \A i \in 1 .. m : q[i] = z[i]
    BY <1>1, <1>4, <1>5, <1>6, <1>7, <1>8, <1>9 DEF Longer
  <2> QED
    BY <1>5, <1>9, <2>1, SeqEqual DEF Longer
<1>11. FlattenSeq(Append(r, w)) = FlattenSeq(r) \o w /\ FlattenSeq(r) \in Seq(S)
  BY <1>3, <1>4, <1>8, FlattenAppend, FlattenType
<1>12. FlattenSeq(r) \o <<a>> = Append(FlattenSeq(r), a)
  BY <1>11, AppendIsConcat
<1>13. Decode(x) = FlattenSeq(q) /\ Decode(e) = FlattenSeq(r)
  BY <1>4, <1>5, DecodeIs, Zenon
<1> QED
  BY <1>2, <1>8, <1>9, <1>10, <1>11, <1>12, <1>13, Zenon

\* The last two positions of a row.
LEMMA LastTwo ==
  ASSUME NEW n \in Nat, NEW m \in Nat, NEW l \in Nat, m = n + 1, l = m + 1
  PROVE  \A i \in 1 .. l : i \in 1 .. n \/ i = m \/ i = l
  OBVIOUS

\* An entity after a text that ends with no "&" is its character.
LEMMA DecodeEntity ==
  ASSUME NEW S, Alphabet(S), NEW e \in Seq(S), Closed(e), NEW b \in Tails
  PROVE  Decode(Append(Append(e, Amp), b)) = Append(Decode(e), CharOf(b))
<1>1. PICK n \in Nat, m \in Nat, l \in Nat : n = Len(e) /\ m = n + 1 /\ l = m + 1
  BY LenProperties
<1>2. Amp \in S /\ b \in S /\ CharOf(b) \in S
  BY AlphabetHas, Zenon DEF Amp, Entity, CharOf, Tails
<1>3. PICK y \in Seq(S) : y = Append(e, Amp) /\ Longer(y, e, Amp, n, m)
  BY <1>1, <1>2, LongerIs, Zenon
<1>4. PICK x \in Seq(S) : x = Append(y, b) /\ Longer(x, y, b, m, l)
  <2>1. m = Len(y)
    BY <1>3 DEF Longer
  <2> QED
    BY <1>1, <1>2, <2>1, LongerIs, Zenon
<1>5. PICK W : W = Seq(S)
  OBVIOUS
<1>6. PICK r \in Seq(W) : /\ r = DecodedRows(e) /\ Len(r) = n
                          /\ \A i \in 1 .. n : r[i] = DecodedAt(e, i)
  BY <1>1, <1>5, DecodedRowsType
<1>7. PICK q \in Seq(W) : /\ q = DecodedRows(x) /\ Len(q) = l
                          /\ \A i \in 1 .. l : q[i] = DecodedAt(x, i)
  <2>1. Len(x) = l
    BY <1>4 DEF Longer
  <2> QED
    BY <1>5, <2>1, DecodedRowsType, Zenon
<1>8. /\ \A i \in 1 .. n : DecodedAt(x, i) = DecodedAt(e, i)
      /\ ~IsEntity(x, n)
  <2>1. n <= l /\ Len(x) = l /\ \A i \in 1 .. n : x[i] = e[i]
    BY <1>1, <1>3, <1>4 DEF Longer
  <2> QED
    BY <1>1, <2>1, DecodedBefore
<1>9. IsEntity(x, m) /\ ~IsEntity(x, l)
  <2>1. x[m] = Amp /\ x[m + 1] = b
    BY <1>1, <1>3, <1>4 DEF Longer
  <2> QED
    BY <1>1, <1>4, <2>1 DEF IsEntity, Longer
<1>10. PICK w \in W, v \in W : w = <<CharOf(b)>> /\ v = <<>>
  BY <1>2, <1>5, OneAtom, EmptySeq
<1>11. DecodedAt(x, m) = w /\ DecodedAt(x, l) = v
  BY <1>1, <1>4, <1>9, <1>10 DEF DecodedAt, Longer
<1>12. PICK p \in Seq(W) : p = Append(r, w) /\ Longer(p, r, w, n, m)
  BY <1>1, <1>6, LongerIs, Zenon
<1>13. PICK z \in Seq(W) : z = Append(p, v) /\ Longer(z, p, v, m, l)
  <2>1. m = Len(p)
    BY <1>12 DEF Longer
  <2> QED
    BY <1>1, <2>1, LongerIs, Zenon
<1>14. q = z
  <2>1. ASSUME NEW i \in 1 .. l
        PROVE  q[i] = z[i]
    <3>1. i \in 1 .. n \/ i = m \/ i = l
      BY <1>1, LastTwo
    <3> QED
      BY <1>1, <1>6, <1>7, <1>8, <1>11, <1>12, <1>13, <3>1 DEF Longer
  <2> QED
    BY <1>7, <1>13, <2>1, SeqEqual DEF Longer
<1>15. FlattenSeq(z) = FlattenSeq(p) \o v /\ FlattenSeq(p) = FlattenSeq(r) \o w
       /\ FlattenSeq(r) \in Seq(S) /\ FlattenSeq(p) \in Seq(S)
  BY <1>5, <1>6, <1>12, <1>13, FlattenAppend, FlattenType
<1>16. FlattenSeq(r) \o <<CharOf(b)>> = Append(FlattenSeq(r), CharOf(b))
       /\ FlattenSeq(p) \o <<>> = FlattenSeq(p)
  BY <1>2, <1>15, AppendIsConcat, ConcatEmptySeq
<1>17. Decode(x) = FlattenSeq(q) /\ Decode(e) = FlattenSeq(r)
  BY <1>6, <1>7, DecodeIs, Zenon
<1> QED
  BY <1>3, <1>4, <1>10, <1>14, <1>15, <1>16, <1>17, Zenon

\* What each atom is escaped to.
EscapeRows(t) == [i \in DOMAIN t |-> Escape(t[i])]

\* Encode is a row of escaped atoms.
LEMMA EncodeIs ==
  ASSUME NEW t
  PROVE  Encode(t) = FlattenSeq(EscapeRows(t))
  BY DEF Encode, Spread, EscapeRows

\* An atom is escaped to a text.
LEMMA EscapeType ==
  ASSUME NEW S, Alphabet(S), NEW a \in S
  PROVE  Escape(a) \in Seq(S)
<1>1. /\ <<a>> \in Seq(S) /\ <<"&", "amp;">> \in Seq(S)
      /\ <<"&", "lt;">> \in Seq(S) /\ <<"&", "gt;">> \in Seq(S)
  BY AlphabetHas, OneAtom, TwoAtoms
<1> QED
  BY <1>1 DEF Escape, Entity

\* What each atom is escaped to.
LEMMA EscapeRowsType ==
  ASSUME NEW S, Alphabet(S), NEW t \in Seq(S)
  PROVE  /\ EscapeRows(t) \in Seq(Seq(S)) /\ Len(EscapeRows(t)) = Len(t)
         /\ \A i \in 1 .. Len(t) : EscapeRows(t)[i] = Escape(t[i])
<1>1. DOMAIN t = 1 .. Len(t) /\ Len(t) \in Nat /\ \A i \in 1 .. Len(t) : t[i] \in S
  BY LenProperties, ElementOfSeq
<1>2. PICK W : W = Seq(S)
  OBVIOUS
<1>3. PICK f : f = [i \in 1 .. Len(t) |-> Escape(t[i])]
  OBVIOUS
<1>4. \A i \in 1 .. Len(t) : Escape(t[i]) \in W
  BY <1>1, <1>2, EscapeType
<1>5. f \in Seq(W) /\ Len(f) = Len(t) /\ \A i \in 1 .. Len(t) : f[i] = Escape(t[i])
  BY <1>1, <1>3, <1>4
<1>6. f = EscapeRows(t)
  BY <1>1, <1>3, Zenon DEF EscapeRows
<1> QED
  BY <1>2, <1>5, <1>6, Zenon

\* An atom is escaped to itself, or to the entity of its character.
LEMMA EscapeIs ==
  ASSUME NEW a
  PROVE  \/ Escape(a) = <<a>> /\ a # Amp
         \/ \E b \in Tails : Escape(a) = <<Amp, b>> /\ CharOf(b) = a
<1>1. Entity.amp \in Tails /\ Entity.lt \in Tails /\ Entity.gt \in Tails
  BY DEF Tails
<1>2. CharOf(Entity.amp) = "&" /\ CharOf(Entity.lt) = "<" /\ CharOf(Entity.gt) = ">"
  BY DEF CharOf, Entity
<1>3. CASE a = "&"
  <2>1. Escape(a) = <<Amp, Entity.amp>>
    BY <1>3 DEF Escape, Amp
  <2> QED
    BY <1>1, <1>2, <1>3, <2>1, Zenon
<1>4. CASE a = "<"
  <2>1. Escape(a) = <<Amp, Entity.lt>>
    BY <1>4 DEF Escape, Amp
  <2> QED
    BY <1>1, <1>2, <1>4, <2>1, Zenon
<1>5. CASE a = ">"
  <2>1. Escape(a) = <<Amp, Entity.gt>>
    BY <1>5 DEF Escape, Amp
  <2> QED
    BY <1>1, <1>2, <1>5, <2>1, Zenon
<1>6. CASE a # "&" /\ a # "<" /\ a # ">"
  BY <1>6 DEF Escape, Amp
<1> QED
  BY <1>3, <1>4, <1>5, <1>6, Zenon

\* What is appended decides whether an entity may begin at the end.
LEMMA ClosedAppend ==
  ASSUME NEW S, NEW e \in Seq(S), NEW a \in S, a # Amp
  PROVE  Closed(Append(e, a))
<1>1. Len(Append(e, a)) = Len(e) + 1 /\ Append(e, a)[Len(e) + 1] = a
  BY AppendProperties
<1> QED
  BY <1>1 DEF Closed

\* Two atoms are appended one by one.
LEMMA TwoMore ==
  ASSUME NEW S, NEW e \in Seq(S), NEW a \in S, NEW b \in S
  PROVE  e \o <<a, b>> = Append(Append(e, a), b)
<1>1. <<a>> \in Seq(S) /\ Append(<<a>>, b) = <<a, b>>
  BY OneAtom, PairIsAppend
<1>2. e \o Append(<<a>>, b) = Append(e \o <<a>>, b)
  BY <1>1, ConcatAppend
<1>3. e \o <<a>> = Append(e, a)
  BY AppendIsConcat
<1> QED
  BY <1>1, <1>2, <1>3, Zenon

\* One more atom is escaped for itself.
LEMMA EncodeAppend ==
  ASSUME NEW S, Alphabet(S), NEW t \in Seq(S), NEW a \in S
  PROVE  Encode(Append(t, a)) = Encode(t) \o Escape(a)
<1>1. PICK W : W = Seq(S)
  OBVIOUS
<1>2. PICK n \in Nat, m \in Nat : n = Len(t) /\ m = n + 1
  BY LenProperties
<1>3. PICK x \in Seq(S) : x = Append(t, a) /\ Longer(x, t, a, n, m)
  BY <1>2, LongerIs, Zenon
<1>4. Len(x) = m
  BY <1>3 DEF Longer
<1>5. PICK r \in Seq(W) : /\ r = EscapeRows(t) /\ Len(r) = n
                          /\ \A i \in 1 .. n : r[i] = Escape(t[i])
  BY <1>1, <1>2, EscapeRowsType
<1>6. PICK q \in Seq(W) : /\ q = EscapeRows(x) /\ Len(q) = m
                          /\ \A i \in 1 .. m : q[i] = Escape(x[i])
  BY <1>1, <1>4, EscapeRowsType
<1>7. PICK w \in W : w = Escape(a)
  BY <1>1, EscapeType
<1>8. PICK z \in Seq(W) : z = Append(r, w) /\ Longer(z, r, w, n, m)
  BY <1>2, <1>5, LongerIs, Zenon
<1>9. q = z
  <2>1. \A i \in 1 .. m : q[i] = z[i]
    BY <1>2, <1>3, <1>5, <1>6, <1>7, <1>8 DEF Longer
  <2> QED
    BY <1>6, <1>8, <2>1, SeqEqual DEF Longer
<1>10. FlattenSeq(Append(r, w)) = FlattenSeq(r) \o w
  BY <1>1, FlattenAppend
<1>11. Encode(x) = FlattenSeq(q) /\ Encode(t) = FlattenSeq(r)
  BY <1>5, <1>6, EncodeIs, Zenon
<1> QED
  BY <1>3, <1>7, <1>8, <1>9, <1>10, <1>11, Zenon

\* What is encoded ends with no "&" and is decoded to what it was.
THEOREM DecodeEncode ==
  ASSUME NEW S, Alphabet(S)
  PROVE  \A t \in Seq(S) : Closed(Encode(t)) /\ Decode(Encode(t)) = t
<1> DEFINE T == {t \in Seq(S) : Closed(Encode(t)) /\ Decode(Encode(t)) = t}
<1>1. <<>> \in T
  <2>1. EscapeRows(<<>>) = <<>> /\ DecodedRows(<<>>) = <<>> /\ Len(<<>>) = 0
    BY DEF EscapeRows, DecodedRows
  <2>2. Encode(<<>>) = <<>> /\ Decode(<<>>) = <<>>
    BY <2>1, EncodeIs, DecodeIs, FlattenEmpty, Zenon
  <2> QED
    BY <2>1, <2>2, EmptySeq DEF Closed
<1>2. ASSUME NEW t \in Seq(S), NEW a \in S, t \in T
      PROVE  Append(t, a) \in T
  <2>1. PICK e \in Seq(S) : e = Encode(t) /\ Closed(e) /\ Decode(e) = t
    BY <1>2, EncodeType
  <2>2. Append(t, a) \in Seq(S)
    BY AppendProperties
  <2>3. Encode(Append(t, a)) = e \o Escape(a)
    BY <2>1, EncodeAppend
  <2>4. CASE Escape(a) = <<a>> /\ a # Amp
    <3>1. e \o <<a>> = Append(e, a)
      BY AppendIsConcat
    <3>2. Closed(Append(e, a))
      BY <2>4, ClosedAppend
    <3>3. Decode(Append(e, a)) = Append(t, a)
      BY <2>1, DecodeAppend
    <3> QED
      BY <2>2, <2>3, <2>4, <3>1, <3>2, <3>3, Zenon
  <2>5. ASSUME NEW b \in Tails, Escape(a) = <<Amp, b>>, CharOf(b) = a
        PROVE  Append(t, a) \in T
    <3>1. Amp \in S /\ b \in S /\ b # Amp
      BY AlphabetHas, Zenon DEF Amp, Entity, Tails
    <3>2. PICK d \in Seq(S) : d = Append(e, Amp)
      BY <3>1, AppendProperties
    <3>3. e \o <<Amp, b>> = Append(d, b)
      <4>1. PICK amp \in S, c \in S : amp = Amp /\ c = b
        BY <3>1
      <4>2. e \o <<amp, c>> = Append(Append(e, amp), c)
        BY TwoMore
      <4> QED
        BY <3>2, <4>1, <4>2, Zenon
    <3>4. Closed(Append(d, b))
      BY <3>1, ClosedAppend
    <3>5. Decode(Append(Append(e, Amp), b)) = Append(Decode(e), CharOf(b))
      BY <2>1, DecodeEntity
    <3> QED
      BY <2>1, <2>2, <2>3, <2>5, <3>2, <3>3, <3>4, <3>5, Zenon
  <2> QED
    BY <2>4, <2>5, EscapeIs, Zenon
<1>3. Seq(S) \subseteq T
  <2> HIDE DEF T
  <2> QED
    BY <1>1, <1>2, AppendInduct
<1> QED
  BY <1>3

(***************************************************************************)
(* MessageText: the pieces of a text that goes on                          *)
(***************************************************************************)

\* f is where x is first found in t from i on.
IsFirst(t, x, i, f) ==
  f \in i .. Len(t) + 1 /\ (f <= Len(t) => t[f] = x) /\ \A k \in i .. f - 1 : t[k] # x

\* Find is the first position that has the atom, or the one after the text, and
\* nothing else is.
LEMMA FindIs ==
  ASSUME NEW S, NEW t \in Seq(S), NEW x, NEW i \in 1 .. Len(t) + 1
  PROVE  /\ IsFirst(t, x, i, Find(t, x, i))
         /\ \A f : IsFirst(t, x, i, f) => Find(t, x, i) = f
<1>1. PICK n \in Nat, m \in Nat : n = Len(t) /\ m = n + 1
  BY LenProperties
<1>2. PICK g : g = Find(t, x, i)
  OBVIOUS
<1>3. IsFirst(t, x, i, g)
  BY <1>2, FindFirst DEF IsFirst
<1>4. ASSUME NEW f, IsFirst(t, x, i, f)
      PROVE  g = f
  <2>1. f \in i .. m /\ g \in i .. m
    BY <1>1, <1>3, <1>4 DEF IsFirst
  <2>2. ~(f < g)
    <3>1. f < g => f \in i .. g - 1 /\ f <= n
      BY <1>1, <2>1
    <3> QED
      BY <1>1, <1>3, <1>4, <3>1 DEF IsFirst
  <2>3. ~(g < f)
    <3>1. g < f => g \in i .. f - 1 /\ g <= n
      BY <1>1, <2>1
    <3> QED
      BY <1>1, <1>3, <1>4, <3>1 DEF IsFirst
  <2> QED
    BY <2>1, <2>2, <2>3
<1> QED
  BY <1>2, <1>3, <1>4, Zenon

\* p \o r, at the positions of r.
Follows(t, r, n, m) == Len(t) = n + m /\ \A i \in 1 .. m : t[n + i] = r[i]

\* The atoms of a text that follows another, by position.
LEMMA FollowsIs ==
  ASSUME NEW S, NEW p \in Seq(S), NEW r \in Seq(S), NEW n, NEW m, n = Len(p), m = Len(r)
  PROVE  p \o r \in Seq(S) /\ Follows(p \o r, r, n, m)
<1>1. p \o r \in Seq(S) /\ InARow(p \o r, p, r, n, m) /\ n \in Nat /\ m \in Nat
  BY ConcatIs, LenProperties
<1> QED
  BY <1>1 DEF InARow, Follows

\* t ends with r.
Ends(S, t, r, n, m) ==
  /\ t \in Seq(S) /\ r \in Seq(S) /\ n \in Nat /\ m \in Nat /\ m = Len(r)
  /\ Follows(t, r, n, m)

\* What is found in r is found as far behind p.
LEMMA FindLater ==
  ASSUME NEW S, NEW t, NEW r, NEW n, NEW m, Ends(S, t, r, n, m), NEW x, NEW j \in 1 .. m + 1
  PROVE  Find(t, x, n + j) = n + Find(r, x, j)
<1> USE DEF Ends
<1>1. PICK f \in j .. m + 1 : f = Find(r, x, j) /\ IsFirst(r, x, j, f)
  <2>1. IsFirst(r, x, j, Find(r, x, j))
    BY FindIs
  <2> QED
    BY <2>1 DEF IsFirst
<1>2. n + j \in 1 .. Len(t) + 1
  BY DEF Follows
<1>3. IsFirst(t, x, n + j, n + f)
  <2>1. n + f \in n + j .. Len(t) + 1
    BY <1>1 DEF Follows
  <2>2. n + f <= Len(t) => t[n + f] = x
    BY <1>1 DEF Follows, IsFirst
  <2>3. ASSUME NEW k \in n + j .. n + f - 1
        PROVE  t[k] # x
    <3>1. PICK i \in j .. f - 1 : k = n + i
      <4>1. k - n \in j .. f - 1 /\ k = n + (k - n)
        BY <1>1
      <4> QED
        BY <4>1
    <3>2. i \in 1 .. m
      BY <1>1, <3>1
    <3> QED
      BY <1>1, <3>1, <3>2 DEF Follows, IsFirst
  <2> QED
    BY <2>1, <2>2, <2>3 DEF IsFirst
<1> QED
  BY <1>1, <1>2, <1>3, FindIs

\* What t has from n + k to n + l, r has from k to l.
SamePart(t, r, n, k, l) == SubSeq(t, n + k, n + l) = SubSeq(r, k, l)

\* A part of r is a part of what it ends.
LEMMA PartLater ==
  ASSUME NEW S, NEW t, NEW r, NEW n, NEW m, Ends(S, t, r, n, m),
         NEW k \in Nat, NEW l \in Nat, k # 0, l <= m, k <= l + 1
  PROVE  SamePart(t, r, n, k, l)
<1> USE DEF Ends
<1>1. PICK q \in Nat : k + q = l + 1
  <2>1. l + 1 - k \in Nat /\ k + (l + 1 - k) = l + 1
    OBVIOUS
  <2> QED
    BY <2>1
<1>2. PICK y \in Seq(S) : y = SubSeq(r, k, l) /\ IsPart(y, r, k, q)
  BY <1>1, PartIs
<1>3. PICK a \in Nat, b \in Nat : a = n + k /\ b = n + l /\ a # 0 /\ b <= Len(t) /\ a + q = b + 1
  BY <1>1 DEF Follows
<1>4. PICK z \in Seq(S) : z = SubSeq(t, a, b) /\ IsPart(z, t, a, q)
  BY <1>1, <1>3, PartIs
<1>5. \A i \in 1 .. q : z[i] = y[i]
  <2> SUFFICES ASSUME NEW i \in 1 .. q
               PROVE  z[i] = y[i]
    OBVIOUS
  <2>1. PICK h \in 1 .. m : h = k + i - 1 /\ a + i - 1 = n + h
    BY <1>1, <1>3
  <2>2. t[n + h] = r[h]
    BY <2>1 DEF Follows
  <2> QED
    BY <1>2, <1>4, <2>1, <2>2 DEF IsPart
<1>6. z = y
  BY <1>2, <1>4, <1>5, SeqEqual DEF IsPart
<1> QED
  BY <1>2, <1>3, <1>4, <1>6, Zenon DEF SamePart

\* The pieces of what follows do not depend on what was before.
LEMMA PiecesLater ==
  ASSUME NEW S, NEW t, NEW r, NEW n, NEW m, Ends(S, t, r, n, m)
  PROVE  \A j \in 1 .. m + 2 : PiecesFrom(t, n + j) = PiecesFrom(r, j)
<1>0. t \in Seq(S) /\ r \in Seq(S) /\ n \in Nat /\ m \in Nat /\ m = Len(r)
      /\ Follows(t, r, n, m)
  BY DEF Ends
<1>1. PICK l \in Nat : l = m + 2
  BY <1>0
<1> DEFINE T == {j \in 1 .. l : PiecesFrom(t, n + j) = PiecesFrom(r, j)}
<1>2. ASSUME NEW j \in 1 .. l, \A k \in j + 1 .. l : k \in T
      PROVE  j \in T
  <2> SUFFICES PiecesFrom(t, n + j) = PiecesFrom(r, j)
    OBVIOUS
  <2>1. PICK i \in 1 .. Len(t) + 2 : i = n + j
    BY <1>0, <1>1 DEF Follows
  <2>2. j \in 1 .. Len(r) + 2
    BY <1>0, <1>1
  <2>3. CASE j > m
    <3>1. i > Len(t)
      BY <1>0, <2>1, <2>3 DEF Follows
    <3>2. PiecesFrom(t, i) = <<>> /\ PiecesFrom(r, j) = <<>>
      BY <1>0, <2>2, <2>3, <3>1, PiecesStep
    <3> QED
      BY <1>0, <2>1, <3>2
  <2>4. CASE j <= m /\ r[j] # "<"
    <3>1. i <= Len(t) /\ t[i] = r[j]
      BY <1>0, <2>1, <2>4 DEF Follows
    <3>2. PiecesFrom(t, i) = <<Piece(FALSE, <<t[i]>>)>> \o PiecesFrom(t, i + 1)
      BY <1>0, <2>4, <3>1, PiecesStep
    <3>3. PiecesFrom(r, j) = <<Piece(FALSE, <<r[j]>>)>> \o PiecesFrom(r, j + 1)
      BY <1>0, <2>2, <2>4, PiecesStep
    <3>4. j + 1 \in j + 1 .. l /\ i + 1 = n + (j + 1)
      BY <1>0, <1>1, <2>1, <2>4
    <3>5. PiecesFrom(t, n + (j + 1)) = PiecesFrom(r, j + 1)
      BY <1>0, <1>2, <3>4
    <3> QED
      BY <1>0, <2>1, <3>1, <3>2, <3>3, <3>4, <3>5, Zenon
  <2>5. CASE j <= m /\ r[j] = "<"
    <3>1. i <= Len(t) /\ t[i] = r[j]
      BY <1>0, <2>1, <2>5 DEF Follows
    <3>2. PICK c \in j .. m + 1 : c = Find(r, ">", j) /\ (c <= m => r[c] = ">")
      <4>1. j \in 1 .. Len(r) + 1
        BY <1>0, <2>5
      <4>2. IsFirst(r, ">", j, Find(r, ">", j))
        BY <1>0, <4>1, FindIs
      <4> QED
        BY <1>0, <4>2 DEF IsFirst
    <3>3. c # j
      BY <1>0, <2>5, <3>2
    <3>4. PICK d : d = Find(t, ">", i) /\ d = n + c
      BY <1>0, <2>1, <2>5, <3>2, FindLater, SMTT(40)
    <3>5. PiecesFrom(t, i) = <<Piece(TRUE, SubSeq(t, i + 1, d - 1))>> \o PiecesFrom(t, d + 1)
      BY <1>0, <2>5, <3>1, <3>4, PiecesStep
    <3>6. PiecesFrom(r, j) = <<Piece(TRUE, SubSeq(r, j + 1, c - 1))>> \o PiecesFrom(r, c + 1)
      BY <1>0, <2>2, <2>5, <3>2, PiecesStep
    <3>7. PICK k \in Nat, b \in Nat : k = j + 1 /\ b = c - 1
      <4>1. j + 1 \in Nat /\ c - 1 \in Nat
        BY <1>0, <3>2
      <4> QED
        BY <1>0, <4>1
    <3>8. k # 0 /\ b <= m /\ k <= b + 1 /\ i + 1 = n + k /\ d - 1 = n + b
      <4>1. k # 0 /\ b <= m /\ k <= b + 1
        BY <1>0, <3>2, <3>3, <3>7, SMTT(40)
      <4>2. i + 1 = n + k
        BY <1>0, <2>1, <3>7
      <4>3. d - 1 = n + b
        BY <1>0, <3>2, <3>4, <3>7
      <4> QED
        BY <1>0, <4>1, <4>2, <4>3
    <3>9. SubSeq(t, n + k, n + b) = SubSeq(r, k, b)
      <4>1. b <= m /\ k # 0 /\ k <= b + 1
        BY <1>0, <3>8
      <4> QED
        <5>1. SamePart(t, r, n, k, b)
          BY <4>1, PartLater
        <5> QED
          BY <5>1, Zenon DEF SamePart
    <3>10. c + 1 \in j + 1 .. l /\ d + 1 = n + (c + 1)
      BY <1>0, <1>1, <3>2, <3>3, <3>4, SMTT(40)
    <3>11. PiecesFrom(t, n + (c + 1)) = PiecesFrom(r, c + 1)
      BY <1>0, <1>2, <3>10
    <3> QED
      BY <1>0, <2>1, <3>5, <3>6, <3>7, <3>9, <3>10, <3>11, <3>8, Zenon
  <2> QED
    BY <1>0, <1>1, <2>3, <2>4, <2>5
<1>3. 1 .. l \subseteq T
  <2> HIDE DEF T
  <2> QED
    BY <1>0, <1>2, DownInduct
<1> QED
  BY <1>1, <1>3

\* An atom in front is a piece of its own.
LEMMA PiecesOfAtom ==
  ASSUME NEW S, NEW a \in S, a # "<", NEW r \in Seq(S)
  PROVE  Pieces(<<a>> \o r) = <<Piece(FALSE, <<a>>)>> \o Pieces(r)
<1>1. PICK p \in Seq(S) : p = <<a>>
  BY OneAtom
<1>2. PICK n \in Nat, m \in Nat : n = 1 /\ n = Len(p) /\ m = Len(r) /\ p[1] = a
  BY <1>1, LenProperties
<1>3. PICK t \in Seq(S) : t = p \o r /\ Follows(t, r, n, m) /\ InARow(t, p, r, n, m)
  BY <1>2, FollowsIs, ConcatIs, Zenon
<1>4. t[1] = a /\ 1 \in 1 .. Len(t) + 2 /\ 1 <= Len(t)
  BY <1>2, <1>3 DEF InARow, Follows
<1>5. PiecesFrom(t, 1) = <<Piece(FALSE, <<a>>)>> \o PiecesFrom(t, 1 + 1)
  BY <1>4, PiecesStep
<1>6. 1 \in 1 .. m + 2
  OBVIOUS
<1>7. PiecesFrom(t, n + 1) = PiecesFrom(r, 1)
  <2>1. \A j \in 1 .. m + 2 : PiecesFrom(t, n + j) = PiecesFrom(r, j)
    <3>1. Ends(S, t, r, n, m)
      BY <1>2, <1>3 DEF Ends
    <3> QED
      BY <3>1, PiecesLater, SMTT(40)
  <2> QED
    BY <1>6, <2>1, Zenon
<1> QED
  BY <1>1, <1>2, <1>3, <1>5, <1>7, PiecesAreFromFirst, Zenon

\* A reference in front is a piece of its own.
LEMMA PiecesOfReference ==
  ASSUME NEW S, Alphabet(S), NEW u \in Users, NEW r \in Seq(S)
  PROVE  Pieces(<<"<", "@", u, ">">> \o r) = <<Piece(TRUE, <<"@", u>>)>> \o Pieces(r)
<1>1. PICK o \in S, b \in S, c \in S : /\ o = "<" /\ b = "@" /\ c = ">"
                                      /\ o # c /\ b # c /\ u # c /\ u \in S
  <2>1. u \notin Marks /\ ">" \in Marks
    BY AtomAssumption DEF Marks
  <2> QED
    BY <2>1, AlphabetHas, ZenonT(60)
<1>2. PICK p \in Seq(S) : p = <<o, b, u, c>>
  BY <1>1, FiveAtoms
<1>3. PICK n \in Nat, m \in Nat : n = 4 /\ n = Len(p) /\ m = Len(r)
  BY <1>2, LenProperties
<1>4. PICK t \in Seq(S) : t = p \o r /\ Follows(t, r, n, m) /\ InARow(t, p, r, n, m)
  BY <1>3, FollowsIs, ConcatIs, Zenon
<1>5. /\ t[1] = o /\ t[2] = b /\ t[3] = u /\ t[4] = c /\ Len(t) = m + 4
      /\ 1 \in 1 .. Len(t) + 2 /\ 1 <= Len(t) /\ 1 \in 1 .. Len(t) + 1
  BY <1>2, <1>3, <1>4 DEF InARow, Follows
<1>6. Find(t, c, 1) = 4
  <2>1. IsFirst(t, c, 1, 4)
    BY <1>1, <1>5 DEF IsFirst
  <2> QED
    BY <1>5, <2>1, FindIs
<1>7. PiecesFrom(t, 1) = <<Piece(TRUE, SubSeq(t, 1 + 1, 4 - 1))>> \o PiecesFrom(t, 4 + 1)
  BY <1>1, <1>5, <1>6, PiecesStep, ZenonT(60)
<1>8. SubSeq(t, 1 + 1, 4 - 1) = <<b, u>>
  <2>1. PICK q \in Seq(S) : q = <<b, u>> /\ Len(q) = 2
    BY <1>1, TwoAtoms
  <2>2. q[1] = b /\ q[2] = u
    BY <2>1
  <2>3. PICK y \in Seq(S) : y = SubSeq(t, 2, 3) /\ IsPart(y, t, 2, 2)
    <3>1. 2 \in Nat /\ 3 \in Nat /\ 2 # 0 /\ 3 <= Len(t) /\ 2 + 2 = 3 + 1
      BY <1>5
    <3> QED
      BY <3>1, PartIs
  <2>4. \A i \in 1 .. 2 : y[i] = q[i]
    BY <1>5, <2>2, <2>3 DEF IsPart
  <2>5. y = q
    BY <2>1, <2>3, <2>4, SeqEqual DEF IsPart
  <2>6. 1 + 1 = 2 /\ 4 - 1 = 3
    OBVIOUS
  <2> QED
    BY <2>1, <2>3, <2>5, <2>6, Zenon
<1>9. PiecesFrom(t, n + 1) = PiecesFrom(r, 1)
  <2>1. 1 \in 1 .. m + 2
    OBVIOUS
  <2>2. \A j \in 1 .. m + 2 : PiecesFrom(t, n + j) = PiecesFrom(r, j)
    <3>1. Ends(S, t, r, n, m)
      BY <1>3, <1>4 DEF Ends
    <3> QED
      BY <3>1, PiecesLater, SMTT(40)
  <2> QED
    BY <2>1, <2>2, Zenon
<1> QED
  BY <1>1, <1>2, <1>3, <1>4, <1>7, <1>8, <1>9, PiecesAreFromFirst, Zenon

(***************************************************************************)
(* MessageText: what is shown of pieces, and whom they refer to            *)
(***************************************************************************)

\* Pieces, what is shown of them, and the one that refers to a user.
PieceOf(S) == [ref : BOOLEAN, text : Seq(S)]

\* An alphabet with the panic, which is what is shown of a reference to nothing.
Shows(S) == Alphabet(S) /\ Panic[1] \in S

ShownOf(known, x) == IF x.ref THEN ParseRef(x.text, known) ELSE x.text

Shown(known, p) == FlattenSeq([i \in DOMAIN p |-> ShownOf(known, p[i])])

UserPiece(u) == Piece(TRUE, <<"@", u>>)

\* The users that pieces refer to.
Refs(p) == {u \in Users : Contains(p, UserPiece(u))}

\* ParseMessageText decodes what is shown of the pieces.
LEMMA ParseIs ==
  ASSUME NEW t, NEW known
  PROVE  ParseMessageText(t, known) = Decode(Shown(known, Pieces(t)))
  BY DEF ParseMessageText, Spread, Shown, ShownOf

\* Resolved are those the pieces refer to.
LEMMA ResolvedIs ==
  ASSUME NEW t
  PROVE  Resolved(t) = Refs(Pieces(t))
  BY DEF Resolved, Refs, UserPiece, Piece

\* What is shown of a piece is a text.
LEMMA ShownOfType ==
  ASSUME NEW S, Shows(S), NEW known \in SUBSET Users, NEW x \in PieceOf(S)
  PROVE  ShownOf(known, x) \in Seq(S)
<1>1. x.ref \in BOOLEAN /\ x.text \in Seq(S)
  BY DEF PieceOf
<1>2. ParseRef(<<>>, known) \in Seq(S)
  <2>1. ParseRef(<<>>, known) = <<Panic[1]>>
    BY DEF ParseRef, Panic
  <2> QED
    BY <2>1, OneAtom DEF Shows
<1>3. x.text # <<>> => ParseRef(x.text, known) \in Seq(S)
  BY <1>1, ParseRefType DEF Shows
<1> QED
  BY <1>1, <1>2, <1>3, Zenon DEF ShownOf

\* f is what is shown of p piece by piece.
ShownRows(f, known, p, n) ==
  /\ Shown(known, p) = FlattenSeq(f) /\ Len(f) = n
  /\ \A i \in 1 .. n : f[i] = ShownOf(known, p[i])

\* The rows of what is shown.
LEMMA ShownRowsType ==
  ASSUME NEW S, Shows(S), NEW known \in SUBSET Users, NEW p \in Seq(PieceOf(S)),
         NEW n \in Nat, n = Len(p)
  PROVE  \E f \in Seq(Seq(S)) : ShownRows(f, known, p, n)
<1>1. DOMAIN p = 1 .. n /\ \A i \in 1 .. n : p[i] \in PieceOf(S)
  BY LenProperties, ElementOfSeq
<1>2. PICK W : W = Seq(S)
  OBVIOUS
<1>3. \A i \in 1 .. n : ShownOf(known, p[i]) \in W
  BY <1>1, <1>2, ShownOfType
<1>4. PICK f : f = [i \in 1 .. n |-> ShownOf(known, p[i])]
  OBVIOUS
<1>5. f \in Seq(W) /\ Len(f) = n /\ \A i \in 1 .. n : f[i] = ShownOf(known, p[i])
  BY <1>3, <1>4
<1>6. Shown(known, p) = FlattenSeq(f)
  BY <1>1, <1>4, Zenon DEF Shown
<1> QED
  BY <1>2, <1>5, <1>6, Zenon DEF ShownRows

\* With x in front, it is shown in front, and adds whom it refers to.
InFront(known, x, p) ==
  /\ Shown(known, <<x>> \o p) = ShownOf(known, x) \o Shown(known, p)
  /\ Refs(<<x>> \o p) = {u \in Users : x = UserPiece(u)} \cup Refs(p)

\* A piece in front is shown in front, and refers to what it does.
LEMMA ShownCons ==
  ASSUME NEW S, Shows(S), NEW known \in SUBSET Users, NEW x \in PieceOf(S),
         NEW p \in Seq(PieceOf(S))
  PROVE  InFront(known, x, p) /\ Shown(known, p) \in Seq(S)
<1>1. PICK P : P = PieceOf(S) /\ x \in P /\ p \in Seq(P)
  OBVIOUS
<1>2. PICK one \in Nat, n \in Nat, m \in Nat : one = 1 /\ n = Len(p) /\ m = n + 1
  BY <1>1, LenProperties
<1>3. PICK h \in Seq(P) : h = <<x>> /\ Len(h) = 1 /\ h[1] = x
  <2>1. <<x>> \in Seq(P) /\ Len(<<x>>) = 1 /\ <<x>>[1] = x
    BY <1>1
  <2> QED
    BY <2>1
<1>4. PICK q \in Seq(P) : q = h \o p /\ InARow(q, h, p, one, n)
  BY <1>1, <1>2, <1>3, ConcatIs, Zenon
<1>5. Len(q) = m /\ q[1] = x /\ \A i \in 1 .. n : q[i + 1] = p[i]
  <2>1. \A i \in 1 .. n : q[i + 1] = q[one + i]
    BY <1>2
  <2> QED
    BY <1>2, <1>3, <1>4, <2>1 DEF InARow
<1>6. PICK W : W = Seq(S)
  OBVIOUS
<1>7. PICK f \in Seq(W) : ShownRows(f, known, p, n)
  BY <1>2, <1>6, ShownRowsType, Zenon
<1>8. PICK g \in Seq(W) : ShownRows(g, known, q, m)
  <2>1. q \in Seq(PieceOf(S)) /\ m = Len(q)
    BY <1>1, <1>5
  <2> QED
    BY <1>6, <2>1, ShownRowsType, Zenon
<1> USE DEF ShownRows
<1>9. PICK w \in W : w = ShownOf(known, x)
  BY <1>6, ShownOfType
<1>10. PICK k \in Seq(W) : k = <<w>> /\ Len(k) = 1 /\ k[1] = w
  <2>1. <<w>> \in Seq(W) /\ Len(<<w>>) = 1 /\ <<w>>[1] = w
    OBVIOUS
  <2> QED
    BY <2>1
<1>11. PICK z \in Seq(W) : z = k \o f /\ InARow(z, k, f, one, n)
  BY <1>2, <1>7, <1>10, ConcatIs, Zenon
<1>12. g = z
  <2>1. Len(z) = m
    BY <1>2, <1>11 DEF InARow
  <2>2. ASSUME NEW i \in 1 .. m
        PROVE  g[i] = z[i]
    <3>1. CASE i = 1
      BY <1>2, <1>5, <1>8, <1>9, <1>10, <1>11, <3>1 DEF InARow
    <3>2. CASE i # 1
      <4>1. PICK j \in 1 .. n : i = j + 1 /\ i = one + j
        <5>1. i - 1 \in 1 .. n /\ i = (i - 1) + 1 /\ i = one + (i - 1)
          BY <1>2, <3>2
        <5> QED
          BY <5>1
      <4>2. g[i] = ShownOf(known, p[j])
        BY <1>5, <1>8, <4>1
      <4>3. z[i] = f[j]
        BY <1>11, <4>1 DEF InARow
      <4> QED
        BY <1>7, <4>2, <4>3
    <3> QED
      BY <3>1, <3>2
  <2> QED
    BY <1>8, <2>1, <2>2, SeqEqual
<1>13. FlattenSeq(k \o f) = w \o FlattenSeq(f) /\ FlattenSeq(f) \in Seq(S)
  <2>1. FlattenSeq(<<w>> \o f) = w \o FlattenSeq(f)
    BY <1>6, <1>7, <1>9, FlattenCons
  <2>2. FlattenSeq(f) \in Seq(S)
    BY <1>6, <1>7, FlattenType
  <2> QED
    BY <1>10, <2>1, <2>2, Zenon
<1>14. ASSUME NEW y
       PROVE  Contains(q, y) <=> y = x \/ Contains(p, y)
  <2>1. Contains(q, y) <=> \E i \in 1 .. m : q[i] = y
    BY <1>5 DEF Contains
  <2>2. Contains(p, y) <=> \E i \in 1 .. n : p[i] = y
    BY <1>2 DEF Contains
  <2>3. ASSUME NEW i \in 1 .. m, q[i] = y
        PROVE  y = x \/ \E j \in 1 .. n : p[j] = y
    <3>1. CASE i = 1
      BY <1>5, <2>3, <3>1
    <3>2. CASE i # 1
      <4>1. i - 1 \in 1 .. n /\ i = (i - 1) + 1
        BY <1>2, <3>2
      <4> QED
        BY <1>5, <2>3, <4>1
    <3> QED
      BY <3>1, <3>2
  <2>4. y = x => \E i \in 1 .. m : q[i] = y
    BY <1>2, <1>5
  <2>5. ASSUME NEW j \in 1 .. n, p[j] = y
        PROVE  \E i \in 1 .. m : q[i] = y
    <3>1. j + 1 \in 1 .. m /\ q[j + 1] = y
      BY <1>2, <1>5, <2>5
    <3> QED
      BY <3>1
  <2> QED
    BY <2>1, <2>2, <2>3, <2>4, <2>5, Zenon
<1>15. Refs(q) = {u \in Users : x = UserPiece(u)} \cup Refs(p)
  BY <1>14 DEF Refs
<1> QED
  BY <1>3, <1>4, <1>7, <1>8, <1>9, <1>10, <1>11, <1>12, <1>13, <1>15, Zenon DEF InFront

(***************************************************************************)
(* MessageText: what a text shows, and whom it refers to                   *)
(***************************************************************************)

\* What is shown of t, before it is decoded, and whom it refers to.
Saying(known, t) == Shown(known, Pieces(t))
\* Those a text refers to.
Naming(t) == Refs(Pieces(t))

\* What the pieces of a text show is a text, and the pieces are pieces.
LEMMA SayingType ==
  ASSUME NEW S, Shows(S), NEW known \in SUBSET Users, NEW t \in Seq(S)
  PROVE  Saying(known, t) \in Seq(S) /\ Pieces(t) \in Seq(PieceOf(S))
<1>1. PICK p \in Seq(PieceOf(S)) : p = Pieces(t)
  BY PiecesType DEF PieceOf
<1>2. PICK x \in PieceOf(S) : TRUE
  <2>1. <<>> \in Seq(S)
    BY EmptySeq
  <2>2. Piece(TRUE, <<>>) \in PieceOf(S)
    BY <2>1 DEF Piece, PieceOf
  <2> QED
    BY <2>2
<1>3. Shown(known, p) \in Seq(S)
  BY <1>1, <1>2, ShownCons
<1> QED
  BY <1>1, <1>3, Zenon DEF Saying

\* An atom in front is shown as itself, and refers to nobody.
LEMMA AtomSays ==
  ASSUME NEW S, Shows(S), NEW known \in SUBSET Users, NEW a \in S, a # "<", NEW r \in Seq(S)
  PROVE  /\ Saying(known, <<a>> \o r) = <<a>> \o Saying(known, r)
         /\ Naming(<<a>> \o r) = Naming(r)
<1>1. PICK x : x = Piece(FALSE, <<a>>)
  OBVIOUS
<1>2. x.ref = FALSE /\ x.text = <<a>> /\ x \in PieceOf(S)
  BY <1>1, OneAtom DEF Piece, PieceOf
<1>3. Pieces(<<a>> \o r) = <<x>> \o Pieces(r)
  BY <1>1, PiecesOfAtom, Zenon
<1>4. PICK p \in Seq(PieceOf(S)) : p = Pieces(r)
  BY SayingType
<1>5. InFront(known, x, p)
  BY <1>2, ShownCons
<1>6. ShownOf(known, x) = <<a>>
  BY <1>2 DEF ShownOf
<1>7. \A u : x # UserPiece(u)
  BY <1>2 DEF UserPiece, Piece
<1>8. Refs(<<x>> \o p) = Refs(p)
  <2>1. {u \in Users : x = UserPiece(u)} = {}
    BY <1>7
  <2> QED
    BY <1>5, <2>1 DEF InFront
<1> QED
  BY <1>3, <1>4, <1>5, <1>6, <1>8, Zenon DEF Saying, Naming, InFront

\* What a reference to u in front of r says.
ReferredTo(known, u, r) ==
  /\ Saying(known, <<"<", "@", u, ">">> \o r) = (<<"@">> \o Nick[u]) \o Saying(known, r)
  /\ Naming(<<"<", "@", u, ">">> \o r) = {u} \cup Naming(r)

\* A user that is resolved is shown as an "@" and his nick.
LEMMA ReferenceSays ==
  ASSUME NEW S, Shows(S), NEW known \in SUBSET Users, NEW u \in known, NEW r \in Seq(S)
  PROVE  ReferredTo(known, u, r)
<1>1. PICK at \in S, b \in S : at = "@" /\ b = u
  BY AlphabetHas DEF Shows
<1>2. PICK ref \in Seq(S) : ref = <<at, b>>
  BY <1>1, TwoAtoms
<1>3. PICK x : x = UserPiece(u)
  OBVIOUS
<1>4. x.ref = TRUE /\ x.text = ref /\ x \in PieceOf(S)
  BY <1>1, <1>2, <1>3 DEF UserPiece, Piece, PieceOf
<1>5. PICK t \in Seq(S) : t = <<"<", "@", u, ">">> \o r /\ Pieces(t) = <<x>> \o Pieces(r)
  <2>1. <<"<", "@", u, ">">> \in Seq(S)
    BY AlphabetHas, FiveAtoms DEF Shows
  <2>2. <<"<", "@", u, ">">> \o r \in Seq(S)
    BY <2>1, ConcatProperties
  <2>3. Pieces(<<"<", "@", u, ">">> \o r) = <<x>> \o Pieces(r)
    BY <1>3, PiecesOfReference, Zenon DEF UserPiece, Shows
  <2> QED
    BY <2>2, <2>3
<1>6. PICK p \in Seq(PieceOf(S)) : p = Pieces(r)
  BY SayingType
<1>7. InFront(known, x, p)
  BY <1>4, ShownCons
<1>8. ShownOf(known, x) = <<"@">> \o Nick[u]
  <2>1. Len(ref) = 2 /\ ref[1] = at /\ ref[2] = b /\ ref # <<>>
    BY <1>2
  <2>2. Head(ref) = at /\ Tail(ref) = <<b>>
    BY <1>2
  <2>3. \E v \in known : Tail(ref) = <<v>>
    BY <1>1, <2>2
  <2>4. ParseRef(ref, known) = <<"@">> \o Nick[ref[2]]
    BY <1>1, <2>1, <2>2, <2>3 DEF ParseRef
  <2> QED
    BY <1>1, <1>4, <2>1, <2>4, Zenon DEF ShownOf
<1>9. {v \in Users : x = UserPiece(v)} = {u}
  <2>1. \A v : x = UserPiece(v) <=> v = u
    <3>1. \A v : UserPiece(v).text = <<"@", v>>
      BY DEF UserPiece, Piece
    <3>2. \A v : <<"@", v>> = <<"@", u>> => v = u
      OBVIOUS
    <3> QED
      BY <1>3, <3>1, <3>2, Zenon
  <2> QED
    BY <2>1
<1> QED
  BY <1>5, <1>6, <1>7, <1>8, <1>9, Zenon DEF Saying, Naming, InFront, ReferredTo

\* Atoms that do not start a reference.
Plain(S) == S \ {"<"}

\* A text with no "<" in front is shown as itself, and refers to nobody.
LEMMA PlainSays ==
  ASSUME NEW S, Shows(S), NEW known \in SUBSET Users
  PROVE  \A w \in Seq(Plain(S)) : \A r \in Seq(S) :
           /\ Saying(known, w \o r) = w \o Saying(known, r)
           /\ Naming(w \o r) = Naming(r)
<1> DEFINE Q == Plain(S)
           T == {w \in Seq(Q) : \A r \in Seq(S) :
                   /\ Saying(known, w \o r) = w \o Saying(known, r)
                   /\ Naming(w \o r) = Naming(r)}
<1>1. <<>> \in T
  <2>1. ASSUME NEW r \in Seq(S)
        PROVE  <<>> \o r = r /\ <<>> \o Saying(known, r) = Saying(known, r)
    BY SayingType, ConcatEmptySeq
  <2> QED
    BY <2>1, EmptySeq
<1>2. ASSUME NEW w \in Seq(Q), NEW a \in Q, w \in T
      PROVE  Append(w, a) \in T
  <2>1. Append(w, a) \in Seq(Q)
    BY AppendProperties
  <2>2. a \in S /\ a # "<" /\ w \in Seq(S) /\ <<a>> \in Seq(S)
    <3>1. Q \subseteq S
      BY DEF Plain
    <3>2. a \in S /\ a # "<"
      BY DEF Plain
    <3> QED
      BY <3>1, <3>2, SeqMonotonic, OneAtom
  <2>3. ASSUME NEW r \in Seq(S)
        PROVE  /\ Saying(known, Append(w, a) \o r) = Append(w, a) \o Saying(known, r)
               /\ Naming(Append(w, a) \o r) = Naming(r)
    <3>1. PICK s \in Seq(S) : s = Saying(known, r)
      BY SayingType
    <3>2. PICK q \in Seq(S) : q = <<a>> \o r
      BY <2>2, ConcatProperties
    <3>3. Append(w, a) = w \o <<a>>
      BY AppendIsConcat
    <3>4. (w \o <<a>>) \o r = w \o (<<a>> \o r) /\ (w \o <<a>>) \o s = w \o (<<a>> \o s)
      <4>1. Associates(w, <<a>>, r) /\ Associates(w, <<a>>, s)
        BY <2>2, Associate
      <4> QED
        BY <4>1, Zenon DEF Associates
    <3>5. Saying(known, w \o q) = w \o Saying(known, q) /\ Naming(w \o q) = Naming(q)
      BY <1>2
    <3>6. Saying(known, <<a>> \o r) = <<a>> \o Saying(known, r)
          /\ Naming(<<a>> \o r) = Naming(r)
      BY <2>2, AtomSays, ZenonT(60)
    <3> QED
      BY <3>1, <3>2, <3>3, <3>4, <3>5, <3>6, Zenon
  <2> HIDE DEF Q
  <2> QED
    BY <2>1, <2>3
<1>3. Seq(Q) \subseteq T
  <2> HIDE DEF T, Q
  <2> QED
    BY <1>1, <1>2, AppendInduct
<1> QED
  BY <1>3

(***************************************************************************)
(* MessageText: what Slack is sent reads as what was written               *)
(***************************************************************************)

\* What UnparseMessageText looks for.
IsMention(m) ==
  Len(m) >= 2 /\ m[1] = "@" /\ m[2] \in Letters /\ \A k \in 2 .. Len(m) : m[k] \in Name

\* A mention is an "@", a letter, and letters and joiners.
LEMMA MentionIs ==
  ASSUME NEW S, NEW t \in Seq(S), NEW m \in Mentions(t)
  PROVE  m \in Seq(S) /\ IsMention(m)
<1>1. PICK i \in 1 .. Len(t) - 1 : /\ t[i] = "@" /\ t[i + 1] \in Letters
                                   /\ m = SubSeq(t, i, EndOfMention(t, i))
  BY DEF Mentions
<1>2. PICK n \in Nat : n = Len(t)
  BY LenProperties
<1>3. PICK j \in i + 1 .. n : j = EndOfMention(t, i) /\ \A k \in i + 1 .. j : t[k] \in Name
  BY <1>1, <1>2, EndOfMentionIs
<1>4. PICK l \in Nat : i + l = j + 1 /\ l >= 2
  <2>1. j + 1 - i \in Nat /\ i + (j + 1 - i) = j + 1 /\ j + 1 - i >= 2
    BY <1>1, <1>2, <1>3, SMTT(40)
  <2> QED
    BY <2>1
<1>5. m \in Seq(S) /\ IsPart(m, t, i, l)
  <2>1. i \in Nat /\ j \in Nat /\ i # 0 /\ j <= Len(t)
    BY <1>1, <1>2, <1>3
  <2> QED
    BY <1>1, <1>3, <1>4, <2>1, PartIs
<1>6. Len(m) = l /\ \A k \in 1 .. l : m[k] = t[i + k - 1]
  BY <1>5 DEF IsPart
<1>7. m[1] = "@" /\ m[2] \in Letters
  <2>1. m[1] = t[i + 1 - 1] /\ m[2] = t[i + 2 - 1] /\ i + 1 - 1 = i /\ i + 2 - 1 = i + 1
    <3>1. i + 1 - 1 = i /\ i + 2 - 1 = i + 1
      BY <1>1, <1>2
    <3>2. 1 \in 1 .. l /\ 2 \in 1 .. l
      BY <1>4
    <3> QED
      BY <1>6, <3>1, <3>2, Zenon
  <2> QED
    BY <1>1, <2>1
<1>8. ASSUME NEW k \in 2 .. l
      PROVE  m[k] \in Name
  <2>1. i + k - 1 \in i + 1 .. j
    BY <1>1, <1>2, <1>3, <1>4
  <2> QED
    BY <1>3, <1>6, <2>1, SMTT(40)
<1> QED
  BY <1>4, <1>5, <1>6, <1>7, <1>8 DEF IsMention

\* What UnparseMessageText gives to Replace: a text with no "<", an order of what
\* it mentions, and owners that are known.
Mentioning(S, known, c) ==
  /\ Shows(S) /\ c.text \in Seq(Plain(S)) /\ c.text \in Seq(S) /\ OwnersAre(known, c.owner)
  /\ c.order \in SetToSeqs(Mentions(c.text)) /\ Replacing(S, c)

\* What is replaced at position i.
WordAt(c, i) == c.order[FirstAt(c, i)]

\* The word that is replaced at i has l atoms.
IsWordAt(c, i, n, l) ==
  LET w == WordAt(c, i)
  IN /\ Len(w) = l /\ l >= 2 /\ i + l <= n + 1
     /\ w = SubSeq(c.text, i, i + l - 1)
     /\ c.text[i] = "@" /\ \A k \in i + 1 .. i + l - 1 : c.text[k] \in Name

\* The mention that strings.Replacer finds at a position is one of those the
\* text has, and is there.
LEMMA WordAtIs ==
  ASSUME NEW S, NEW known, NEW c, Mentioning(S, known, c), NEW n \in Nat,
         n = Len(c.text), NEW i \in 1 .. n, FirstAt(c, i) # 0
  PROVE  /\ WordAt(c, i) \in Mentions(c.text) /\ WordAt(c, i) \in Seq(S)
         /\ IsMention(WordAt(c, i)) /\ At(c.text, i, WordAt(c, i))
         /\ ~Stale(Tail(WordAt(c, i)), c.owner)
         /\ \E l \in Nat : IsWordAt(c, i, n, l)
<1>1. PICK M : M = Mentions(c.text)
  OBVIOUS
<1>2. c.order \in Seq(M)
  BY <1>1, OrdersType DEF Mentioning
<1>3. /\ FirstAt(c, i) \in 0 .. Len(c.order)
      /\ FirstAt(c, i) # 0 => At(c.text, i, c.order[FirstAt(c, i)])
  BY <1>2, FirstAtIs, Zenon
<1>4. PICK j \in 1 .. Len(c.order) : j = FirstAt(c, i) /\ At(c.text, i, c.order[j])
  <2>1. Len(c.order) \in Nat
    BY <1>2, LenProperties
  <2> QED
    BY <1>3, <2>1
<1>5. PICK w \in M : w = WordAt(c, i) /\ w = c.order[j]
  BY <1>2, <1>4, ElementOfSeq DEF WordAt
<1>6. w \in Seq(S) /\ IsMention(w)
  BY <1>1, MentionIs DEF Mentioning
<1>7. PICK l \in Nat : l = Len(w) /\ l >= 2
  BY <1>6, LenProperties DEF IsMention
<1>8. i + l - 1 <= n /\ SubSeq(c.text, i, i + l - 1) = w
  BY <1>4, <1>5, <1>7 DEF At
<1>9. PICK b \in Nat : b = i + l - 1 /\ i + l = b + 1 /\ b <= n
  <2>1. i + l - 1 \in Nat /\ i + l = (i + l - 1) + 1
    BY <1>7
  <2> QED
    BY <1>8, <2>1
<1>10. IsPart(w, c.text, i, l)
  <2>1. i \in Nat /\ i # 0 /\ b <= Len(c.text)
    BY <1>9
  <2>2. IsPart(SubSeq(c.text, i, b), c.text, i, l)
    BY <1>9, <2>1, PartIs DEF Mentioning
  <2> QED
    BY <1>8, <1>9, <2>2, Zenon
<1>11. c.text[i] = "@"
  <2>1. w[1] = c.text[i + 1 - 1] /\ i + 1 - 1 = i
    BY <1>7, <1>10 DEF IsPart
  <2> QED
    BY <1>6, <2>1 DEF IsMention
<1>12. ASSUME NEW k \in i + 1 .. i + l - 1
       PROVE  c.text[k] \in Name
  <2>1. PICK h \in 2 .. l : k = i + h - 1
    <3>1. k - i + 1 \in 2 .. l /\ k = i + (k - i + 1) - 1
      BY <1>7
    <3> QED
      BY <3>1
  <2>2. w[h] = c.text[k]
    BY <1>7, <1>10, <2>1 DEF IsPart
  <2> QED
    BY <1>6, <1>7, <2>2 DEF IsMention
<1>13. IsWordAt(c, i, n, l)
  <2>1. i + l <= n + 1
    BY <1>9
  <2> QED
    BY <1>5, <1>7, <1>8, <1>11, <1>12, <2>1 DEF IsWordAt
<1>14. At(c.text, i, w)
  BY <1>4, <1>5
<1>15. ~Stale(Tail(w), c.owner)
  <2>1. PICK F : F = FreshIn(S, c.owner)
    OBVIOUS
  <2>2. w \in F
    BY <1>4, <1>5, <2>1, ElementOfSeq DEF Mentioning, Replacing
  <2> QED
    BY <2>1, <2>2 DEF FreshIn
<1> QED
  BY <1>1, <1>5, <1>6, <1>13, <1>14, <1>15, Zenon

\* Whom the mention w refers to.
OwnerOf(owner, w) == IF Tail(w) \in DOMAIN owner THEN {owner[Tail(w)]} ELSE {}

\* The users that what is replaced at i refers to.
Hit(c, i) == IF FirstAt(c, i) # 0 THEN OwnerOf(c.owner, WordAt(c, i)) ELSE {}

\* A text is its head and its tail.
LEMMA HeadAndTail ==
  ASSUME NEW S, NEW s \in Seq(S), Len(s) # 0
  PROVE  s = <<s[1]>> \o Tail(s) /\ Tail(s) \in Seq(S) /\ s[1] \in S
<1>1. PICK n \in Nat, m \in Nat, one \in Nat : n = Len(s) /\ n = m + 1 /\ one = 1
  <2>1. Len(s) \in Nat /\ Len(s) - 1 \in Nat /\ Len(s) = (Len(s) - 1) + 1
    BY LenProperties
  <2> QED
    BY <2>1
<1>2. s # <<>>
  OBVIOUS
<1>3. PICK t \in Seq(S) : t = Tail(s) /\ Len(t) = m /\ \A i \in 1 .. m : t[i] = s[i + 1]
  <2>1. /\ Tail(s) \in Seq(S) /\ Len(Tail(s)) = Len(s) - 1
        /\ \A i \in 1 .. Len(Tail(s)) : Tail(s)[i] = s[i + 1]
    BY <1>2, HeadTailProperties
  <2>2. Len(s) - 1 = m
    BY <1>1
  <2> QED
    BY <2>1, <2>2
<1>4. s[1] \in S
  <2>1. 1 \in 1 .. Len(s)
    BY <1>1
  <2> QED
    BY <2>1, ElementOfSeq
<1>5. PICK h \in Seq(S) : h = <<s[1]>> /\ Len(h) = one /\ h[1] = s[1]
  <2>1. <<s[1]>> \in Seq(S) /\ Len(<<s[1]>>) = 1 /\ <<s[1]>>[1] = s[1]
    BY <1>4
  <2> QED
    BY <1>1, <2>1
<1>6. PICK z \in Seq(S) : z = h \o t /\ InARow(z, h, t, one, m)
  BY <1>3, <1>5, ConcatIs, Zenon
<1>7. z = s
  <2>1. Len(z) = n
    BY <1>1, <1>6 DEF InARow
  <2>2. ASSUME NEW i \in 1 .. n
        PROVE  z[i] = s[i]
    <3>1. CASE i = 1
      BY <1>1, <1>5, <1>6, <3>1 DEF InARow
    <3>2. CASE i # 1
      <4>1. PICK j \in 1 .. m : i = one + j /\ i = j + 1
        <5>1. i - 1 \in 1 .. m /\ i = one + (i - 1) /\ i = (i - 1) + 1
          BY <1>1, <3>2
        <5> QED
          BY <5>1
      <4> QED
        BY <1>3, <1>6, <4>1 DEF InARow
    <3> QED
      BY <3>1, <3>2
  <2> QED
    BY <1>1, <2>1, <2>2, SeqEqual
<1> QED
  BY <1>3, <1>4, <1>5, <1>6, <1>7, ZenonT(60)

\* What is said of what the mention w becomes, in front of r.
SaysMention(known, owner, w, r) ==
  /\ Saying(known, Reference(w, owner) \o r) = w \o Saying(known, r)
  /\ Naming(Reference(w, owner) \o r) = OwnerOf(owner, w) \cup Naming(r)

\* What a mention becomes is shown as the mention, and refers to whom has its nick.
LEMMA MentionSays ==
  ASSUME NEW S, Shows(S), NEW known \in SUBSET Users, NEW owner, OwnersAre(known, owner),
         NEW w \in Seq(Plain(S)), w \in Seq(S), IsMention(w), ~Stale(Tail(w), owner),
         NEW r \in Seq(S)
  PROVE  SaysMention(known, owner, w, r)
<1>1. CASE Tail(w) \in DOMAIN owner
  <2>1. PICK u \in known : u = owner[Tail(w)] /\ Nick[u] = Tail(w)
    BY <1>1 DEF OwnersAre, Stale
  <2>2. Reference(w, owner) = <<"<", "@", u, ">">>
    BY <1>1, <2>1 DEF Reference
  <2>3. w = <<"@">> \o Nick[u]
    <3>1. Len(w) # 0 /\ w[1] = "@"
      BY LenProperties DEF IsMention
    <3>2. w = <<w[1]>> \o Tail(w)
      BY <3>1, HeadAndTail
    <3> QED
      BY <2>1, <3>1, <3>2, Zenon
  <2>4. OwnerOf(owner, w) = {u}
    BY <1>1, <2>1, Zenon DEF OwnerOf
  <2>5. /\ Saying(known, <<"<", "@", u, ">">> \o r) = (<<"@">> \o Nick[u]) \o Saying(known, r)
        /\ Naming(<<"<", "@", u, ">">> \o r) = {u} \cup Naming(r)
    <3>1. ReferredTo(known, u, r)
      BY ReferenceSays
    <3> QED
      BY <3>1, Zenon DEF ReferredTo
  <2> QED
    BY <2>2, <2>3, <2>4, <2>5, Zenon DEF SaysMention
<1>2. CASE Tail(w) \notin DOMAIN owner
  <2>1. Reference(w, owner) = w
    BY <1>2 DEF Reference
  <2>2. OwnerOf(owner, w) \cup Naming(r) = Naming(r)
    BY <1>2 DEF OwnerOf
  <2>3. Saying(known, w \o r) = w \o Saying(known, r) /\ Naming(w \o r) = Naming(r)
    BY PlainSays, ZenonT(60)
  <2> QED
    BY <2>1, <2>2, <2>3, Zenon DEF SaysMention
<1> QED
  BY <1>1, <1>2

\* Nothing is shown as nothing, and refers to nobody.
LEMMA NothingSays ==
  ASSUME NEW known
  PROVE  Saying(known, <<>>) = <<>> /\ Naming(<<>>) = {}
<1>1. PiecesFrom(<<>>, 1) = <<>>
  <2>1. PICK e \in Seq({}) : e = <<>> /\ Len(e) = 0
    BY EmptySeq
  <2>2. 1 \in 1 .. Len(e) + 2 /\ 1 > Len(e)
    BY <2>1
  <2>3. PiecesFrom(e, 1) = <<>>
    BY <2>2, PiecesStep
  <2> QED
    BY <2>1, <2>3, Zenon
<1>2. Pieces(<<>>) = <<>>
  BY <1>1, PiecesAreFromFirst, Zenon
<1>3. Shown(known, <<>>) = FlattenSeq(<<>>)
  BY DEF Shown
<1>4. Refs(<<>>) = {}
  BY DEF Refs, Contains
<1> QED
  BY <1>2, <1>3, <1>4, FlattenEmpty, Zenon DEF Saying, Naming

\* An "@" is of no nick.
LEMMA AtIsNoName == \A a \in Name : a # "@"
  BY AtomAssumption DEF Name, Marks

\* What is made of the text from position i on is shown as it was, and refers to
\* whom is hit there.
SaidFrom(known, c, i, n) ==
  /\ Saying(known, ReplacedFrom(c, i)) = SubSeq(c.text, i, n)
  /\ Naming(ReplacedFrom(c, i)) = UNION {Hit(c, k) : k \in i .. n}

\* What Slack is sent is shown as the text it was made of, and refers to the users
\* that are mentioned where a mention is replaced.
LEMMA ReplacedSays ==
  ASSUME NEW S, NEW known \in SUBSET Users, NEW c, Mentioning(S, known, c), NEW n \in Nat,
         n = Len(c.text)
  PROVE  \A i \in 1 .. n + 1 : SaidFrom(known, c, i, n)
<1>1. PICK m \in Nat : m = n + 1
  OBVIOUS
<1> DEFINE Good(i) == /\ Saying(known, ReplacedFrom(c, i)) = SubSeq(c.text, i, n)
                      /\ Naming(ReplacedFrom(c, i)) = UNION {Hit(c, k) : k \in i .. n}
           T == {i \in 1 .. m : Good(i)}
<1>2. \A i \in 1 .. m : ReplacedFrom(c, i) \in Seq(S)
  BY <1>1, ReplaceType DEF Mentioning, Shows
<1>3. ASSUME NEW i \in 1 .. m, \A j \in i + 1 .. m : j \in T
      PROVE  i \in T
  <2> SUFFICES Good(i)
    OBVIOUS
  <2>1. \A j \in i + 1 .. m : Good(j)
    BY <1>3
  <2>2. CASE i = m
    <3>1. ReplacedFrom(c, i) = <<>>
      <4>1. i \in 1 .. Len(c.text) + 1 /\ i > Len(c.text) /\ Replacing(S, c)
        BY <1>1, <2>2 DEF Mentioning
      <4> QED
        BY <4>1, ReplaceStep
    <3>2. SubSeq(c.text, i, n) = <<>>
      BY <1>1, <2>2, SubSeqEmpty
    <3>3. {Hit(c, k) : k \in i .. n} = {}
      BY <1>1, <2>2
    <3> QED
      BY <3>1, <3>2, <3>3, NothingSays, Zenon DEF Mentioning
  <2>3. CASE i # m /\ FirstAt(c, i) = 0
    <3>1. PICK j \in i + 1 .. m : j = i + 1 /\ i \in 1 .. n
      BY <1>1, <2>3
    <3>2. Good(j)
      BY <2>1
    <3>3. ReplacedFrom(c, i) = <<c.text[i]>> \o ReplacedFrom(c, j)
      BY <1>1, <2>3, <3>1, ReplaceStep, SMTT(40) DEF Mentioning
    <3>4. c.text[i] \in S /\ c.text[i] # "<"
      <4>1. c.text[i] \in Plain(S)
        BY <3>1, ElementOfSeq DEF Mentioning
      <4> QED
        BY <4>1 DEF Plain
    <3>5. PICK r \in Seq(S) : r = ReplacedFrom(c, j)
      BY <1>2, <3>1
    <3>6. /\ Saying(known, <<c.text[i]>> \o r) = <<c.text[i]>> \o Saying(known, r)
          /\ Naming(<<c.text[i]>> \o r) = Naming(r)
      BY <3>4, AtomSays, ZenonT(60) DEF Mentioning
    <3>7. SubSeq(c.text, i, n) = <<c.text[i]>> \o SubSeq(c.text, j, n)
      <4>1. i \in 1 .. Len(c.text) /\ n \in i .. Len(c.text) /\ c.text \in Seq(S)
        BY <3>1 DEF Mentioning
      <4>2. SubSeq(c.text, i, n) = <<c.text[i]>> \o SubSeq(c.text, i + 1, n)
        BY <4>1, SubSeqRecursiveFirst, Zenon
      <4> QED
        BY <3>1, <4>2
    <3>8. UNION {Hit(c, k) : k \in i .. n} = UNION {Hit(c, k) : k \in j .. n}
      <4>1. Hit(c, i) = {}
        BY <2>3 DEF Hit
      <4>2. i .. n = {i} \cup (j .. n)
        BY <3>1
      <4> QED
        BY <4>1, <4>2
    <3> QED
      BY <3>2, <3>3, <3>5, <3>6, <3>7, <3>8, Zenon
  <2>4. CASE i # m /\ FirstAt(c, i) # 0
    <3>1. i \in 1 .. n
      BY <1>1, <2>4
    <3>2. PICK w : w = WordAt(c, i)
      OBVIOUS
    <3>3. /\ w \in Mentions(c.text) /\ w \in Seq(S) /\ IsMention(w)
          /\ ~Stale(Tail(w), c.owner)
          /\ \E l \in Nat : IsWordAt(c, i, n, l)
      BY <2>4, <3>1, <3>2, WordAtIs
    <3>4. PICK l \in Nat : IsWordAt(c, i, n, l)
      BY <3>3
    <3>5. PICK j \in i + 1 .. m : j = i + l
      BY <1>1, <3>1, <3>4 DEF IsWordAt
    <3>6. Good(j)
      BY <2>1
    <3>7. PICK r \in Seq(S) : r = ReplacedFrom(c, j)
      BY <1>2, <3>5
    <3>8. ReplacedFrom(c, i) = Reference(w, c.owner) \o ReplacedFrom(c, j)
      <4>1. i \in 1 .. Len(c.text) + 1 /\ i <= Len(c.text)
        BY <3>1
      <4>2. ReplacedFrom(c, i) = Reference(WordAt(c, i), c.owner)
                                   \o ReplacedFrom(c, i + Len(WordAt(c, i)))
        BY <2>4, <4>1, ReplaceStep DEF Mentioning, WordAt
      <4> QED
        BY <3>2, <3>4, <3>5, <4>2, Zenon DEF IsWordAt
    <3>9. w \in Seq(Plain(S))
      <4>1. w \in Mentions(c.text) /\ c.text \in Seq(Plain(S))
        BY <3>3 DEF Mentioning
      <4> QED
        BY <4>1, MentionIs
    <3>10. /\ Saying(known, Reference(w, c.owner) \o r) = w \o Saying(known, r)
           /\ Naming(Reference(w, c.owner) \o r)
                = OwnerOf(c.owner, w) \cup Naming(r)
      <4>1. SaysMention(known, c.owner, w, r)
        BY <3>3, <3>9, MentionSays DEF Mentioning
      <4> QED
        BY <4>1, Zenon DEF SaysMention
    <3>11. SubSeq(c.text, i, n) = w \o SubSeq(c.text, j, n)
      <4>1. PICK k \in i - 1 .. n : k = j - 1
        BY <1>1, <3>1, <3>5
      <4>2. k + 1 = j /\ i + l - 1 = k
        BY <3>1, <3>5, <4>1
      <4>3. w = SubSeq(c.text, i, i + l - 1)
        BY <3>2, <3>4, Zenon DEF IsWordAt
      <4>4. w = SubSeq(c.text, i, k)
        BY <4>2, <4>3, Zenon
      <4>5. i \in 1 .. Len(c.text) + 1 /\ k \in i - 1 .. Len(c.text) /\ n \in k .. Len(c.text)
        BY <3>1, <4>1
      <4>6. SubSeq(c.text, i, k) \o SubSeq(c.text, k + 1, n) = SubSeq(c.text, i, n)
        BY <4>5, ConcatAdjacentSubSeq DEF Mentioning
      <4> QED
        BY <4>2, <4>4, <4>6, Zenon
    <3>12. UNION {Hit(c, k) : k \in i .. n}
             = OwnerOf(c.owner, w) \cup UNION {Hit(c, k) : k \in j .. n}
      <4>1. Hit(c, i) = OwnerOf(c.owner, w)
        BY <2>4, <3>2, Zenon DEF Hit
      <4>2. ASSUME NEW k \in i + 1 .. j - 1
            PROVE  Hit(c, k) = {}
        <5>1. k \in 1 .. n /\ k \in i + 1 .. i + l - 1
          BY <1>1, <3>1, <3>5
        <5>2. c.text[k] \in Name
          BY <3>4, <5>1 DEF IsWordAt
        <5>3. c.text[k] # "@"
          BY <5>2, AtIsNoName
        <5>4. FirstAt(c, k) # 0 => c.text[k] = "@"
          BY <5>1, WordAtIs DEF IsWordAt
        <5> QED
          BY <5>3, <5>4 DEF Hit
      <4>3. i .. n = {i} \cup (i + 1 .. j - 1) \cup (j .. n)
        BY <1>1, <3>1, <3>5
      <4> QED
        BY <4>1, <4>2, <4>3, SMTT(40)
    <3> QED
      BY <3>6, <3>7, <3>8, <3>10, <3>11, <3>12, Zenon
  <2> QED
    BY <2>2, <2>3, <2>4
<1>4. 1 .. m \subseteq T
  <2> HIDE DEF T
  <2> QED
    BY <1>3, DownInduct
<1> QED
  BY <1>1, <1>4 DEF SaidFrom

\* What is escaped has no "<".
LEMMA EncodePlain ==
  ASSUME NEW S, Alphabet(S), NEW t \in Seq(S)
  PROVE  Encode(t) \in Seq(Plain(S))
<1>1. "&" \in Plain(S) /\ \A b \in Tails : b \in Plain(S)
  <2>1. "&" # "<" /\ "amp;" # "<" /\ "lt;" # "<" /\ "gt;" # "<"
    OBVIOUS
  <2> QED
    BY <2>1, AlphabetHas DEF Tails, Entity, Plain
<1>2. ASSUME NEW a \in S
      PROVE  Escape(a) \in Seq(Plain(S))
  <2>1. CASE a = "<"
    <3>1. Escape(a) = <<"&", Entity.lt>> /\ Entity.lt \in Tails
      BY <2>1 DEF Escape, Tails
    <3> QED
      BY <1>1, <3>1, TwoAtoms
  <2>2. CASE a # "<"
    <3>1. a \in Plain(S)
      BY <2>2 DEF Plain
    <3>2. Escape(a) = <<a>> \/ \E b \in Tails : Escape(a) = <<"&", b>>
      BY EscapeIs, Zenon DEF Amp
    <3>3. CASE Escape(a) = <<a>>
      BY <3>1, <3>3, OneAtom
    <3>4. CASE \E b \in Tails : Escape(a) = <<"&", b>>
      BY <1>1, <3>4, TwoAtoms
    <3> QED
      BY <3>2, <3>3, <3>4
  <2> QED
    BY <2>1, <2>2
<1>3. EscapeRows(t) \in Seq(Seq(Plain(S)))
  <2>1. PICK W : W = Seq(Plain(S))
    OBVIOUS
  <2>2. DOMAIN t = 1 .. Len(t) /\ Len(t) \in Nat /\ \A i \in 1 .. Len(t) : t[i] \in S
    BY LenProperties, ElementOfSeq
  <2>3. PICK f : f = [i \in 1 .. Len(t) |-> Escape(t[i])]
    OBVIOUS
  <2>4. \A i \in 1 .. Len(t) : Escape(t[i]) \in W
    BY <1>2, <2>1, <2>2
  <2>5. f \in Seq(W)
    BY <2>2, <2>3, <2>4
  <2>6. f = EscapeRows(t)
    BY <2>2, <2>3, Zenon DEF EscapeRows
  <2> QED
    BY <2>1, <2>5, <2>6, Zenon
<1> QED
  BY <1>3, EncodeIs, FlattenType

\* What Slack may be sent for t names the users whose nicks are replaced, where
\* c says how.
SentFor(t, known, owner, x, c) ==
  /\ Mentioning(Speech, known, c) /\ c.text = Encode(t) /\ c.owner = owner
  /\ x = ReplacedFrom(c, 1)

\* The atoms of a line are those of what is shown.
LEMMA SpeechShows == Shows(Speech)
<1>1. Panic[1] # "\n"
  BY DEF Panic
<1> QED
  BY <1>1, SpeechIs DEF Shows, Speech

\* Whatever Slack may be sent for a text is what strings.Replacer makes of the
\* text encoded, with its mentions in some order.
LEMMA UnparseIs ==
  ASSUME NEW t \in Seq(Speech), NEW known \in SUBSET Users, NEW owner,
         OwnersAre(known, owner), ~MentionIsStale(t, owner),
         NEW x \in UnparseMessageText(t, owner)
  PROVE  \E c : SentFor(t, known, owner, x, c)
<1>1. Alphabet(Speech)
  BY SpeechIs
<1>2. OwnersAre(Users, owner)
  BY DEF OwnersAre
<1>3. PICK c : /\ Replacing(Speech, c) /\ c.text = Encode(t) /\ c.owner = owner
               /\ c.order \in SetToSeqs(Mentions(Encode(t)))
               /\ x = ReplacedFrom(c, 1)
  BY <1>1, <1>2, UnparseArguments
<1>4. Encode(t) \in Seq(Plain(Speech)) /\ Encode(t) \in Seq(Speech)
  BY <1>1, EncodePlain, EncodeType
<1>5. Mentioning(Speech, known, c)
  BY <1>3, <1>4, SpeechShows, Zenon DEF Mentioning
<1> QED
  BY <1>3, <1>5, Zenon DEF SentFor

\* A text comes back from Slack as it was, whatever users are mentioned in it, and
\* resolves those whose nicks were replaced.
LEMMA SentComesBack ==
  ASSUME NEW t \in Seq(Speech), NEW known \in SUBSET Users, NEW owner, NEW x, NEW c,
         SentFor(t, known, owner, x, c)
  PROVE  /\ ParseMessageText(x, known) = t
         /\ Resolved(x) = UNION {Hit(c, k) : k \in 1 .. Len(Encode(t))}
<1>1. PICK n \in Nat : n = Len(c.text)
  BY LenProperties DEF SentFor, Mentioning
<1>2. PICK one \in 1 .. n + 1 : one = 1
  BY <1>1
<1>3. Mentioning(Speech, known, c)
  BY DEF SentFor
<1>4. /\ Saying(known, ReplacedFrom(c, one)) = SubSeq(c.text, one, n)
      /\ Naming(ReplacedFrom(c, one)) = UNION {Hit(c, k) : k \in one .. n}
  <2>1. SaidFrom(known, c, one, n)
    BY <1>1, <1>3, ReplacedSays
  <2> QED
    BY <2>1, Zenon DEF SaidFrom
<1>5. SubSeq(c.text, one, n) = c.text
  BY <1>1, <1>2, <1>3, SubSeqFull DEF Mentioning
<1>6. Saying(known, x) = Encode(t)
  BY <1>2, <1>4, <1>5, Zenon DEF SentFor
<1>7. Decode(Encode(t)) = t
  BY SpeechIs, DecodeEncode
<1>8. ParseMessageText(x, known) = Decode(Saying(known, x))
  BY ParseIs, Zenon DEF Saying
<1>9. Resolved(x) = Naming(x)
  BY ResolvedIs, Zenon DEF Naming
<1> QED
  BY <1>1, <1>2, <1>4, <1>6, <1>7, <1>8, <1>9, Zenon DEF SentFor

\* ParseMessageText undoes UnparseMessageText: whatever a line says, whatever order
\* its mentions are replaced in and whichever users are found for them, Slack's form
\* of it, parsed by who knows those, is the line.
THEOREM RoundTrip ==
  ASSUME NEW t \in Seq(Speech), NEW known \in SUBSET Users, NEW owner,
         OwnersAre(known, owner), ~MentionIsStale(t, owner),
         NEW x \in UnparseMessageText(t, owner)
  PROVE  ParseMessageText(x, known) = t
<1>1. PICK c : SentFor(t, known, owner, x, c)
  BY UnparseIs
<1> QED
  BY <1>1, SentComesBack

(***************************************************************************)
(* What Slack is sent comes back as what was relayed                       *)
(***************************************************************************)

\* A text of one line is one message.
LEMMA OneMessage ==
  ASSUME NEW l \in Seq(Speech), l # <<>>, NEW sender, NEW target
  PROVE  MessageTextToEvents(sender, target, l) = <<Privmsg(sender, target, l)>>
<1>1. PICK ls : ls = Words!Fold("\n", << <<>> >>, l)
  OBVIOUS
<1>2. ls = <<l>>
  <2>1. l \in Seq(STRING \ {"\n"})
    BY DEF Speech
  <2>2. SplitAt("\n", l) = <<l>>
    BY <2>1, SplitOfWord
  <2> QED
    BY <1>1, <2>2 DEF SplitAt
<1>3. PICK m : m = Privmsg(sender, target, l)
  OBVIOUS
<1> DEFINE g == [i \in DOMAIN ls |-> IF ls[i] = <<>> THEN <<>>
                                    ELSE <<Privmsg(sender, target, ls[i])>>]
<1>4. MessageTextToEvents(sender, target, l) = FlattenSeq(g)
  <2>1. FoldLeft(LAMBDA y, x : AddAtom("\n", y, x), << <<>> >>, l) = ls
    BY <1>1 DEF FoldLeft, MapThenFoldSet, Max,
         Words!Fold, Words!Steps, Words!Step, Words!Top
  <2> QED
    BY <2>1 DEF MessageTextToEvents, Spread, AddAtom
<1>5. g = << <<m>> >>
  <2>1. DOMAIN ls = {1} /\ ls[1] = l
    BY <1>2
  <2>2. DOMAIN g = {1} /\ g[1] = <<m>>
    BY <1>3, <2>1
  <2>3. g = [i \in {1} |-> g[i]]
    BY <2>2
  <2> QED
    BY <2>2, <2>3
<1>6. FlattenSeq(<< <<m>> >>) = <<m>>
  <2>1. <<m>> \in Seq({m})
    BY OneAtom
  <2> QED
    BY <2>1, FlattenOne
<1> QED
  BY <1>3, <1>4, <1>5, <1>6, Zenon

\* What Slack tells of what it was sent.
Echo(p) == [user |-> Me, conv |-> p.conv, sub |-> "", text |-> p.text,
            fallbacks |-> <<>>, files |-> <<>>, link |-> None]

\* What the clients are told of that in conversation c.
Told(c, l) ==
  IF IsDmChannel(c) THEN Privmsg(<<c>>, Nick[Me], Mark \o l) ELSE Privmsg(<<Me>>, <<c>>, l)

\* What the clients are told of the echo of a message: its text, parsed, from
\* the user in a channel, and from the other user with a mark in a DM.
LEMMA EchoIs ==
  ASSUME NEW p, NEW known, NEW l \in Seq(Speech), l = ParseMessageText(p.text, known), l # <<>>
  PROVE  EventMessages(Echo(p), known) = <<Told(p.conv, l)>>
<1>1. PICK e : e = Echo(p)
  OBVIOUS
<1>2. /\ e.user = Me /\ e.conv = p.conv /\ e.sub = "" /\ e.text = p.text
      /\ e.fallbacks = <<>> /\ e.files = <<>>
  BY <1>1 DEF Echo
<1>3. FullText(e, known) = l
  <2>1. FullText(e, known) = Attachments!Fold(known, l, <<>>)
    BY <1>2, FullTextIsFold, Zenon
  <2>2. Attachments!Fold(known, l, <<>>) = l
    BY Attachments!FoldEmpty
  <2> QED
    BY <2>1, <2>2, Zenon
<1>4. Swapped(e) <=> IsDmChannel(p.conv)
  BY <1>2, Zenon DEF Swapped
<1>5. Me \in Users
  BY FlowAssumption
<1> DEFINE sender == IF Swapped(e) THEN <<e.conv>>
                     ELSE IF e.user \in Users THEN <<e.user>> ELSE <<>>
           target == IF IsDmChannel(e.conv) THEN Nick[Me] ELSE <<e.conv>>
           file(f) == Privmsg(sender, target, <<"@">> \o Nick[sender[1]] \o <<" ", f>>)
           files == [i \in DOMAIN e.files |-> file(e.files[i])]
           full == FullText(e, known)
<1>6. sender = (IF IsDmChannel(p.conv) THEN <<p.conv>> ELSE <<Me>>) /\ sender # <<>>
  BY <1>2, <1>4, <1>5
<1>7. target = IF IsDmChannel(p.conv) THEN Nick[Me] ELSE <<p.conv>>
  BY <1>2
<1>8. files = <<>>
  <2>1. DOMAIN e.files = {}
    <3>1. DOMAIN <<>> = {}
      OBVIOUS
    <3> QED
      BY <1>2, <3>1, Zenon
  <2> HIDE DEF file
  <2>2. files = [i \in {} |-> file(e.files[i])]
    BY <2>1, Zenon
  <2> QED
    BY <2>2
<1> HIDE DEF sender, target, files, full
<1>9. EventMessages(e, known) =
        CASE e.sub \in {"", "pinned_item", "thread_broadcast"} /\ sender # <<>> ->
               MessageTextToEvents(sender, target, OwnMark(e) \o full) \o files
          [] e.sub = "bot_message" ->
               MessageTextToEvents(IF sender = <<>> THEN <<"SLACK">> ELSE sender, target, full)
          [] e.sub = "message_changed" /\ e.link # None /\ e.link \in known ->
               <<Privmsg(<<e.link>>, target, ParseMessageText(e.fallbacks[1], known))>>
          [] e.sub = "channel_topic" /\ sender # <<>> ->
               <<Message(sender, "TOPIC", <<target, e.text>>)>>
          [] OTHER -> <<>>
  BY DEF EventMessages, sender, target, files, full
<1>10. EventMessages(e, known) =
         MessageTextToEvents(sender, target, OwnMark(e) \o full) \o files
  BY <1>2, <1>6, <1>9
<1>11. Mark \in Seq(Speech) /\ Mark \o l \in Seq(Speech) /\ <<>> \o l = l
  BY SpeechIs, MarkType, ConcatProperties
<1>12. PICK t \in Seq(Speech) : t = OwnMark(e) \o full /\ t # <<>>
                                /\ t = IF IsDmChannel(p.conv) THEN Mark \o l ELSE l
  <2>1. Mark \o l # <<>>
    BY <1>11, ConcatProperties, LenProperties, EmptySeq
  <2> QED
    BY <1>3, <1>4, <1>11, <2>1 DEF OwnMark, full
<1>13. PICK m : m = Privmsg(sender, target, t)
  OBVIOUS
<1>14. MessageTextToEvents(sender, target, t) = <<m>>
  BY <1>12, <1>13, OneMessage
<1>15. <<m>> \o <<>> = <<m>>
  <2>1. <<m>> \in Seq({m})
    BY OneAtom
  <2> QED
    BY <2>1, ConcatProperties
<1>16. m = Told(p.conv, l)
  BY <1>6, <1>7, <1>12, <1>13, Zenon DEF Told
<1> QED
  BY <1>1, <1>8, <1>10, <1>12, <1>14, <1>15, <1>16, Zenon

\* The text that a message posted to conv is made of, and what the others are told
\* of it: the line m is to target, which is conv.
SentAs(m, pre, target, text, conv) ==
  /\ m = Privmsg(pre, target, text)
  /\ pre # <<>> => Contains(pre, "!")
  /\ text # <<>>
  /\ IF IsTargetChannel(target) THEN conv \in channelInfo /\ target = <<conv>>
     ELSE conv \in userInfo /\ GetUserFromNick(target) = <<conv>>

\* What was posted is what the line last read says, and what was relayed too.
Sent ==
  posted # None =>
    /\ incoming = None /\ line # None /\ Parsed(StringToMessage(line), "PRIVMSG")
    /\ LET m == ParseMessage(StringToMessage(line))
       IN \E pre \in Seq(Solid(Speech)), target \in Seq(Speech), text \in Seq(Speech) :
            /\ SentAs(m, pre, target, text, posted.conv)
            /\ relayed = PostProcessClientMessage(m)
            /\ ~MentionIsStale(text, Owner)
            /\ posted.text \in UnparseMessageText(text, Owner)

\* SendPrivmsg posts and relays what the line says, to the same conversation.
LEMMA SendPrivmsgSends ==
  ASSUME FlowTypes, SendPrivmsg
  PROVE  Sent'
<1>1. PICK conv \in Conversations :
        \E text \in UnparseMessageText(incoming.params[2], Owner) :
          posted' = [conv |-> conv, text |-> text]
  BY Zenon DEF SendPrivmsg
<1>2. /\ incoming # None /\ incoming' = None /\ line' = line /\ userInfo' = userInfo
      /\ nickToUserMap' = nickToUserMap
      /\ channelInfo' = channelInfo /\ relayed' = PostProcessClientMessage(incoming)
  BY Zenon DEF SendPrivmsg, Route, userMaps, channelMaps
<1>3. /\ line # None /\ Parsed(StringToMessage(line), "PRIVMSG")
      /\ incoming = ParseMessage(StringToMessage(line))
  BY <1>2, Zenon DEF FlowTypes
<1>4. PICK pre \in Seq(Solid(Speech)), target \in Seq(Speech), text \in Seq(Speech) :
        incoming = Privmsg(pre, target, text) /\ (pre # <<>> => Contains(pre, "!"))
  BY <1>2, IncomingIs
<1>5. incoming.params[1] = target /\ incoming.params[2] = text
  BY <1>4, PrivmsgParts
<1>6. SentAs(incoming, pre, target, text, conv)
  BY <1>1, <1>4, <1>5 DEF Conversations, SentAs
<1>7. ~MentionIsStale(text, Owner) /\ Owner' = Owner
  BY <1>2, <1>5, Zenon DEF SendPrivmsg, Owner
<1>8. /\ posted'.conv = conv /\ posted'.text \in UnparseMessageText(text, Owner)
  BY <1>1, <1>5
<1>9. PICK m : m = ParseMessage(StringToMessage(line))
  OBVIOUS
<1>10. m = incoming /\ ParseMessage(StringToMessage(line')) = m
  BY <1>2, <1>3, <1>9, Zenon
<1>11. SentAs(m, pre, target, text, posted'.conv)
  BY <1>6, <1>8, <1>10, Zenon
<1>12. SentAs(ParseMessage(StringToMessage(line)), pre, target, text, posted.conv)'
  BY <1>2, <1>7, <1>10, <1>11, Zenon DEF SentAs, GetUserFromNick
<1>13. relayed' = PostProcessClientMessage(m) 
  BY <1>2, <1>10, Zenon
<1>14. PostProcessClientMessage(ParseMessage(StringToMessage(line)))'
         = PostProcessClientMessage(m)
  BY <1>2, <1>7, <1>10, Zenon DEF PostProcessClientMessage, GetUserFromNick
<1>15. (~MentionIsStale(text, Owner) /\ posted.text \in UnparseMessageText(text, Owner))'
  BY <1>7, <1>8, Zenon
<1>16. (incoming = None /\ line # None /\ Parsed(StringToMessage(line), "PRIVMSG"))'
  BY <1>2, <1>3, Zenon
<1> QED
  BY <1>12, <1>13, <1>14, <1>15, <1>16, Zenon DEF Sent

\* No other step posts anything.
LEMMA OthersSendNothing ==
  ASSUME Sent, Next, ~SendPrivmsg
  PROVE  posted' = None
<1>1. ASSUME NEW l \in ClientLines, NEW m, Command(l, m)
      PROVE  posted' = posted
  BY <1>1, Zenon DEF Command, ReadStale, ReadMalformed, ReadPrivmsg, Ping, Mode, TopicCmd, Who, Whois,
     JoinCmd, Read
<1>2. Idle => posted = None
  BY Zenon DEF Idle
<1>3. Welcome \/ Notice => posted' = posted
  BY Zenon DEF Welcome, Notice, Deliver, client
<1>4. \A e : Event(e) => posted' = posted
  BY Zenon DEF Event, HandleUnresolvedSender, HandleUnresolvedConversation,
     HandleMessageEvent, Deliver, client
<1>5. \A u, c : FileShared(u, c) => posted' = posted
  BY Zenon DEF FileShared, Deliver, client
<1>6. SendNothing \/ SendFails \/ SendToNoChannel \/ SendStale
        => incoming # None /\ posted' = posted
  BY Zenon DEF SendNothing, SendFails, SendToNoChannel, SendStale, Route, client
<1>7. incoming # None => posted = None
  BY Zenon DEF Sent
<1>8. Forget => posted' = None
  BY Zenon DEF Forget
<1>9. RegenerateReverseMappings => posted' = None
  BY Zenon DEF RegenerateReverseMappings, client
<1> QED
  BY <1>1, <1>2, <1>3, <1>4, <1>5, <1>6, <1>7, <1>8, <1>9, NextIs, Zenon

\* What was posted is what the line says until the next line is read.
THEOREM SentInvariant == Spec => []Sent
<1>1. Init => Sent
  BY Zenon DEF Init, Sent
<1>2. FlowTypes /\ Sent /\ [Next]_vars => Sent'
  <2>1. ASSUME FlowTypes, Sent, Next
        PROVE  Sent'
    <3>1. CASE SendPrivmsg
      BY <2>1, <3>1, SendPrivmsgSends
    <3>2. CASE ~SendPrivmsg
      <4>1. posted' = None
        BY <2>1, <3>2, OthersSendNothing
      <4> QED
        BY <4>1, Zenon DEF Sent
    <3> QED
      BY <3>1, <3>2
  <2>2. ASSUME Sent, UNCHANGED vars
        PROVE  Sent'
    <3>1. /\ line' = line /\ posted' = posted /\ relayed' = relayed /\ incoming' = incoming
          /\ userInfo' = userInfo /\ channelInfo' = channelInfo
          /\ nickToUserMap' = nickToUserMap
      BY <2>2, Zenon DEF vars, userMaps, channelMaps, client
    <3>2. Owner' = Owner
      BY <3>1, Zenon DEF Owner
    <3>3. PostProcessClientMessage(ParseMessage(StringToMessage(line)))'
            = PostProcessClientMessage(ParseMessage(StringToMessage(line)))
      BY <3>1, <3>2, Zenon DEF PostProcessClientMessage, GetUserFromNick
    <3>4. ASSUME NEW m, NEW pre, NEW target, NEW text, NEW conv,
                 SentAs(m, pre, target, text, conv)
          PROVE  SentAs(m, pre, target, text, conv)'
      BY <3>1, <3>2, <3>4, Zenon DEF SentAs, GetUserFromNick
    <3> QED
      BY <2>2, <3>1, <3>2, <3>3, <3>4, Zenon DEF Sent
  <2> QED
    BY <2>1, <2>2
<1> QED
  BY <1>1, <1>2, FlowTypesInvariant, PTL DEF Spec

\* A channel is its own target, and a user is the one his nick is found for.
LEMMA ConversationIs ==
  ASSUME FlowTypes, NEW m, NEW pre, NEW target, NEW text, NEW conv,
         SentAs(m, pre, target, text, conv)
  PROVE  /\ IsTargetChannel(target) => ~IsDmChannel(conv) /\ target = <<conv>>
         /\ ~IsTargetChannel(target) => IsDmChannel(conv) /\ GetUserFromNick(target) = <<conv>>
<1>1. CASE IsTargetChannel(target)
  <2>1. conv \in Channels /\ target = <<conv>>
    BY <1>1 DEF SentAs, FlowTypes
  <2> QED
    BY <1>1, <2>1, WorldAssumption DEF IsDmChannel
<1>2. CASE ~IsTargetChannel(target)
  <2>1. conv \in userInfo /\ userInfo \subseteq Users /\ GetUserFromNick(target) = <<conv>>
    BY <1>2 DEF SentAs, FlowTypes
  <2> QED
    BY <1>2, <2>1 DEF IsDmChannel
<1> QED
  BY <1>1, <1>2

\* What Slack tells of a message it was sent looks as it was relayed.
LEMMA SentLooksTheSame ==
  ASSUME FlowTypes, Sent
  PROVE  LooksTheSame
<1> SUFFICES ASSUME posted # None, ~Contains(relayed.prefix, "!")
             PROVE  EventMessages(Echo(posted), userInfo) = <<relayed>>
  BY Zenon DEF LooksTheSame, Echo
<1>1. PICK m : m = ParseMessage(StringToMessage(line))
  OBVIOUS
<1>2. PICK pre \in Seq(Solid(Speech)), target \in Seq(Speech), text \in Seq(Speech) :
        /\ SentAs(m, pre, target, text, posted.conv)
        /\ relayed = PostProcessClientMessage(m)
        /\ ~MentionIsStale(text, Owner)
        /\ posted.text \in UnparseMessageText(text, Owner)
  BY <1>1, Zenon DEF Sent
<1>3. ParseMessageText(posted.text, userInfo) = text
  <2>1. userInfo \in SUBSET Users
    BY DEF FlowTypes
  <2>2. PICK c : SentFor(text, userInfo, Owner, posted.text, c)
    BY <1>2, <2>1, OwnerType, UnparseIs
  <2> QED
    BY <2>1, <2>2, SentComesBack
<1>4. text # <<>> /\ m = Privmsg(pre, target, text) /\ (pre # <<>> => Contains(pre, "!"))
  BY <1>2, Zenon DEF SentAs
<1>5. EventMessages(Echo(posted), userInfo) = <<Told(posted.conv, text)>>
  BY <1>3, <1>4, EchoIs
<1>6. relayed = IF pre # <<>> THEN m
                ELSE IF IsTargetChannel(target) THEN Privmsg(<<Me>>, target, text)
                ELSE Privmsg(GetUserFromNick(target), Nick[Me], Mark \o text)
  BY <1>2, <1>4, PostProcessIs
<1>7. pre = <<>>
  <2>1. SUFFICES ASSUME pre # <<>> PROVE FALSE
    OBVIOUS
  <2>2. relayed.prefix = pre
    BY <1>4, <1>6, <2>1, PrivmsgParts
  <2> QED
    BY <1>4, <2>1, <2>2, Zenon
<1>8. relayed = Told(posted.conv, text)
  BY <1>2, <1>6, <1>7, ConversationIs, Zenon DEF Told
<1> QED
  BY <1>5, <1>8, Zenon

\* Whatever is said and to whom, whoever is known and whatever order the mentions
\* are replaced in: the user's other clients see what he wrote as they would see it
\* if Slack told them.
THEOREM AllLooksTheSame == Spec => []LooksTheSame
<1>1. FlowTypes /\ Sent => LooksTheSame
  BY SentLooksTheSame
<1> QED
  BY <1>1, FlowTypesInvariant, SentInvariant, PTL

(***************************************************************************)
(* MessageText: what is encoded calls the same names                       *)
(***************************************************************************)

\* Nothing, encoded, is nothing.
LEMMA EncodeNothing == Encode(<<>>) = <<>>
<1>1. EscapeRows(<<>>) = <<>>
  BY DEF EscapeRows
<1> QED
  BY <1>1, EncodeIs, FlattenEmpty, Zenon

\* Texts are encoded one after the other.
LEMMA EncodeConcat ==
  ASSUME NEW S, Alphabet(S), NEW s \in Seq(S)
  PROVE  \A t \in Seq(S) : Encode(s \o t) = Encode(s) \o Encode(t)
<1> DEFINE T == {t \in Seq(S) : Encode(s \o t) = Encode(s) \o Encode(t)}
<1>1. \A t \in Seq(S) : Encode(t) \in Seq(S)
  BY EncodeType
<1>2. <<>> \in T
  <2>1. <<>> \in Seq(S) /\ s \o <<>> = s /\ Encode(s) \o <<>> = Encode(s)
    BY <1>1, ConcatProperties, EmptySeq
  <2> QED
    BY <2>1, EncodeNothing, Zenon
<1>3. ASSUME NEW t \in Seq(S), NEW a \in S, t \in T
      PROVE  Append(t, a) \in T
  <2>1. s \o Append(t, a) = Append(s \o t, a)
    BY ConcatAppend
  <2>2. s \o t \in Seq(S) /\ Append(t, a) \in Seq(S)
    BY ConcatProperties, AppendProperties
  <2>3. Encode(Append(s \o t, a)) = Encode(s \o t) \o Escape(a)
    BY <2>2, EncodeAppend
  <2>4. Encode(Append(t, a)) = Encode(t) \o Escape(a)
    BY EncodeAppend
  <2>5. Associates(Encode(s), Encode(t), Escape(a))
    BY <1>1, EscapeType, Associate
  <2>6. Encode(s \o t) = Encode(s) \o Encode(t)
    BY <1>3
  <2>7. Encode(s \o Append(t, a)) = Encode(s) \o Encode(Append(t, a))
    BY <2>1, <2>3, <2>4, <2>5, <2>6, Zenon DEF Associates
  <2> QED
    BY <2>2, <2>7
<1>4. Seq(S) \subseteq T
  <2> HIDE DEF T
  <2> QED
    BY <1>2, <1>3, AppendInduct
<1> QED
  BY <1>4

\* An atom, encoded, is what it is escaped to.
LEMMA EncodeOne ==
  ASSUME NEW S, Alphabet(S), NEW a \in S
  PROVE  Encode(<<a>>) = Escape(a)
<1>1. Append(<<>>, a) = <<a>> /\ <<>> \in Seq(S)
  BY EmptySeq
<1>2. Encode(Append(<<>>, a)) = Encode(<<>>) \o Escape(a)
  BY <1>1, EncodeAppend
<1>3. <<>> \o Escape(a) = Escape(a)
  BY EscapeType, ConcatProperties
<1> QED
  BY <1>1, <1>2, <1>3, EncodeNothing, Zenon

\* The atoms of nicks are none of those that are escaped or start a mention.
LEMMA NameIs ==
  ASSUME NEW S, Alphabet(S), NEW a \in Name
  PROVE  a \in S /\ a # "&" /\ a # "<" /\ a # ">" /\ a # "@"
<1>1. a \notin Marks
  BY AtomAssumption DEF Name
<1>2. a \in S
  BY AlphabetHas DEF Name
<1> QED
  BY <1>1, <1>2 DEF Marks

\* A word of letters and joiners is encoded as it is.
LEMMA EncodeName ==
  ASSUME NEW S, Alphabet(S)
  PROVE  \A w \in Seq(Name) : w \in Seq(S) /\ Encode(w) = w
<1> DEFINE T == {w \in Seq(Name) : w \in Seq(S) /\ Encode(w) = w}
<1>1. <<>> \in T
  BY EmptySeq, EncodeNothing
<1>2. ASSUME NEW w \in Seq(Name), NEW a \in Name, w \in T
      PROVE  Append(w, a) \in T
  <2>1. a \in S /\ a # "&" /\ a # "<" /\ a # ">"
    BY NameIs
  <2>2. Escape(a) = <<a>>
    BY <2>1, Zenon DEF Escape
  <2>3. w \in Seq(S) /\ Encode(w) = w
    BY <1>2
  <2>4. Encode(Append(w, a)) = w \o <<a>>
    BY <2>1, <2>2, <2>3, EncodeAppend
  <2>5. w \o <<a>> = Append(w, a) /\ Append(w, a) \in Seq(S) /\ Append(w, a) \in Seq(Name)
    BY <2>1, <2>3, AppendProperties, AppendIsConcat
  <2> QED
    BY <2>4, <2>5
<1>3. Seq(Name) \subseteq T
  <2> HIDE DEF T
  <2> QED
    BY <1>1, <1>2, AppendInduct
<1> QED
  BY <1>3

\* The atom j of the encoded t comes from an "@" of t.
ComesFrom(S, t, j) ==
  \E p, r \in Seq(S) : t = p \o (<<"@">> \o r) /\ Len(Encode(p)) + 1 = j

\* No other atom is encoded to an "@".
LEMMA EncodedAt ==
  ASSUME NEW S, Alphabet(S)
  PROVE  \A t \in Seq(S) : \A j \in 1 .. Len(Encode(t)) :
           Encode(t)[j] = "@" => ComesFrom(S, t, j)
<1> DEFINE T == {t \in Seq(S) : \A j \in 1 .. Len(Encode(t)) :
                   Encode(t)[j] = "@" => ComesFrom(S, t, j)}
<1>1. <<>> \in T
  <2>1. 1 .. Len(Encode(<<>>)) = {}
    BY EncodeNothing
  <2> QED
    BY <2>1, EmptySeq
<1>2. ASSUME NEW t \in Seq(S), NEW a \in S, t \in T
      PROVE  Append(t, a) \in T
  <2>1. PICK e \in Seq(S), f \in Seq(S) : e = Encode(t) /\ f = Escape(a)
    BY EncodeType, EscapeType
  <2>2. PICK n \in Nat, m \in Nat : n = Len(e) /\ m = Len(f)
    BY LenProperties
  <2>3. PICK x \in Seq(S) : x = e \o f /\ InARow(x, e, f, n, m)
    BY <2>2, ConcatIs
  <2>4. Encode(Append(t, a)) = x
    BY <2>1, <2>3, EncodeAppend
  <2>5. "@" \in S /\ <<"@">> \in Seq(S)
    BY AlphabetHas, OneAtom
  <2>6. ASSUME NEW j \in 1 .. n, x[j] = "@"
        PROVE  ComesFrom(S, Append(t, a), j)
    <3>1. e[j] = "@"
      BY <2>3, <2>6 DEF InARow
    <3>2. ComesFrom(S, t, j)
      BY <1>2, <2>1, <2>2, <3>1
    <3>3. PICK p \in Seq(S), r \in Seq(S) :
            t = p \o (<<"@">> \o r) /\ Len(Encode(p)) + 1 = j
      BY <3>2 DEF ComesFrom
    <3>4. Append(r, a) \in Seq(S) /\ <<"@">> \o r \in Seq(S)
      BY <2>5, AppendProperties, ConcatProperties
    <3>5. <<"@">> \o Append(r, a) = Append(<<"@">> \o r, a)
      BY <2>5, ConcatAppend, SMTT(40)
    <3>6. p \o Append(<<"@">> \o r, a) = Append(p \o (<<"@">> \o r), a)
      BY <3>4, ConcatAppend, SMTT(40)
    <3>7. Append(t, a) = p \o (<<"@">> \o Append(r, a))
      BY <3>3, <3>5, <3>6, Zenon
    <3> QED
      BY <3>3, <3>4, <3>7, Zenon DEF ComesFrom
  <2>7. ASSUME NEW i \in 1 .. m, x[n + i] = "@"
        PROVE  ComesFrom(S, Append(t, a), n + i)
    <3>1. f[i] = "@"
      BY <2>3, <2>7 DEF InARow
    <3>2. f = <<"@">>
      <4>1. f = <<a>> \/ \E b \in Tails : f = <<"&", b>>
        BY <2>1, EscapeIs, Zenon DEF Amp
      <4>2. CASE f = <<a>>
        <5>1. i = 1
          BY <2>2, <4>2
        <5> QED
          BY <3>1, <4>2, <5>1
      <4>3. ASSUME NEW b \in Tails, f = <<"&", b>>
            PROVE  FALSE
        <5>1. i = 1 \/ i = 2
          BY <2>2, <4>3
        <5>2. b # "@" /\ "&" # "@"
          BY DEF Tails, Entity
        <5>3. f[1] = "&" /\ f[2] = b
          BY <4>3
        <5> QED
          BY <3>1, <5>1, <5>2, <5>3, Zenon
      <4> QED
        BY <4>1, <4>2, <4>3
    <3>3. a = "@"
      <4>1. f = <<a>> \/ \E b \in Tails : f = <<"&", b>>
        BY <2>1, EscapeIs, Zenon DEF Amp
      <4>2. f[1] = "@" /\ "&" # "@"
        BY <3>2
      <4>3. f = <<a>> => f[1] = a
        OBVIOUS
      <4>4. \A b : f = <<"&", b>> => f[1] = "&"
        OBVIOUS
      <4> QED
        BY <4>1, <4>2, <4>3, <4>4, Zenon
    <3>4. n + i = n + 1
      BY <2>2, <3>2
    <3>5. <<"@">> \o <<>> = <<"@">> /\ <<>> \in Seq(S)
      BY <2>5, ConcatProperties, EmptySeq
    <3>6. Append(t, a) = t \o <<"@">>
      BY <3>3, AppendIsConcat
    <3>7. Append(t, a) = t \o (<<"@">> \o <<>>) /\ Len(Encode(t)) + 1 = n + i
      BY <2>1, <2>2, <3>4, <3>5, <3>6, Zenon
    <3> QED
      BY <3>5, <3>7, Zenon DEF ComesFrom
  <2>8. Len(x) = n + m
    BY <2>3 DEF InARow
  <2>9. \A j \in 1 .. n + m : j \in 1 .. n \/ \E i \in 1 .. m : j = n + i
    <3> SUFFICES ASSUME NEW j \in 1 .. n + m, j \notin 1 .. n
                 PROVE  \E i \in 1 .. m : j = n + i
      OBVIOUS
    <3>1. j - n \in 1 .. m /\ j = n + (j - n)
      OBVIOUS
    <3> QED
      BY <3>1
  <2>10. \A j \in 1 .. Len(x) : x[j] = "@" => ComesFrom(S, Append(t, a), j)
    BY <2>6, <2>7, <2>8, <2>9, ZenonT(60)
  <2>11. Append(t, a) \in Seq(S)
    BY AppendProperties
  <2> QED
    BY <2>4, <2>10, <2>11
<1>3. Seq(S) \subseteq T
  <2> HIDE DEF T
  <2> QED
    BY <1>1, <1>2, AppendInduct
<1> QED
  BY <1>3

\* The rest of r after w is what z was encoded from.
BeginsWith(S, r, w, z) == \E q \in Seq(S) : r = w \o q /\ Encode(q) = z

\* What is encoded to a text that begins with a name begins with it.
LEMMA EncodedName ==
  ASSUME NEW S, Alphabet(S)
  PROVE  \A w \in Seq(Name) : \A r, z \in Seq(S) :
           Encode(r) = w \o z => BeginsWith(S, r, w, z)
<1> DEFINE T == {w \in Seq(Name) : \A r, z \in Seq(S) :
                   Encode(r) = w \o z => BeginsWith(S, r, w, z)}
<1>1. <<>> \in T
  <2>1. ASSUME NEW r \in Seq(S), NEW z \in Seq(S), Encode(r) = <<>> \o z
        PROVE  BeginsWith(S, r, <<>>, z)
    <3>1. <<>> \o z = z /\ <<>> \o r = r
      BY ConcatProperties
    <3> QED
      BY <2>1, <3>1, Zenon DEF BeginsWith
  <2> QED
    BY <2>1, EmptySeq
<1>2. ASSUME NEW w \in Seq(Name), NEW a \in Name, w \in T
      PROVE  Append(w, a) \in T
  <2>1. a \in S /\ a # "&" /\ w \in Seq(S)
    BY NameIs, EncodeName
  <2>2. Append(w, a) = w \o <<a>> /\ Append(w, a) \in Seq(Name) /\ <<a>> \in Seq(S)
    BY <2>1, AppendIsConcat, AppendProperties, OneAtom
  <2>3. ASSUME NEW r \in Seq(S), NEW z \in Seq(S), Encode(r) = Append(w, a) \o z
        PROVE  BeginsWith(S, r, Append(w, a), z)
    <3>1. Associates(w, <<a>>, z)
      BY <2>1, <2>2, Associate
    <3>2. PICK y \in Seq(S) : y = <<a>> \o z
      BY <2>2, ConcatProperties
    <3>3. Encode(r) = w \o y
      BY <2>2, <2>3, <3>1, <3>2, Zenon DEF Associates
    <3>4. BeginsWith(S, r, w, y)
      BY <1>2, <3>3
    <3>5. PICK q \in Seq(S) : r = w \o q /\ Encode(q) = y
      BY <3>4 DEF BeginsWith
    <3>6. Tail(y) = z /\ Head(y) = a /\ y # <<>>
      BY <2>1, <3>2, TailOfConcat
    <3>7. Len(q) # 0
      <4>1. q # <<>>
        BY <3>5, <3>6, EncodeNothing, Zenon
      <4> QED
        BY <4>1, EmptySeq
    <3>8. PICK h \in S, l \in Seq(S) : q = <<h>> \o l
      BY <3>7, HeadAndTail
    <3>9. y = Escape(h) \o Encode(l)
      <4>1. Encode(<<h>> \o l) = Encode(<<h>>) \o Encode(l)
        BY OneAtom, EncodeConcat, ZenonT(60)
      <4> QED
        BY <3>5, <3>8, <4>1, EncodeOne, Zenon
    <3>10. Encode(l) \in Seq(S) /\ Escape(h) \in Seq(S)
      BY EncodeType, EscapeType
    <3>11. Escape(h) = <<h>>
      <4>1. ASSUME NEW b \in Tails, Escape(h) = <<"&", b>>
            PROVE  FALSE
        <5>1. Escape(h) # <<>> /\ Head(Escape(h)) = "&"
          BY <4>1
        <5>2. Head(y) = "&"
          BY <3>9, <3>10, <5>1, HeadOfConcat
        <5> QED
          BY <2>1, <3>6, <5>2, Zenon
      <4> QED
        BY <4>1, EscapeIs, Zenon DEF Amp
    <3>12. Tail(y) = Encode(l) /\ Head(y) = h
      BY <3>9, <3>10, <3>11, TailOfConcat
    <3>13. Associates(w, <<a>>, l)
      BY <2>1, <2>2, Associate
    <3>14. r = Append(w, a) \o l /\ Encode(l) = z
      BY <2>2, <3>5, <3>6, <3>8, <3>12, <3>13, Zenon DEF Associates
    <3> QED
      BY <3>14 DEF BeginsWith
  <2> QED
    BY <2>2, <2>3
<1>3. Seq(Name) \subseteq T
  <2> HIDE DEF T
  <2> QED
    BY <1>1, <1>2, AppendInduct
<1> QED
  BY <1>3

\* Nothing of a name follows.
Stops(q) == q = <<>> \/ Head(q) \notin Name

\* After p and an "@", the text t has w, which is a mention's name, and ends there.
CallsAfter(t, p, w, q) == t = p \o (<<"@">> \o (w \o q)) /\ Stops(q)

\* A name that t calls, with what is before and after it.
CalledBy(S, t, w) ==
  /\ w \in Seq(Name) /\ w # <<>> /\ Head(w) \in Letters
  /\ \E p, q \in Seq(S) : CallsAfter(t, p, w, q)

\* A name ends at the same place before and after what follows is encoded.
LEMMA StopsEncoded ==
  ASSUME NEW S, Alphabet(S), NEW q \in Seq(S)
  PROVE  Stops(Encode(q)) <=> Stops(q)
<1>1. CASE q = <<>>
  BY <1>1, EncodeNothing DEF Stops
<1>2. CASE q # <<>>
  <2>1. Len(q) # 0
    BY <1>2, EmptySeq
  <2>2. PICK h \in S, l \in Seq(S) : q = <<h>> \o l
    BY <2>1, HeadAndTail
  <2>3. Head(q) = h
    BY <2>2, TailOfConcat
  <2>4. Encode(q) = Escape(h) \o Encode(l)
    <3>1. Encode(<<h>> \o l) = Encode(<<h>>) \o Encode(l)
      BY OneAtom, EncodeConcat, ZenonT(60)
    <3> QED
      BY <2>2, <3>1, EncodeOne, Zenon
  <2>5. Encode(l) \in Seq(S) /\ Escape(h) \in Seq(S)
    BY EncodeType, EscapeType
  <2>6. Escape(h) # <<>> /\ (Head(Escape(h)) = h \/ (Head(Escape(h)) = "&" /\ h \in Marks))
    <3>1. (Escape(h) = <<h>> /\ h # "&") \/ h = "&" \/ h = "<" \/ h = ">"
      BY Zenon DEF Escape
    <3>2. h = "&" \/ h = "<" \/ h = ">" => h \in Marks
      BY DEF Marks
    <3>3. Escape(h) = <<h>> \/ \E b \in Tails : Escape(h) = <<"&", b>>
      BY EscapeIs, Zenon DEF Amp
    <3>4. Escape(h) = <<h>> => Escape(h) # <<>> /\ Head(Escape(h)) = h
      OBVIOUS
    <3>5. \A b : Escape(h) = <<"&", b>> => Escape(h) # <<>> /\ Head(Escape(h)) = "&"
      OBVIOUS
    <3> QED
      BY <3>1, <3>2, <3>3, <3>4, <3>5, Zenon
  <2>7. Encode(q) # <<>> /\ Head(Encode(q)) = Head(Escape(h))
    BY <2>4, <2>5, <2>6, HeadOfConcat
  <2>8. "&" \notin Name /\ (h \in Marks => h \notin Name)
    BY AtomAssumption DEF Name, Marks
  <2> QED
    BY <1>2, <2>3, <2>6, <2>7, <2>8, Zenon DEF Stops
<1> QED
  BY <1>1, <1>2

\* Where a and b in a row, s, are cut, after n elements.
CutAfter(s, n, a, b) == SubSeq(s, 1, n) = a /\ SubSeq(s, n + 1, Len(s)) = b

\* What is up to a position of two texts in a row, and what is after it.
LEMMA CutIs ==
  ASSUME NEW S, NEW a \in Seq(S), NEW b \in Seq(S), NEW n \in Nat, n = Len(a)
  PROVE  CutAfter(a \o b, n, a, b)
<1>1. PICK k \in Nat : k = n + 1 /\ k = Len(a) + 1
  OBVIOUS
<1>2. SubSeq(a \o b, 1, n) = a /\ SubSeq(a \o b, k, Len(a \o b)) = b
  BY <1>1, Halves
<1> QED
  BY <1>1, <1>2, Zenon DEF CutAfter

\* Two sequences in a row are what they are in only one way.
LEMMA CutOnce ==
  ASSUME NEW S, NEW a \in Seq(S), NEW b \in Seq(S), NEW c \in Seq(S), NEW d \in Seq(S),
         a \o b = c \o d, Len(a) = Len(c)
  PROVE  a = c /\ b = d
<1>1. Len(a) \in Nat
  BY LenProperties
<1>2. CutAfter(a \o b, Len(a), a, b)
  BY <1>1, CutIs
<1>3. CutAfter(c \o d, Len(c), c, d)
  BY <1>1, CutIs
<1> QED
  BY <1>2, <1>3, Zenon DEF CutAfter

\* A text calls the same names before and after it is encoded.
LEMMA EncodeCalls ==
  ASSUME NEW S, Alphabet(S), NEW t \in Seq(S), NEW w
  PROVE  CalledBy(S, Encode(t), w) <=> CalledBy(S, t, w)
<1>1. "@" \in S /\ <<"@">> \in Seq(S)
  BY AlphabetHas, OneAtom
<1>2. Encode(<<"@">>) = <<"@">>
  <2>1. "@" # "&" /\ "@" # "<" /\ "@" # ">"
    OBVIOUS
  <2>2. Escape("@") = <<"@">>
    BY <2>1, Zenon DEF Escape
  <2> QED
    BY <1>1, <2>2, EncodeOne
<1>3. \A s \in Seq(S) : Encode(s) \in Seq(S)
  BY EncodeType
<1>4. ASSUME CalledBy(S, t, w)
      PROVE  CalledBy(S, Encode(t), w)
  <2>1. PICK p \in Seq(S), q \in Seq(S) : CallsAfter(t, p, w, q)
    BY <1>4 DEF CalledBy
  <2>2. w \in Seq(S) /\ Encode(w) = w
    BY <1>4, EncodeName DEF CalledBy
  <2>3. w \o q \in Seq(S) /\ <<"@">> \o (w \o q) \in Seq(S)
    BY <1>1, <2>2, ConcatProperties
  <2>4. Encode(w \o q) = w \o Encode(q)
    BY <2>2, EncodeConcat, ZenonT(60)
  <2>5. Encode(<<"@">> \o (w \o q)) = <<"@">> \o Encode(w \o q)
    BY <1>1, <1>2, <2>3, EncodeConcat, ZenonT(60)
  <2>6. Encode(p \o (<<"@">> \o (w \o q))) = Encode(p) \o Encode(<<"@">> \o (w \o q))
    BY <2>3, EncodeConcat
  <2>7. Stops(Encode(q))
    BY <2>1, StopsEncoded DEF CallsAfter
  <2>8. CallsAfter(Encode(t), Encode(p), w, Encode(q))
    BY <2>1, <2>4, <2>5, <2>6, <2>7, Zenon DEF CallsAfter
  <2> QED
    BY <1>3, <1>4, <2>8, Zenon DEF CalledBy
<1>5. ASSUME CalledBy(S, Encode(t), w)
      PROVE  CalledBy(S, t, w)
  <2>1. PICK x \in Seq(S), z \in Seq(S) : CallsAfter(Encode(t), x, w, z)
    BY <1>5 DEF CalledBy
  <2>2. w \in Seq(S)
    BY <1>5, EncodeName DEF CalledBy
  <2>3. PICK y \in Seq(S) : y = w \o z
    BY <2>2, ConcatProperties
  <2>4. PICK f \in Seq(S) : f = <<"@">> \o y /\ Len(f) # 0
    <3>1. <<"@">> \o y \in Seq(S)
      BY <1>1, ConcatProperties
    <3>2. <<"@">> \o y # <<>>
      BY <1>1, TailOfConcat
    <3> QED
      BY <3>1, <3>2, EmptySeq
  <2>5. PICK n \in Nat, m \in Nat, j \in Nat : n = Len(x) /\ m = Len(f) /\ j = n + 1
    BY LenProperties
  <2>6. Encode(t) = x \o f
    BY <2>1, <2>3, <2>4, Zenon DEF CallsAfter
  <2>7. InARow(Encode(t), x, f, n, m)
    <3>1. InARow(x \o f, x, f, n, m)
      BY <2>5, ConcatIs
    <3> QED
      BY <2>6, <3>1, Zenon
  <2>8. j \in 1 .. Len(Encode(t)) /\ Encode(t)[j] = f[1]
    <3>1. 1 \in 1 .. m
      BY <2>4, <2>5
    <3> QED
      BY <2>5, <2>7, <3>1 DEF InARow
  <2>9. f[1] = "@"
    <3>1. Head(f) = "@"
      BY <1>1, <2>4, TailOfConcat
    <3> QED
      BY <3>1
  <2>10. ComesFrom(S, t, j)
    BY <2>8, <2>9, EncodedAt
  <2>11. PICK p \in Seq(S), r \in Seq(S) :
           t = p \o (<<"@">> \o r) /\ Len(Encode(p)) + 1 = j
    BY <2>10 DEF ComesFrom
  <2>12. Len(Encode(p)) = Len(x)
    <3>1. Len(Encode(p)) \in Nat
      BY <1>3, LenProperties
    <3> QED
      BY <2>5, <2>11, <3>1
  <2>13. PICK g \in Seq(S) : g = <<"@">> \o Encode(r)
    BY <1>1, <1>3, ConcatProperties
  <2>14. Encode(t) = Encode(p) \o g
    <3>1. <<"@">> \o r \in Seq(S)
      BY <1>1, ConcatProperties
    <3>2. Encode(p \o (<<"@">> \o r)) = Encode(p) \o Encode(<<"@">> \o r)
      BY <3>1, EncodeConcat, ZenonT(60)
    <3>3. Encode(<<"@">> \o r) = <<"@">> \o Encode(r)
      BY <1>1, <1>2, EncodeConcat, ZenonT(60)
    <3> QED
      BY <2>11, <2>13, <3>2, <3>3, Zenon
  <2>15. g = f
    <3>1. Encode(p) \o g = x \o f
      BY <2>6, <2>14
    <3> QED
      BY <1>3, <2>12, <3>1, CutOnce
  <2>16. Encode(r) = y
    <3>1. Tail(g) = Encode(r)
      BY <1>1, <1>3, <2>13, TailOfConcat
    <3>2. Tail(f) = y
      BY <1>1, <2>4, TailOfConcat
    <3> QED
      BY <2>15, <3>1, <3>2, Zenon
  <2>17. BeginsWith(S, r, w, z)
    BY <1>5, <2>3, <2>16, EncodedName DEF CalledBy
  <2>18. PICK q \in Seq(S) : r = w \o q /\ Encode(q) = z
    BY <2>17 DEF BeginsWith
  <2>19. Stops(q)
    <3>1. Stops(Encode(q))
      BY <2>1, <2>18, Zenon DEF CallsAfter
    <3> QED
      BY <3>1, StopsEncoded
  <2>20. CallsAfter(t, p, w, q)
    BY <2>11, <2>18, <2>19, Zenon DEF CallsAfter
  <2> QED
    BY <1>5, <2>20, Zenon DEF CalledBy
<1> QED
  BY <1>4, <1>5

(***************************************************************************)
(* Those a line calls are those Slack resolves                             *)
(***************************************************************************)

\* In t, of n atoms, the atom i is an "@", followed by w, of l, and no more of a name.
IsCall(t, n, i, w, l) ==
  /\ i \in 1 .. n /\ i + l <= n /\ t[i] = "@"
  /\ \A k \in 1 .. l : t[i + k] = w[k]
  /\ i + l < n => t[i + l + 1] \notin Name

\* w can be mentioned.
IsName(w) == w \in Seq(Name) /\ w # <<>> /\ Head(w) \in Letters

\* What is called is somewhere.
LEMMA CallIsSomewhere ==
  ASSUME NEW S, Alphabet(S), NEW t \in Seq(S), NEW w, CalledBy(S, t, w)
  PROVE  \E i \in Nat : IsCall(t, Len(t), i, w, Len(w))
<1>1. PICK p \in Seq(S), q \in Seq(S) : CallsAfter(t, p, w, q)
  BY DEF CalledBy
<1>2. w \in Seq(S) /\ "@" \in S /\ <<"@">> \in Seq(S) /\ Len(<<"@">>) = 1
  BY EncodeName, AlphabetHas, OneAtom DEF CalledBy
<1>3. PICK b \in Seq(S), one \in Nat : b = <<"@">> /\ one = 1 /\ one = Len(b) /\ b[1] = "@"
  <2>1. <<"@">>[1] = "@" /\ 1 \in Nat
    OBVIOUS
  <2> QED
    BY <1>2, <2>1, Zenon
<1>4. PICK o \in Nat, l \in Nat, m \in Nat, n \in Nat :
        /\ o = Len(p) /\ l = Len(w) /\ m = Len(q) /\ n = Len(t)
  BY <1>2, LenProperties
<1>5. PICK x \in Seq(S), lx \in Nat : x = w \o q /\ InARow(x, w, q, l, m) /\ lx = Len(x)
  <2>1. w \o q \in Seq(S) /\ InARow(w \o q, w, q, l, m)
    BY <1>2, <1>4, ConcatIs
  <2> QED
    BY <2>1, LenProperties
<1>6. PICK y \in Seq(S), ly \in Nat : y = b \o x /\ InARow(y, b, x, one, lx) /\ ly = Len(y)
  <2>1. b \o x \in Seq(S) /\ InARow(b \o x, b, x, one, lx)
    BY <1>3, <1>5, ConcatIs
  <2> QED
    BY <2>1, LenProperties
<1>7. t = p \o y /\ InARow(t, p, y, o, ly)
  <2>1. t = p \o y
    BY <1>1, <1>3, <1>5, <1>6, Zenon DEF CallsAfter
  <2>2. InARow(p \o y, p, y, o, ly)
    BY <1>4, <1>6, ConcatIs
  <2> QED
    BY <2>1, <2>2, Zenon
<1>8. lx = l + m /\ ly = 1 + lx /\ n = o + ly
  BY <1>3, <1>4, <1>5, <1>6, <1>7 DEF InARow
<1>9. PICK i \in Nat : i = o + 1
  OBVIOUS
<1>10. t[i] = "@"
  <2>1. t[o + 1] = y[1] /\ y[1] = b[1]
    BY <1>3, <1>6, <1>7, <1>8 DEF InARow
  <2> QED
    BY <1>3, <1>9, <2>1
<1>11. \A k \in 1 .. lx : t[i + k] = x[k]
  <2> SUFFICES ASSUME NEW k \in 1 .. lx
               PROVE  t[i + k] = x[k]
    OBVIOUS
  <2>1. 1 + k \in 1 .. ly /\ i + k = o + (1 + k)
    BY <1>8, <1>9
  <2>2. t[o + (1 + k)] = y[1 + k]
    BY <1>7, <2>1 DEF InARow
  <2>3. y[1 + k] = x[k]
    BY <1>3, <1>6 DEF InARow
  <2> QED
    BY <2>1, <2>2, <2>3
<1>12. \A k \in 1 .. l : t[i + k] = w[k]
  <2> SUFFICES ASSUME NEW k \in 1 .. l
               PROVE  t[i + k] = w[k]
    OBVIOUS
  <2>1. k \in 1 .. lx
    BY <1>8
  <2>2. x[k] = w[k]
    BY <1>5 DEF InARow
  <2> QED
    BY <1>11, <2>1, <2>2
<1>13. i + l < n => t[i + l + 1] \notin Name
  <2> SUFFICES ASSUME i + l < n
               PROVE  t[i + l + 1] \notin Name
    OBVIOUS
  <2>1. l + 1 \in 1 .. lx /\ 1 \in 1 .. m /\ i + l + 1 = i + (l + 1)
    BY <1>8, <1>9
  <2>2. t[i + (l + 1)] = x[l + 1] /\ x[l + 1] = q[1]
    BY <1>5, <1>11, <2>1 DEF InARow
  <2>3. Head(q) \notin Name
    <3>1. q # <<>>
      BY <1>4, <2>1
    <3> QED
      BY <1>1, <3>1, Zenon DEF CallsAfter, Stops
  <2> QED
    BY <2>1, <2>2, <2>3
<1>14. i \in 1 .. n /\ i + l <= n
  BY <1>8, <1>9
<1> QED
  BY <1>4, <1>10, <1>12, <1>13, <1>14 DEF IsCall

\* What is somewhere is called.
LEMMA SomewhereIsCalled ==
  ASSUME NEW S, Alphabet(S), NEW t \in Seq(S), NEW w, IsName(w), NEW n, n = Len(t),
         NEW l, l = Len(w), NEW i \in Nat, IsCall(t, n, i, w, l)
  PROVE  CalledBy(S, t, w)
<1>1. n \in Nat /\ l \in Nat /\ w \in Seq(S) /\ "@" \in S /\ <<"@">> \in Seq(S)
  BY LenProperties, EncodeName, AlphabetHas, OneAtom DEF IsName
<1>2. i \in 1 .. n /\ i + l <= n /\ t[i] = "@"
  BY DEF IsCall
<1>3. PICK o \in Nat, j \in Nat, k \in Nat : o + 1 = i /\ j = i + 1 /\ k = i + l
  <2>1. i - 1 \in Nat /\ (i - 1) + 1 = i /\ i + 1 \in Nat /\ i + l \in Nat
    BY <1>1, <1>2
  <2> QED
    BY <2>1
<1>4. PICK p \in Seq(S), q \in Seq(S), m \in Nat :
        /\ p = SubSeq(t, 1, o) /\ q = SubSeq(t, k + 1, n) /\ k + m = n /\ IsPart(q, t, k + 1, m)
  <2>1. n - k \in Nat /\ k + (n - k) = n /\ (k + 1) + (n - k) = n + 1 /\ k + 1 # 0 /\ k + 1 \in Nat
    BY <1>1, <1>2, <1>3
  <2>2. SubSeq(t, k + 1, n) \in Seq(S) /\ IsPart(SubSeq(t, k + 1, n), t, k + 1, n - k)
    BY <1>1, <2>1, PartIs
  <2>3. 1 + o = o + 1 /\ o <= Len(t) /\ 1 \in Nat /\ 1 # 0
    BY <1>1, <1>2, <1>3
  <2>4. SubSeq(t, 1, o) \in Seq(S)
    BY <2>3, PartIs
  <2> QED
    BY <2>1, <2>2, <2>4
<1>5. SubSeq(t, j, k) = w
  <2>1. j # 0 /\ k <= Len(t) /\ j + l = k + 1
    BY <1>1, <1>2, <1>3
  <2>2. PICK x \in Seq(S) : x = SubSeq(t, j, k) /\ IsPart(x, t, j, l)
    BY <1>1, <2>1, PartIs
  <2>3. ASSUME NEW h \in 1 .. l
        PROVE  x[h] = w[h]
    <3>1. j + h - 1 = i + h
      BY <1>1, <1>3
    <3>2. x[h] = t[j + h - 1]
      BY <2>2 DEF IsPart
    <3> QED
      BY <3>1, <3>2 DEF IsCall
  <2>4. Len(x) = l
    BY <2>2 DEF IsPart
  <2> QED
    BY <1>1, <2>2, <2>3, <2>4, SeqEqual
<1>6. SubSeq(t, 1, n) = t
  BY SubSeqFull
<1>7. SubSeq(t, 1, o) \o SubSeq(t, i, n) = t
  <2>1. 1 \in 1 .. Len(t) + 1 /\ o \in 1 - 1 .. Len(t) /\ n \in o .. Len(t)
    BY <1>1, <1>2, <1>3
  <2>2. SubSeq(t, 1, o) \o SubSeq(t, o + 1, n) = SubSeq(t, 1, n)
    BY <2>1, ConcatAdjacentSubSeq
  <2> QED
    BY <1>3, <1>6, <2>2, Zenon
<1>8. SubSeq(t, i, n) = <<"@">> \o SubSeq(t, j, n)
  <2>1. i \in 1 .. Len(t) /\ n \in i .. Len(t)
    BY <1>1, <1>2
  <2>2. SubSeq(t, i, n) = <<t[i]>> \o SubSeq(t, i + 1, n)
    BY <2>1, SubSeqRecursiveFirst, Zenon
  <2> QED
    BY <1>2, <1>3, <2>2, Zenon
<1>9. SubSeq(t, j, n) = w \o q
  <2>1. j \in 1 .. Len(t) + 1 /\ k \in j - 1 .. Len(t) /\ n \in k .. Len(t)
    BY <1>1, <1>2, <1>3
  <2>2. SubSeq(t, j, k) \o SubSeq(t, k + 1, n) = SubSeq(t, j, n)
    BY <2>1, ConcatAdjacentSubSeq
  <2> QED
    BY <1>4, <1>5, <2>2, Zenon
<1>10. Stops(q)
  <2>1. CASE m = 0
    <3>1. q = <<>>
      BY <1>4, <2>1, EmptySeq DEF IsPart
    <3> QED
      BY <3>1 DEF Stops
  <2>2. CASE m # 0
    <3>1. i + l < n /\ (k + 1) + 1 - 1 = i + l + 1 /\ 1 \in 1 .. m
      BY <1>1, <1>3, <1>4, <2>2
    <3>2. q[1] = t[(k + 1) + 1 - 1]
      BY <1>4, <3>1 DEF IsPart
    <3>3. q[1] \notin Name
      BY <3>1, <3>2 DEF IsCall
    <3> QED
      BY <3>3 DEF Stops
  <2> QED
    BY <2>1, <2>2
<1>11. CallsAfter(t, p, w, q)
  BY <1>4, <1>7, <1>8, <1>9, <1>10, Zenon DEF CallsAfter
<1> QED
  BY <1>11, Zenon DEF CalledBy, IsName

\* What Called finds in t, of n atoms.
IsFound(t, n, w) ==
  /\ \E i, j \in 2 .. n : w = SubSeq(t, i, j)
  /\ w # <<>> /\ Head(w) \in Letters /\ ToSet(w) \subseteq Name
  /\ \E i \in 1 .. n - Len(w) :
       /\ t[i] = "@" /\ SubSeq(t, i + 1, i + Len(w)) = w
       /\ i + Len(w) = n \/ t[i + Len(w) + 1] \notin Name

\* Called, with its condition named.
LEMMA CalledFinds ==
  ASSUME NEW t, NEW w
  PROVE  w \in Called(t) <=> IsFound(t, Len(t), w)
<1> DEFINE P == {SubSeq(t, i, j) : i, j \in 2 .. Len(t)}
<1>1. w \in P <=> \E i, j \in 2 .. Len(t) : w = SubSeq(t, i, j)
  BY SMT
<1>2. Called(t) = {v \in P : /\ v # <<>> /\ Head(v) \in Letters /\ ToSet(v) \subseteq Name
        /\ \E i \in 1 .. Len(t) - Len(v) :
             /\ t[i] = "@" /\ SubSeq(t, i + 1, i + Len(v)) = v
             /\ i + Len(v) = Len(t) \/ t[i + Len(v) + 1] \notin Name}
  BY DEF Called, Name
<1> HIDE DEF P
<1> QED
  BY <1>1, <1>2 DEF IsFound

\* The words Called finds are those that are called.
LEMMA CalledIs ==
  ASSUME NEW S, Alphabet(S), NEW t \in Seq(S), NEW w
  PROVE  w \in Called(t) <=> CalledBy(S, t, w)
<1>1. PICK n \in Nat : n = Len(t)
  BY LenProperties
<1>2. w \in Called(t) <=> IsFound(t, n, w)
  BY <1>1, CalledFinds, Zenon
<1>3. ASSUME w \in Called(t)
      PROVE  CalledBy(S, t, w)
  <2>1. PICK l \in Nat : w \in Seq(S) /\ l = Len(w)
    <3>1. PICK i \in 2 .. n, j \in 2 .. n : w = SubSeq(t, i, j)
      BY <1>2, <1>3 DEF IsFound
    <3>2. \A k \in i .. j : t[k] \in S
      BY <1>1, ElementOfSeq
    <3>3. w \in Seq(S)
      BY <3>1, <3>2, SubSeqProperties
    <3> QED
      BY <3>3, LenProperties
  <2>2. IsName(w)
    <3>1. w \in Seq(Name)
      <4>1. DOMAIN w = 1 .. l /\ w = [k \in 1 .. l |-> w[k]]
        BY <2>1, LenProperties
      <4>2. \A k \in 1 .. l : w[k] \in Name
        BY <1>2, <1>3, <4>1 DEF IsFound, ToSet
      <4> QED
        BY <4>1, <4>2
    <3> QED
      BY <1>2, <1>3, <3>1, Zenon DEF IsFound, IsName
  <2>3. PICK i \in 1 .. n - l : /\ t[i] = "@" /\ SubSeq(t, i + 1, i + l) = w
                                /\ (i + l = n \/ t[i + l + 1] \notin Name)
    BY <1>2, <1>3, <2>1 DEF IsFound
  <2>4. i \in 1 .. n /\ i + l <= n /\ i \in Nat
    BY <1>1, <2>1
  <2>5. IsPart(w, t, i + 1, l)
    <3>1. i + 1 \in Nat /\ i + l \in Nat /\ i + 1 # 0 /\ i + l <= Len(t) /\ (i + 1) + l = (i + l) + 1
      BY <1>1, <2>1, <2>4
    <3>2. IsPart(SubSeq(t, i + 1, i + l), t, i + 1, l)
      BY <3>1, PartIs
    <3> QED
      BY <2>3, <3>2, Zenon
  <2>6. \A k \in 1 .. l : t[i + k] = w[k]
    <3> SUFFICES ASSUME NEW k \in 1 .. l
                 PROVE  t[i + k] = w[k]
      OBVIOUS
    <3>1. (i + 1) + k - 1 = i + k
      BY <2>1, <2>4
    <3>2. w[k] = t[(i + 1) + k - 1]
      BY <2>5 DEF IsPart
    <3> QED
      BY <3>1, <3>2, Zenon
  <2>7. IsCall(t, n, i, w, l)
    <3>1. i + l < n => i + l # n
      BY <1>1, <2>1, <2>4
    <3> QED
      BY <2>3, <2>4, <2>6, <3>1, Zenon DEF IsCall
  <2> QED
    BY <1>1, <2>1, <2>2, <2>4, <2>7, SomewhereIsCalled
<1>4. ASSUME CalledBy(S, t, w)
      PROVE  w \in Called(t)
  <2>1. PICK l \in Nat : w \in Seq(S) /\ l = Len(w) /\ w \in Seq(Name)
    <3>1. w \in Seq(S) /\ w \in Seq(Name)
      BY <1>4, EncodeName DEF CalledBy
    <3> QED
      BY <3>1, LenProperties
  <2>2. PICK i \in Nat : IsCall(t, n, i, w, l)
    BY <1>1, <1>4, <2>1, CallIsSomewhere
  <2>3. l # 0
    BY <1>4, <2>1, EmptySeq DEF CalledBy
  <2>4. i \in 1 .. n /\ i + l <= n /\ t[i] = "@" /\ (i + l < n => t[i + l + 1] \notin Name)
    BY <2>2 DEF IsCall
  <2>5. PICK j \in 2 .. n, k \in 2 .. n : j = i + 1 /\ k = i + l
    BY <1>1, <2>1, <2>3, <2>4
  <2>6. SubSeq(t, j, k) = w
    <3>1. j \in Nat /\ k \in Nat /\ j # 0 /\ k <= Len(t) /\ j + l = k + 1
      BY <1>1, <2>1, <2>5
    <3>2. PICK x \in Seq(S) : x = SubSeq(t, j, k) /\ IsPart(x, t, j, l)
      BY <2>1, <3>1, PartIs
    <3>3. ASSUME NEW h \in 1 .. l
          PROVE  x[h] = w[h]
      <4>1. j + h - 1 = i + h
        BY <2>5
      <4>2. x[h] = t[j + h - 1]
        BY <3>2 DEF IsPart
      <4> QED
        BY <2>2, <4>1, <4>2 DEF IsCall
    <3>4. Len(x) = l
      BY <3>2 DEF IsPart
    <3> QED
      BY <2>1, <3>2, <3>3, <3>4, SeqEqual
  <2>7. ToSet(w) \subseteq Name
    <3>1. DOMAIN w = 1 .. l
      BY <2>1, LenProperties
    <3> QED
      BY <2>1, <3>1, ElementOfSeq DEF ToSet
  <2>8. i \in 1 .. n - l /\ (i + l = n \/ t[i + l + 1] \notin Name)
    BY <1>1, <2>1, <2>4
  <2>9. \E h, g \in 2 .. n : w = SubSeq(t, h, g)
    BY <2>5, <2>6
  <2>10. w # <<>> /\ Head(w) \in Letters
    BY <1>4 DEF CalledBy
  <2>11. \E h \in 1 .. n - Len(w) :
           t[h] = "@" /\ SubSeq(t, h + 1, h + Len(w)) = w
             /\ (h + Len(w) = n \/ t[h + Len(w) + 1] \notin Name)
    BY <2>1, <2>4, <2>5, <2>6, <2>8
  <2> QED
    BY <1>2, <2>7, <2>9, <2>10, <2>11 DEF IsFound
<1> QED
  BY <1>3, <1>4

\* m is in t at i, and w, of l atoms, is what it has after the first.
IsMentioned(t, i, w, l, m) ==
  /\ m = SubSeq(t, i, i + l) /\ w = Tail(m) /\ Len(m) = l + 1 /\ Len(w) = l
  /\ \A k \in 1 .. l : w[k] = t[i + k]

\* A mention without its "@" is the word it calls.
LEMMA TailIs ==
  ASSUME NEW S, NEW t \in Seq(S), NEW n \in Nat, n = Len(t), NEW i \in 1 .. n,
         NEW l \in Nat, i + l <= n
  PROVE  \E w \in Seq(S) : IsMentioned(t, i, w, l, SubSeq(t, i, i + l))
<1>1. PICK j \in Nat, m \in Nat : j = i + l /\ m = l + 1
  OBVIOUS
<1>2. PICK x \in Seq(S) : x = SubSeq(t, i, j) /\ IsPart(x, t, i, m)
  <2>1. i \in Nat /\ i # 0 /\ j <= Len(t) /\ i + m = j + 1
    BY <1>1
  <2> QED
    BY <2>1, PartIs
<1>3. Len(x) = m /\ x # <<>>
  BY <1>1, <1>2 DEF IsPart
<1>4. PICK y \in Seq(S) : y = Tail(x)
  BY <1>3, HeadTailProperties
<1>5. Len(y) = l /\ \A k \in 1 .. l : y[k] = x[k + 1]
  <2>1. Len(Tail(x)) = Len(x) - 1 /\ \A k \in 1 .. Len(Tail(x)) : Tail(x)[k] = x[k + 1]
    BY <1>3, HeadTailProperties
  <2>2. Len(y) = Len(x) - 1 /\ \A k \in 1 .. Len(y) : y[k] = x[k + 1]
    BY <1>4, <2>1, Zenon
  <2>3. Len(x) - 1 = l
    BY <1>1, <1>3
  <2> QED
    BY <2>2, <2>3
<1>6. \A k \in 1 .. l : y[k] = t[i + k]
  <2> SUFFICES ASSUME NEW k \in 1 .. l
               PROVE  y[k] = t[i + k]
    OBVIOUS
  <2>1. k + 1 \in 1 .. m /\ i + (k + 1) - 1 = i + k
    BY <1>1
  <2>2. x[k + 1] = t[i + (k + 1) - 1]
    BY <1>2, <2>1 DEF IsPart
  <2> QED
    BY <1>5, <2>1, <2>2
<1> QED
  BY <1>1, <1>2, <1>3, <1>4, <1>5, <1>6, Zenon DEF IsMentioned

\* What is mentioned is called.
LEMMA MentionCalls ==
  ASSUME NEW S, Alphabet(S), NEW t \in Seq(S), NEW m \in Mentions(t)
  PROVE  CalledBy(S, t, Tail(m))
<1>1. PICK n \in Nat : n = Len(t)
  BY LenProperties
<1>2. PICK i \in 1 .. n - 1 : /\ t[i] = "@" /\ t[i + 1] \in Letters
                              /\ m = SubSeq(t, i, EndOfMention(t, i))
  BY <1>1 DEF Mentions
<1>3. PICK j \in i + 1 .. n : /\ j = EndOfMention(t, i)
                              /\ \A k \in i + 1 .. j : t[k] \in Name
                              /\ j < n => t[j + 1] \notin Name
  BY <1>1, <1>2, EndOfMentionIs
<1>4. PICK l \in Nat : l # 0 /\ i + l = j /\ i \in 1 .. n /\ i + l <= n
  <2>1. j - i \in Nat /\ j - i # 0 /\ i + (j - i) = j /\ i \in 1 .. n /\ j <= n
    BY <1>1, <1>2, <1>3, SMTT(40)
  <2> QED
    BY <2>1
<1>5. PICK w \in Seq(S) : IsMentioned(t, i, w, l, m)
  <2>1. m = SubSeq(t, i, i + l)
    BY <1>2, <1>3, <1>4
  <2> QED
    BY <1>1, <1>4, <2>1, TailIs
<1>6. w = Tail(m) /\ Len(w) = l /\ \A k \in 1 .. l : w[k] = t[i + k]
  BY <1>5, Zenon DEF IsMentioned
<1>7. IsName(w)
  <2>1. \A k \in 1 .. l : w[k] \in Name
    <3> SUFFICES ASSUME NEW k \in 1 .. l
                 PROVE  w[k] \in Name
      OBVIOUS
    <3>1. i + k \in i + 1 .. j
      BY <1>1, <1>4
    <3> QED
      BY <1>3, <1>6, <3>1
  <2>2. PICK v : v = [k \in 1 .. l |-> w[k]] /\ v = w
    BY <1>6, LenProperties
  <2>3. w \in Seq(Name)
    <3>1. v \in Seq(Name)
      BY <2>1, <2>2, SMTT(40)
    <3> QED
      BY <2>2, <3>1
  <2>4. w # <<>> /\ Head(w) = w[1] /\ 1 \in 1 .. l
    BY <1>4, <1>6
  <2>5. Head(w) \in Letters
    BY <1>2, <1>6, <2>4
  <2> QED
    BY <2>3, <2>4, <2>5 DEF IsName
<1>8. IsCall(t, n, i, w, l)
  <2>1. i + l < n => t[i + l + 1] \notin Name
    BY <1>3, <1>4
  <2> QED
    BY <1>2, <1>4, <1>6, <2>1 DEF IsCall
<1>9. i \in Nat /\ l = Len(w)
  BY <1>4, <1>6
<1> QED
  BY <1>1, <1>6, <1>7, <1>8, <1>9, SomewhereIsCalled

\* What is called is mentioned there.
LEMMA CallMentions ==
  ASSUME NEW S, Alphabet(S), NEW t \in Seq(S), NEW w, IsName(w), NEW n \in Nat, n = Len(t),
         NEW l \in Nat, l = Len(w), NEW i \in Nat, IsCall(t, n, i, w, l)
  PROVE  \E m \in Mentions(t) : IsMentioned(t, i, w, l, m)
<1>1. /\ i \in 1 .. n /\ i + l <= n /\ t[i] = "@"
      /\ \A k \in 1 .. l : t[i + k] = w[k]
      /\ i + l < n => t[i + l + 1] \notin Name
  BY DEF IsCall
<1>2. w \in Seq(S) /\ w \in Seq(Name) /\ l # 0 /\ Head(w) = w[1]
  <2>1. w \in Seq(S) /\ w \in Seq(Name) /\ w # <<>>
    BY EncodeName DEF IsName
  <2> QED
    BY <2>1, EmptySeq
<1>3. i \in 1 .. Len(t) - 1 /\ t[i + 1] \in Letters
  BY <1>1, <1>2 DEF IsName
<1>4. PICK j \in i + 1 .. n : /\ j = EndOfMention(t, i)
                              /\ \A k \in i + 1 .. j : t[k] \in Name
                              /\ j < n => t[j + 1] \notin Name
  BY <1>3, EndOfMentionIs
<1>5. j = i + l
  <2>1. ~(j < i + l)
    <3> SUFFICES ASSUME j < i + l PROVE FALSE
      OBVIOUS
    <3>1. PICK k \in 1 .. l : j + 1 = i + k
      <4>1. j + 1 - i \in 1 .. l /\ j + 1 = i + (j + 1 - i)
        BY <1>4
      <4> QED
        BY <4>1
    <3>2. w[k] \in Name
      BY <1>2, ElementOfSeq
    <3>3. j < n
      BY <1>1, <1>4
    <3> QED
      BY <1>1, <1>4, <3>1, <3>2, <3>3
  <2>2. ~(j > i + l)
    BY <1>1, <1>4
  <2> QED
    BY <1>4, <2>1, <2>2, SMTT(40)
<1>6. PICK m : m = SubSeq(t, i, i + l)
  OBVIOUS
<1>7. PICK v \in Seq(S) : IsMentioned(t, i, v, l, m)
  BY <1>1, <1>6, TailIs
<1>8. v = w
  <2>1. Len(v) = l /\ \A k \in 1 .. l : v[k] = w[k]
    BY <1>1, <1>7 DEF IsMentioned
  <2> QED
    BY <1>2, <2>1, SeqEqual
<1>9. m \in Mentions(t)
  BY <1>1, <1>3, <1>4, <1>5, <1>6 DEF Mentions
<1> QED
  BY <1>7, <1>8, <1>9

\* A user referred to is the owner of a word replaced somewhere in the text.
LEMMA ResolvedAreHit ==
  ASSUME NEW t \in Seq(Speech), NEW known \in SUBSET Users, NEW owner, NEW x, NEW c,
         SentFor(t, known, owner, x, c), NEW n, n = Len(Encode(t))
  PROVE  \A u \in Resolved(x) : \E k \in 1 .. n : u \in Hit(c, k)
<1>1. Resolved(x) = UNION {Hit(c, k) : k \in 1 .. n}
  BY SentComesBack
<1> QED
  BY <1>1, Zenon

\* Who is referred to is called by his nick, and it is he whom that is found for.
LEMMA ResolvedAreCalled ==
  ASSUME NEW t \in Seq(Speech), NEW known \in SUBSET Users, NEW owner, NEW x, NEW c,
         SentFor(t, known, owner, x, c), NEW u, u \in Resolved(x)
  PROVE  Nick[u] \in Called(t) /\ Nick[u] \in DOMAIN owner /\ owner[Nick[u]] = u
<1>1. PICK e \in Seq(Speech), n \in Nat : e = Encode(t) /\ n = Len(e)
  BY SpeechIs, EncodeType, LenProperties
<1>2. Mentioning(Speech, known, c) /\ c.text = e /\ c.owner = owner
  BY <1>1, Zenon DEF SentFor
<1>3. n = Len(Encode(t))
  BY <1>1
<1>4. PICK k \in 1 .. n : u \in Hit(c, k)
  BY <1>3, ResolvedAreHit, Zenon
<1>5. FirstAt(c, k) # 0 /\ u \in OwnerOf(owner, WordAt(c, k))
  BY <1>2, <1>4 DEF Hit
<1>6. WordAt(c, k) \in Mentions(c.text) /\ ~Stale(Tail(WordAt(c, k)), c.owner)
  BY <1>1, <1>2, <1>5, WordAtIs
<1>7. PICK m \in Mentions(e) : m = WordAt(c, k) /\ ~Stale(Tail(m), owner)
  BY <1>2, <1>6
<1>8. Tail(m) \in DOMAIN owner /\ u = owner[Tail(m)]
  BY <1>5, <1>7 DEF OwnerOf
<1>9. Nick[u] = Tail(m)
  BY <1>7, <1>8, Zenon DEF Stale
<1>10. CalledBy(Speech, e, Tail(m))
  BY SpeechIs, MentionCalls
<1>11. CalledBy(Speech, Encode(t), Nick[u])
  BY <1>1, <1>9, <1>10, Zenon
<1>12. Nick[u] \in Called(t)
  BY <1>11, SpeechIs, EncodeCalls, CalledIs
<1> QED
  BY <1>8, <1>9, <1>12, Zenon

\* Whom a word that is called is found for is referred to, if no other word that is
\* called begins it.
LEMMA CalledAreResolved ==
  ASSUME NEW t \in Seq(Speech), NEW known \in SUBSET Users, NEW owner, NEW x, NEW c,
         SentFor(t, known, owner, x, c), NEW w \in DOMAIN owner, w \in Called(t),
         \A v \in Called(t) : ~IsStrictPrefix(v, w)
  PROVE  owner[w] \in Resolved(x)
<1>1. PICK e \in Seq(Speech), n \in Nat : e = Encode(t) /\ n = Len(e)
  BY SpeechIs, EncodeType, LenProperties
<1>2. Mentioning(Speech, known, c) /\ c.text = e /\ c.owner = owner
  BY <1>1, Zenon DEF SentFor
<1>3. Resolved(x) = UNION {Hit(c, k) : k \in 1 .. n}
  BY <1>1, SentComesBack
<1>4. CalledBy(Speech, e, w)
  <2>1. CalledBy(Speech, t, w)
    BY SpeechIs, CalledIs
  <2> QED
    BY <1>1, <2>1, SpeechIs, EncodeCalls
<1>5. IsName(w) /\ w \in Seq(Speech)
  BY <1>4, SpeechIs, EncodeName DEF CalledBy, IsName
<1>6. PICK l \in Nat : l = Len(w)
  BY <1>5, LenProperties
<1>7. PICK i \in Nat : IsCall(e, n, i, w, l)
  BY <1>1, <1>4, <1>6, SpeechIs, CallIsSomewhere
<1>8. /\ i \in 1 .. n /\ i + l <= n
      /\ \A k \in 1 .. l : e[i + k] = w[k]
      /\ i + l < n => e[i + l + 1] \notin Name
  BY <1>7 DEF IsCall
<1>9. PICK m \in Mentions(e) : IsMentioned(e, i, w, l, m)
  BY <1>1, <1>5, <1>6, <1>7, SpeechIs, CallMentions
<1>10. FirstAt(c, i) # 0
  <2>1. PICK M : M = Mentions(e)
    OBVIOUS
  <2>2. c.order \in Seq(M) /\ \E k \in 1 .. Len(c.order) : c.order[k] = m
    BY <1>2, <1>9, <2>1, OrdersType DEF Mentioning
  <2>3. At(e, i, m)
    <3>1. i + Len(m) - 1 = i + l /\ m = SubSeq(e, i, i + l)
      BY <1>9 DEF IsMentioned
    <3> QED
      BY <1>1, <1>8, <3>1, Zenon DEF At
  <2>4. \A j \in 1 .. Len(c.order) : At(c.text, i, c.order[j]) => FirstAt(c, i) # 0
    BY <2>2, FirstAtIs
  <2> QED
    BY <1>2, <2>2, <2>3, <2>4, Zenon
<1>11. PICK v : v = WordAt(c, i)
  OBVIOUS
<1>12. v \in Mentions(e) /\ v \in Seq(Speech) /\ \E d \in Nat : IsWordAt(c, i, n, d)
  BY <1>1, <1>2, <1>8, <1>10, <1>11, WordAtIs
<1>13. PICK d \in Nat : IsWordAt(c, i, n, d)
  BY <1>12
<1>14. /\ d >= 2 /\ i + d <= n + 1 /\ v = SubSeq(e, i, i + d - 1)
       /\ \A k \in i + 1 .. i + d - 1 : e[k] \in Name
  BY <1>2, <1>11, <1>13, Zenon DEF IsWordAt
<1>15. PICK h \in Nat : h + 1 = d /\ i + h = i + d - 1 /\ i + h <= n
  <2>1. d - 1 \in Nat /\ (d - 1) + 1 = d /\ i + (d - 1) = i + d - 1 /\ i + (d - 1) <= n
    BY <1>14
  <2> QED
    BY <2>1
<1>16. PICK z \in Seq(Speech) : IsMentioned(e, i, z, h, v)
  <2>1. v = SubSeq(e, i, i + h)
    BY <1>14, <1>15
  <2> QED
    BY <1>1, <1>8, <1>15, <2>1, TailIs
<1>17. z = Tail(v) /\ Len(z) = h /\ \A k \in 1 .. h : z[k] = e[i + k]
  BY <1>16, Zenon DEF IsMentioned
<1>18. z \in Called(t)
  <2>1. CalledBy(Speech, e, Tail(v))
    BY <1>12, SpeechIs, MentionCalls
  <2>2. CalledBy(Speech, Encode(t), z)
    BY <1>1, <1>17, <2>1, Zenon
  <2> QED
    BY <2>2, SpeechIs, EncodeCalls, CalledIs
<1>19. ~(h > l)
  <2> SUFFICES ASSUME h > l PROVE FALSE
    OBVIOUS
  <2>1. i + l + 1 \in i + 1 .. i + d - 1 /\ i + l < n
    BY <1>6, <1>8, <1>15
  <2> QED
    BY <1>8, <1>14, <2>1
<1>20. \A k \in 1 .. h : z[k] = w[k]
  <2> SUFFICES ASSUME NEW k \in 1 .. h
               PROVE  z[k] = w[k]
    OBVIOUS
  <2>1. k \in 1 .. l
    BY <1>6, <1>15, <1>19
  <2> QED
    BY <1>8, <1>17, <2>1
<1>21. z = w
  <2>1. IsPrefix(z, w)
    <3>1. PICK y \in Seq(Speech) : y = SubSeq(w, 1, h) /\ IsPart(y, w, 1, h)
      <4>1. 1 \in Nat /\ 1 # 0 /\ h <= Len(w) /\ 1 + h = h + 1
        BY <1>6, <1>19
      <4> QED
        BY <1>5, <4>1, PartIs
    <3>2. \A k \in 1 .. h : y[k] = z[k]
      <4> SUFFICES ASSUME NEW k \in 1 .. h
                   PROVE  y[k] = z[k]
        OBVIOUS
      <4>1. 1 + k - 1 = k
        OBVIOUS
      <4>2. y[k] = w[1 + k - 1]
        BY <3>1 DEF IsPart
      <4> QED
        BY <1>20, <4>1, <4>2
    <3>3. y = z
      <4>1. Len(y) = h
        BY <3>1 DEF IsPart
      <4> QED
        BY <1>17, <3>2, <4>1, SeqEqual
    <3>4. SubSeq(z, 1, Len(z)) = z
      BY SubSeqFull
    <3>5. Len(z) <= Len(w)
      BY <1>6, <1>17, <1>19
    <3> QED
      BY <1>17, <3>1, <3>3, <3>4, <3>5, Zenon DEF IsPrefix
  <2> QED
    BY <1>18, <2>1, Zenon DEF IsStrictPrefix
<1>22. owner[w] \in Hit(c, i)
  <2>1. Tail(WordAt(c, i)) = w
    BY <1>11, <1>17, <1>21
  <2>2. owner[w] \in OwnerOf(owner, WordAt(c, i))
    BY <2>1 DEF OwnerOf
  <2> QED
    BY <1>2, <1>10, <2>2 DEF Hit
<1> QED
  BY <1>3, <1>8, <1>22

\* Whomever a word that a line calls is found for is referred to in what Slack is
\* sent for the line, but for a word that begins with another that it calls; and
\* nobody else is.
THEOREM MentionsExact ==
  ASSUME NEW t \in Seq(Speech), NEW owner, OwnersAre(Users, owner),
         ~MentionIsStale(t, owner), NEW x \in UnparseMessageText(t, owner)
  PROVE  /\ \A w \in Called(t) \cap DOMAIN owner :
              (\E v \in Called(t) : IsStrictPrefix(v, w)) \/ owner[w] \in Resolved(x)
         /\ \A u \in Resolved(x) :
              Nick[u] \in Called(t) /\ Nick[u] \in DOMAIN owner /\ owner[Nick[u]] = u
<1>1. PICK known \in SUBSET Users : known = Users
  OBVIOUS
<1>2. PICK c : SentFor(t, known, owner, x, c)
  BY <1>1, UnparseIs
<1>3. ASSUME NEW w \in DOMAIN owner, w \in Called(t),
             ~\E v \in Called(t) : IsStrictPrefix(v, w)
      PROVE  owner[w] \in Resolved(x)
  BY <1>2, <1>3, CalledAreResolved
<1>4. \A u \in Resolved(x) :
        Nick[u] \in Called(t) /\ Nick[u] \in DOMAIN owner /\ owner[Nick[u]] = u
  BY <1>2, ResolvedAreCalled
<1> QED
  BY <1>3, <1>4, Zenon

\* Slack tells who the line calls of what it was sent.
LEMMA SentReaches ==
  ASSUME FlowTypes, Sent
  PROVE  MentionsReach
<1> SUFFICES ASSUME posted # None
             PROVE  MentionsReach
  BY Zenon DEF MentionsReach
<1>1. PICK m : m = StringToMessage(line)
  OBVIOUS
<1>2. PICK pre \in Seq(Solid(Speech)), target \in Seq(Speech), text \in Seq(Speech) :
        /\ SentAs(ParseMessage(m), pre, target, text, posted.conv)
        /\ ~MentionIsStale(text, Owner)
        /\ posted.text \in UnparseMessageText(text, Owner)
  BY <1>1, Zenon DEF Sent
<1>3. m.params[2] = text
  <2>1. ParseMessage(m) = Privmsg(pre, target, text) /\ text # <<>>
    BY <1>2, Zenon DEF SentAs
  <2>2. PICK r : r = ParseMessage(m)
    OBVIOUS
  <2>3. r.params[2] = text
    BY <2>1, <2>2, PrivmsgParts
  <2>4. r.params[2] = IF Len(m.params) > 1 THEN m.params[2] ELSE <<>>
    <3>1. PICK p, q : p = UserString(m.prefix) 
                      /\ q = IF Len(m.params) > 1 THEN m.params[2] ELSE <<>>
      OBVIOUS
    <3>2. r = Privmsg(p, m.params[1], q)
      BY <2>2, <3>1, Zenon DEF ParseMessage
    <3> QED
      BY <3>1, <3>2, PrivmsgParts
  <2> QED
    BY <2>1, <2>3, <2>4
<1>4. OwnersAre(Users, Owner)
  BY OwnerType DEF OwnersAre, FlowTypes
<1>5. PICK called : called = Called(StringToMessage(line).params[2])
  OBVIOUS
<1>6. called = Called(text)
  BY <1>1, <1>3, <1>5, Zenon
<1>7. PICK x : x = posted.text
  OBVIOUS
<1>8. \A w \in called \cap DOMAIN Owner :
        (\E v \in called : IsStrictPrefix(v, w)) \/ Owner[w] \in Resolved(x)
  BY <1>2, <1>4, <1>6, <1>7, MentionsExact
<1>9. \A u \in Resolved(x) :
        Nick[u] \in called /\ Nick[u] \in DOMAIN Owner /\ Owner[Nick[u]] = u
  BY <1>2, <1>4, <1>6, <1>7, MentionsExact
<1>10. \A u \in Resolved(x) : Nick[u] \in called /\ <<u>> = GetUserFromNick(Nick[u])
  BY <1>9, Zenon DEF GetUserFromNick
<1> QED
  BY <1>5, <1>7, <1>8, <1>10, Zenon DEF MentionsReach

\* Whatever is said, whoever is known, whoever shares a nick and whatever order the
\* mentions are replaced in: Slack tells those the nicks the line calls are found
\* for, and nobody else, but for the ambiguity of a word that begins another.
THEOREM AllMentionsReach == Spec => []MentionsReach
<1>1. FlowTypes /\ Sent => MentionsReach
  BY SentReaches
<1> QED
  BY <1>1, FlowTypesInvariant, SentInvariant, PTL

(***************************************************************************)
(* When the process ends                                                   *)
(***************************************************************************)

\* A text of atoms has no panic.
LEMMA NoPanic ==
  ASSUME NEW s \in Seq(Atoms)
  PROVE  ~Contains(s, Panic[1])
<1>1. Panic[1] \notin Atoms
  BY DEF Atoms
<1>2. \A k \in 1 .. Len(s) : s[k] \in Atoms
  BY ElementOfSeq
<1> QED
  BY <1>1, <1>2 DEF Contains

\* The atoms have all that texts of Slack are made of.
LEMMA AtomsAreWhole == Whole(Atoms) /\ Atoms \ {"\n"} \subseteq Atoms
  BY DEF Whole, Atoms

\* A topic that cannot be shown has a reference to nothing.
LEMMA TopicPanics ==
  ASSUME FlowTypes, NEW c, NEW known \in SUBSET Users,
         Contains(GetChannelTopic(c, known), Panic[1])
  PROVE  \E k \in channelInfo : c = <<k>> /\ ToNothing(Topic[k])
<1> SUFFICES ASSUME \A k \in channelInfo : c = <<k>> => ~ToNothing(Topic[k])
             PROVE  FALSE
  OBVIOUS
<1>1. \A k \in channelInfo : Topic[k] \in Seq(Atoms)
  BY WorldAssumption DEF FlowTypes
<1>2. \A k \in channelInfo : c = <<k>> => Showable(Atoms, Topic[k])
  BY <1>1 DEF Showable
<1>3. GetChannelTopic(c, known) \in Seq(Atoms \ {"\n"})
  BY <1>2, AtomsAreWhole, TopicType
<1>4. GetChannelTopic(c, known) \in Seq(Atoms)
  BY <1>3, AtomsAreWhole, SeqMonotonic
<1> QED
  BY <1>4, NoPanic

\* Of an event that cannot be shown, a text or an attachment has one.
LEMMA EventPanics ==
  ASSUME NEW e \in SlackEvents, NEW known \in SUBSET Users,
         NEW i \in DOMAIN EventMessages(e, known),
         Contains(EventMessages(e, known)[i].params[2], Panic[1])
  PROVE  \E t \in {e.text} \cup ToSet(e.fallbacks) : ToNothing(t)
<1> SUFFICES ASSUME \A t \in {e.text} \cup ToSet(e.fallbacks) : ~ToNothing(t)
             PROVE  FALSE
  OBVIOUS
<1>1. ShowableEvent(Atoms, e)
  <2>1. e.text \in Seq(Atoms) /\ e.fallbacks \in Seq(Seq(Atoms))
    BY WorldAssumption
  <2>2. \A t \in ToSet(e.fallbacks) : t \in Seq(Atoms)
    BY <2>1, LenProperties, ElementOfSeq DEF ToSet
  <2> QED
    BY <2>1, <2>2 DEF ShowableEvent, Showable
<1>2. PICK s \in Seq(ToldOf(Atoms)) : s = EventMessages(e, known)
  BY <1>1, AtomsAreWhole, EventMessagesType
<1>3. s[i] \in ToldOf(Atoms)
  BY <1>2, ElementOfSeq, LenProperties
<1>4. PICK p \in Seq(Seq(Atoms)) : p = s[i].params /\ Len(p) = 2
  BY <1>3 DEF ToldOf, MessagesOf
<1>5. p[2] \in Seq(Atoms)
  BY <1>4, ElementOfSeq
<1> QED
  BY <1>2, <1>4, <1>5, NoPanic

\* The cases of Survives.
ModeOfNothing == line # None /\ Parsed(StringToMessage(line), "MODE")
                 /\ StringToMessage(line).params[1] = <<>>
TopicToNothing ==
  /\ line # None
  /\ Parsed(StringToMessage(line), "TOPIC") \/ Parsed(StringToMessage(line), "JOIN")
  /\ \E c \in channelInfo : StringToMessage(line).params[1] = <<c>> /\ ToNothing(Topic[c])
NoSuchChannel ==
  /\ incoming # None
  /\ IsTargetChannel(incoming.params[1]) /\ ~ChannelExists(incoming.params[1])
TextToNothing ==
  event # None /\ \E t \in {event.text} \cup ToSet(event.fallbacks) : ToNothing(t)

StaleNameRead ==
  /\ line # None /\ ~Malformed(StringToMessage(line)) /\ reloading
  /\ StringToMessage(line).params # <<>> /\ StaleName(StringToMessage(line).params[1])
StaleNick ==
  /\ line # None
  /\ Parsed(StringToMessage(line), "WHOIS") \/ Parsed(StringToMessage(line), "PRIVMSG")
  /\ Stale(StringToMessage(line).params[1], Owner)
StaleMention ==
  /\ line # None /\ Parsed(StringToMessage(line), "PRIVMSG")
  /\ \E w \in Called(StringToMessage(line).params[2]) : Stale(w, Owner)

\* One of the cases.
Accounted == \/ ModeOfNothing \/ TopicToNothing \/ NoSuchChannel \/ TextToNothing
             \/ StaleNameRead \/ StaleNick \/ StaleMention

\* A MODE ends it only if it is of nothing.
LEMMA ModeSurvives ==
  ASSUME FlowTypes, NEW l \in ClientLines, Mode(l, StringToMessage(l)), panicked'
  PROVE  ModeOfNothing'
<1>1. line' = l
  BY Zenon DEF Mode, Read
<1>2. Parsed(StringToMessage(l), "MODE")
  BY Zenon DEF Mode
<1>3. StringToMessage(l).params[1] = <<>>
  BY Zenon DEF Mode
<1>4. l # None
  BY ReadType
<1> QED
  BY <1>1, <1>2, <1>3, <1>4, Zenon DEF ModeOfNothing

\* A topic asked for, only if it refers to nothing.
LEMMA TopicCmdSurvives ==
  ASSUME FlowTypes, ~panicked, NEW l \in ClientLines, TopicCmd(l, StringToMessage(l)),
         panicked'
  PROVE  TopicToNothing'
<1>1. PICK m : m = StringToMessage(l)
  OBVIOUS
<1>2. line' = l /\ channelInfo' = channelInfo /\ Parsed(m, "TOPIC")
  BY <1>1, Zenon DEF TopicCmd, Read, channelMaps
<1>3. \E known \in TopicResolved(m.params[1]) :
        Contains(GetChannelTopic(m.params[1], known), Panic[1])
  BY <1>1, Zenon DEF TopicCmd
<1>4. PICK known \in SUBSET Users : Contains(GetChannelTopic(m.params[1], known), Panic[1])
  BY <1>3, TopicResolvedType
<1>5. \E k \in channelInfo : m.params[1] = <<k>> /\ ToNothing(Topic[k])
  BY <1>4, TopicPanics
<1>6. l # None
  BY ReadType
<1> QED
  BY <1>1, <1>2, <1>5, <1>6, Zenon DEF TopicToNothing

\* A JOIN ends the process only for a topic with a reference to nothing.
LEMMA JoinCmdSurvives ==
  ASSUME FlowTypes, ~panicked, NEW l \in ClientLines, JoinCmd(l, StringToMessage(l)),
         panicked'
  PROVE  TopicToNothing'
<1>1. PICK m : m = StringToMessage(l)
  OBVIOUS
<1>2. line' = l /\ channelInfo' = channelInfo /\ Parsed(m, "JOIN")
  BY <1>1, Zenon DEF JoinCmd, Read, channelMaps
<1>3. PICK c : c = m.params[1]
  OBVIOUS
<1>4. ChannelExists(c)
  BY <1>1, <1>3, Zenon DEF JoinCmd
<1>5. PICK known \in TopicResolved(c) : \E told \in GetChannelUsers(c, known) :
        Joined(c, known, told)
  BY <1>1, <1>3, <1>4, JoinCmdIs
<1>6. Contains(GetChannelTopic(c, known), Panic[1])
  BY <1>5, Zenon DEF Joined
<1>7. \E k \in channelInfo : c = <<k>> /\ ToNothing(Topic[k])
  BY <1>5, <1>6, TopicPanics, TopicResolvedType
<1>8. l # None
  BY ReadType
<1> QED
  BY <1>1, <1>2, <1>3, <1>7, <1>8, Zenon DEF TopicToNothing

\* A PRIVMSG, only if it is to a channel there is not.
LEMMA SendToNoChannelSurvives ==
  ASSUME SendToNoChannel
  PROVE  NoSuchChannel'
<1>1. /\ incoming # None /\ Conversations = {} /\ incoming.params[2] # <<>>
      /\ IsTargetChannel(incoming.params[1])
      /\ UNCHANGED <<incoming, channelInfo, channelNameToIDMap>>
  BY Zenon DEF SendToNoChannel, client, channelMaps
<1>2. {c \in channelInfo : ChannelExists(incoming.params[1]) /\ incoming.params[1] = <<c>>} = {}
  BY <1>1, Zenon DEF Conversations
<1>3. ~ChannelExists(incoming.params[1])
  BY <1>2 DEF ChannelExists
<1> QED
  BY <1>1, <1>3, Zenon DEF NoSuchChannel, ChannelExists, IsTargetChannel

\* Only while the directory is reloaded a channel may have the name of another.
LEMMA StaleNameReloads ==
  ASSUME MapTypes, NEW c, StaleName(c)
  PROVE  reloading
  BY Zenon DEF MapTypes, StaleName

\* A line ends it in a lookup, only if what it looks up is stale.
LEMMA ReadStaleSurvives ==
  ASSUME MapTypes, NEW l \in ClientLines, ReadStale(l, StringToMessage(l))
  PROVE  StaleNameRead' \/ StaleNick'
<1>1. PICK m : m = StringToMessage(l)
  OBVIOUS
<1>2. LooksUpStale(m)
  BY <1>1, Zenon DEF ReadStale
<1>3. /\ line' = l
      /\ UNCHANGED <<userInfo, nickToUserMap, channelInfo, channelNameToIDMap, reloading>>
  BY Zenon DEF ReadStale, Read, userMaps, channelMaps
<1>4. l # None
  BY ReadType
<1>5. CASE Parsed(m, "WHOIS") /\ Stale(m.params[1], Owner)
  <2>1. Owner' = Owner
    BY <1>3, Zenon DEF Owner
  <2> QED
    BY <1>1, <1>3, <1>4, <1>5, <2>1, Zenon DEF StaleNick
<1>6. CASE ~Malformed(m) /\ m.params # <<>> /\ StaleName(m.params[1])
  <2>1. PICK c : c = m.params[1]
    OBVIOUS
  <2>2. reloading /\ StaleName(c)
    BY <1>6, <2>1, StaleNameReloads
  <2>3. reloading' /\ StaleName(c)'
    BY <1>3, <2>2, Zenon DEF StaleName
  <2> QED
    BY <1>1, <1>3, <1>4, <1>6, <2>1, <2>3, Zenon DEF StaleNameRead, StaleName
<1>7. Parsed(m, "JOIN") => m.params # <<>>
  BY <1>1, ReadType DEF Parsed
<1>8. Len(m.params) = 1 => m.params # <<>>
  BY EmptySeq
<1> QED
  BY <1>2, <1>5, <1>6, <1>7, <1>8, Zenon DEF LooksUpStale, Parsed

\* A mention is stale only if the word it calls is.
LEMMA StaleMentionCalls ==
  ASSUME NEW t \in Seq(Speech), NEW owner, MentionIsStale(t, owner)
  PROVE  \E w \in Called(t) : Stale(w, owner)
<1>1. PICK m \in Mentions(Encode(t)) : Reference(m, owner) = Panic
  BY DEF MentionIsStale
<1>2. PICK s \in Seq(Speech) : s = Encode(t)
  BY SpeechIs, EncodeType
<1>3. Len(m) # 1
  <2>1. m \in Seq(Speech) /\ IsMention(m)
    <3>1. m \in Mentions(s)
      BY <1>1, <1>2
    <3> QED
      BY <3>1, MentionIs
  <2>2. Len(m) \in Nat /\ Len(m) >= 2
    BY <2>1, LenProperties, Zenon DEF IsMention
  <2>3. PICK n \in Nat : n = Len(m) /\ n >= 2
    BY <2>2, Zenon
  <2>4. n # 1
    BY <2>3
  <2> QED
    BY <2>3, <2>4, Zenon
<1>4. Len(Panic) = 1 /\ Len(<<"<", "@", owner[Tail(m)], ">">>) # 1
  BY DEF Panic
<1>5. m # Panic /\ <<"<", "@", owner[Tail(m)], ">">> # Panic
  BY <1>3, <1>4, Zenon
<1>6. Stale(Tail(m), owner)
  BY <1>1, <1>5, Zenon DEF Reference
<1>7. CalledBy(Speech, Encode(t), Tail(m))
  BY <1>1, <1>2, SpeechIs, MentionCalls
<1>8. Tail(m) \in Called(t)
  BY <1>7, SpeechIs, EncodeCalls, CalledIs
<1> QED
  BY <1>6, <1>8

\* A PRIVMSG ends it in a lookup, only if its target or a word it calls is stale.
LEMMA SendStaleSurvives ==
  ASSUME FlowTypes, MapTypes, SendStale
  PROVE  StaleNameRead' \/ StaleNick' \/ StaleMention'
<1>1. PICK m : m = StringToMessage(line)
  OBVIOUS
<1>2. /\ incoming # None
      /\ TargetIsStale \/ (Conversations # {} /\ MentionIsStale(incoming.params[2], Owner))
      /\ UNCHANGED <<line, userInfo, nickToUserMap, channelInfo, channelNameToIDMap, reloading>>
  BY Zenon DEF SendStale, client, userMaps, channelMaps
<1>3. line # None /\ line \in ClientLines /\ Parsed(m, "PRIVMSG") /\ incoming = ParseMessage(m)
  BY <1>1, <1>2 DEF FlowTypes
<1>4. PICK target, text : target = m.params[1]
                          /\ text = IF Len(m.params) > 1 THEN m.params[2] ELSE <<>>
  OBVIOUS
<1>5. incoming.params[1] = target /\ incoming.params[2] = text
  <2>1. incoming = Privmsg(UserString(m.prefix), target, text)
    BY <1>3, <1>4, Zenon DEF ParseMessage
  <2> QED
    BY <2>1, PrivmsgParts
<1>6. m.params # <<>> /\ (Len(m.params) > 1 => m.params[2] \in Seq(Speech))
  BY <1>1, <1>3, ReadType DEF Parsed
<1>7. Owner' = Owner
  BY <1>2, Zenon DEF Owner
<1>8. CASE StaleName(target)
  <2>1. reloading' /\ StaleName(target)'
    BY <1>2, <1>8, StaleNameReloads, Zenon DEF StaleName
  <2> QED
    BY <1>1, <1>2, <1>3, <1>4, <1>6, <2>1, Zenon DEF StaleNameRead, StaleName, Parsed
<1>9. CASE Stale(target, Owner)
  BY <1>1, <1>2, <1>3, <1>4, <1>7, <1>9, Zenon DEF StaleNick
<1>10. CASE Conversations # {} /\ MentionIsStale(text, Owner)
  <2>1. text # <<>>
    BY <1>5, <1>10, Zenon DEF Conversations
  <2>2. text = m.params[2] /\ text \in Seq(Speech)
    BY <1>4, <1>6, <2>1
  <2>3. \E w \in Called(text) : Stale(w, Owner)
    BY <1>10, <2>2, StaleMentionCalls
  <2> QED
    BY <1>1, <1>2, <1>3, <1>7, <2>2, <2>3, Zenon DEF StaleMention
<1> QED
  BY <1>2, <1>5, <1>8, <1>9, <1>10, Zenon DEF TargetIsStale

\* An event, only if a text of it refers to nothing.
LEMMA EventSurvives ==
  ASSUME FlowTypes, NEW e \in SlackEvents, HandleMessageEvent(e), panicked'
  PROVE  TextToNothing'
<1>1. event' = e /\ e # None
  BY WorldAssumption, Zenon DEF HandleMessageEvent, Deliver
<1>2. PICK known \in Answered(userInfo \cup Sender(e), EventUsers(e)) :
        \E i \in DOMAIN EventMessages(e, known) :
          Contains(EventMessages(e, known)[i].params[2], Panic[1])
  BY Zenon DEF HandleMessageEvent
<1>3. known \in SUBSET Users
  <2>1. userInfo \cup Sender(e) \in SUBSET Users /\ EventUsers(e) \in SUBSET Users
    BY EventUsersType DEF FlowTypes, Sender
  <2> QED
    BY <1>2, <2>1, AnsweredType
<1>4. \E t \in {e.text} \cup ToSet(e.fallbacks) : ToNothing(t)
  BY <1>2, <1>3, EventPanics
<1> QED
  BY <1>1, <1>4, Zenon DEF TextToNothing

\* The other steps do not end it.
LEMMA OthersSurvive ==
  ASSUME ~panicked
  PROVE  /\ \A l, m : (ReadMalformed(l, m) \/ ReadPrivmsg(l, m) \/ Ping(l, m) \/ Who(l, m)
                       \/ Whois(l, m)) => ~panicked'
         /\ Welcome \/ Notice \/ RegenerateReverseMappings \/ SendNothing \/ SendPrivmsg
              \/ SendFails \/ Forget => ~panicked'
         /\ \A e : HandleUnresolvedSender(e) \/ HandleUnresolvedConversation(e) => ~panicked'
         /\ \A u, c : FileShared(u, c) => ~panicked'
<1>1. \A l, m : ReadMalformed(l, m) => panicked' = panicked
  BY Zenon DEF ReadMalformed
<1>2. \A l, m : ReadPrivmsg(l, m) => panicked' = panicked
  BY Zenon DEF ReadPrivmsg
<1>3. \A l, m : Ping(l, m) => panicked' = panicked
  BY Zenon DEF Ping
<1>4. \A l, m : Who(l, m) => panicked' = panicked
  BY Zenon DEF Who
<1>5. \A l, m : Whois(l, m) => panicked' = panicked
  BY Zenon DEF Whois
<1>6. Welcome \/ Notice \/ RegenerateReverseMappings \/ SendNothing \/ SendPrivmsg \/ SendFails
        \/ Forget => panicked' = panicked
  BY Zenon DEF Welcome, Notice, RegenerateReverseMappings, SendNothing, SendPrivmsg, SendFails, Forget
<1>7. \A e : HandleUnresolvedSender(e) \/ HandleUnresolvedConversation(e)
        => panicked' = panicked
  BY Zenon DEF HandleUnresolvedSender, HandleUnresolvedConversation, Drop
<1>8. \A u, c : FileShared(u, c) => panicked' = panicked
  BY Zenon DEF FileShared, Drop
<1> QED
  BY <1>1, <1>2, <1>3, <1>4, <1>5, <1>6, <1>7, <1>8

\* The process ends in the cases Survives lists only, whatever is said and however
\* stale the inverse maps are.
THEOREM SurvivesAll == Spec => []Survives
<1>1. Init => Survives
  BY Zenon DEF Init, Survives
<1>2. ASSUME FlowTypes, MapTypes, Survives, [Next]_vars
      PROVE  Survives'
  <2>1. CASE UNCHANGED vars
    <3>1. UNCHANGED <<line, incoming, event, panicked, userInfo, nickToUserMap, channelInfo,
                      channelNameToIDMap, reloading>>
      BY <2>1, Zenon DEF vars, client, userMaps, channelMaps
    <3> QED
      BY <1>2, <3>1, ZenonT(60) DEF Survives, ChannelExists, IsTargetChannel, StaleName, Owner
  <2>2. CASE Next /\ panicked'
    <3>1. ~panicked
      BY <2>2, NextIs, Zenon DEF Idle, RegenerateReverseMappings, SendNothing, SendToNoChannel,
                                 SendStale, SendPrivmsg, SendFails, Route, Forget
    <3>2. Accounted'
      <4>1. ASSUME NEW l \in ClientLines, Command(l, StringToMessage(l))
            PROVE  Accounted'
        <5>1. \/ Mode(l, StringToMessage(l)) \/ TopicCmd(l, StringToMessage(l))
              \/ JoinCmd(l, StringToMessage(l)) \/ ReadStale(l, StringToMessage(l))
          BY <2>2, <3>1, <4>1, OthersSurvive, Zenon DEF Command
        <5>2. Mode(l, StringToMessage(l)) => ModeOfNothing'
          BY <1>2, <2>2, ModeSurvives
        <5>3. TopicCmd(l, StringToMessage(l)) => TopicToNothing'
          BY <1>2, <2>2, <3>1, TopicCmdSurvives
        <5>4. JoinCmd(l, StringToMessage(l)) => TopicToNothing'
          BY <1>2, <2>2, <3>1, JoinCmdSurvives
        <5>5. ReadStale(l, StringToMessage(l)) => StaleNameRead' \/ StaleNick'
          BY <1>2, ReadStaleSurvives
        <5> QED
          BY <5>1, <5>2, <5>3, <5>4, <5>5, Zenon DEF Accounted
      <4>2. ASSUME NEW e \in SlackEvents, Event(e)
            PROVE  TextToNothing'
        BY <1>2, <2>2, <3>1, <4>2, Zenon, OthersSurvive, EventSurvives DEF Event
      <4>3. SendToNoChannel => NoSuchChannel'
        BY SendToNoChannelSurvives
      <4>4. SendStale => StaleNameRead' \/ StaleNick' \/ StaleMention'
        BY <1>2, SendStaleSurvives
      <4> QED
        BY <2>2, <3>1, <4>1, <4>2, <4>3, <4>4, NextIs, OthersSurvive, Zenon DEF Accounted
    <3> QED
      BY <3>2, Zenon
         DEF Survives, Accounted, ModeOfNothing, TopicToNothing, NoSuchChannel, TextToNothing,
             ToNothing, StaleNameRead, StaleNick, StaleMention, Parsed
  <2>3. CASE ~panicked'
    BY <2>3, Zenon DEF Survives
  <2> QED
    BY <1>2, <2>1, <2>2, <2>3
<1> QED
  BY <1>1, <1>2, FlowTypesInvariant, MapsInvariant, PTL DEF Spec
=============================================================================
