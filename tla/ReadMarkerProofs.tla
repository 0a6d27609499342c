--------------------------- MODULE ReadMarkerProofs ---------------------------
(***************************************************************************)
(* Debounced, ResetDrops and CursorAdvances of ReadMarker, for any number  *)
(* of conversations, posts and ticks.                                      *)
(*                                                                         *)
(* The argument: while the goroutine of t sleeps and the map points at t,  *)
(* t is the last post of its conversation, so the next one can only be     *)
(* made after t's goroutine has looked, and looks itself a full delay      *)
(* later.  A call of t that is answered after that one's has been under    *)
(* way for the delay at least.                                             *)
(***************************************************************************)
EXTENDS ReadMarker, TLAPS

\* The goroutine of t has looked at the map.
Looked(t) == marker[t] \notin {"unborn", "sleeping"}

\* The clock: goroutines start in the past, sleep for the delay, and call.
Timing ==
  \A t \in Stamps :
    /\ started[t] <= now
    /\ Looked(t) => /\ started[t] + Delay <= checked[t]
                    /\ checked[t] <= now

\* What the map points at is the last post of its conversation.
Latest ==
  \A t \in Stamps :
    marker[t] = "sleeping" /\ cursorMap[target[t]] = t =>
      /\ t > cleared
      /\ \A u \in Stamps : t < u /\ u <= posted => target[u] # target[t]

\* After a goroutine that calls, posts are no earlier than its look.
Ordered ==
  \A t, u \in Stamps :
    t < u /\ u <= posted /\ target[t] = target[u] /\ Called(t)
      => started[u] >= checked[t]

\* Slack's cursor is a post whose call has ended.
Served ==
  \A c \in Conversations :
    readCursor[c] # 0 => /\ target[readCursor[c]] = c
                         /\ marker[readCursor[c]] = "marked"

MarkerInv == TypeOK /\ Timing /\ Latest /\ Ordered /\ Served

\* Initially nothing has been posted.
LEMMA InitOK == Init => MarkerInv
  BY BoundsAssumption
  DEF Init, MarkerInv, TypeOK, Timing, Latest, Ordered, Served, Looked,
      Called, Stamps

\* The types are preserved.
LEMMA TypeStep == TypeOK /\ [Next]_vars => TypeOK'
<1> SUFFICES ASSUME TypeOK, [Next]_vars PROVE TypeOK'
  OBVIOUS
<1> USE BoundsAssumption DEF TypeOK
<1>1. ASSUME NEW t \in Stamps, MarkConversation(t) PROVE TypeOK'
  <2> USE <1>1 DEF MarkConversation
  <2>1. posted' \in 0 .. MaxPosts /\ cleared' \in 0 .. posted' /\ now' \in Nat
    BY DEF Stamps
  <2>2. cursorMap' \in [Conversations -> 0 .. MaxPosts]
    BY DEF Stamps
  <2>3. /\ marker' \in [Stamps -> {"unborn", "sleeping", "calling", "marked",
                                   "failed", "dropped"}]
        /\ started' \in [Stamps -> Nat]
    OBVIOUS
  <2>4. ASSUME NEW u \in Stamps PROVE marker'[u] = "unborn" <=> u > posted'
    <3>1. posted' = t /\ t = posted + 1 /\ u \in Nat /\ posted \in Nat
      BY DEF Stamps
    <3>2. CASE u = t
      BY <3>1, <3>2
    <3>3. CASE u # t
      <4>1. u > posted' <=> u > posted
        BY <3>1, <3>3
      <4>2. marker'[u] = marker[u]
        BY <3>3
      <4> QED BY <4>1, <4>2
    <3> QED BY <3>2, <3>3
  <2> QED
    BY <2>1, <2>2, <2>3, <2>4
<1>2. ASSUME NEW t \in Stamps, MarkConversationDelayed(t) PROVE TypeOK'
  BY <1>2 DEF MarkConversationDelayed
<1>3. ASSUME NEW t \in Stamps, Marked(t) PROVE TypeOK'
  <2> USE <1>3 DEF Marked
  <2>1. readCursor' \in [Conversations -> 0 .. MaxPosts]
    BY DEF Stamps
  <2>2. /\ marker' \in [Stamps -> {"unborn", "sleeping", "calling", "marked",
                                   "failed", "dropped"}]
        /\ \A u \in Stamps : marker'[u] = "unborn" <=> u > posted'
    OBVIOUS
  <2> QED
    BY <2>1, <2>2
<1>4. ASSUME NEW t \in Stamps, MarkFails(t) PROVE TypeOK'
  BY <1>4 DEF MarkFails
<1>5. CASE Reset
  BY <1>5 DEF Reset, goroutines
<1>6. CASE Tick
  BY <1>6 DEF Tick, goroutines
<1>7. CASE UNCHANGED vars
  BY <1>7 DEF vars
<1> QED
  BY <1>1, <1>2, <1>3, <1>4, <1>5, <1>6, <1>7 DEF Next, Wake, Answer

\* A step that posts nothing and starts no call preserves Latest and Ordered.
LEMMA CallFrame ==
  ASSUME Latest, Ordered,
         UNCHANGED <<posted, cursorMap, target, started, checked, cleared>>,
         \A t \in Stamps : /\ marker'[t] = "sleeping" => marker[t] = "sleeping"
                           /\ Called(t)' => Called(t)
  PROVE  Latest' /\ Ordered'
  BY DEF Latest, Ordered

\* A step that ends no call and leaves what is marked as it is preserves Served.
LEMMA ServedFrame ==
  ASSUME TypeOK, Served, readCursor' = readCursor,
         \A u \in Stamps : marker[u] = "marked" =>
            marker'[u] = "marked" /\ target'[u] = target[u]
  PROVE  Served'
<1> SUFFICES ASSUME NEW c \in Conversations, readCursor[c] # 0
             PROVE  /\ target'[readCursor[c]] = c
                    /\ marker'[readCursor[c]] = "marked"
  BY DEF Served
<1>1. readCursor[c] \in Stamps BY BoundsAssumption DEF TypeOK, Stamps
<1>2. target[readCursor[c]] = c /\ marker[readCursor[c]] = "marked"
  BY DEF Served
<1> QED BY <1>1, <1>2

\* The invariant is inductive.
LEMMA StepOK == MarkerInv /\ [Next]_vars => MarkerInv'
<1> SUFFICES ASSUME MarkerInv, [Next]_vars PROVE MarkerInv'
  OBVIOUS
<1>0. TypeOK /\ TypeOK' /\ Timing /\ Latest /\ Ordered /\ Served
  BY TypeStep DEF MarkerInv
<1> USE BoundsAssumption, <1>0 DEF TypeOK
<1>1. ASSUME NEW t \in Stamps, MarkConversation(t) PROVE MarkerInv'
  <2> USE <1>1 DEF MarkConversation
  <2>1. Timing'
    BY DEF Timing, Looked
  <2>2. Latest'
    <3> SUFFICES ASSUME NEW u \in Stamps, marker'[u] = "sleeping",
                        cursorMap'[target[u]] = u
                 PROVE  /\ u > cleared
                        /\ \A v \in Stamps :
                             u < v /\ v <= posted' => target[v] # target[u]
      BY DEF Latest
    <3>1. CASE u = t
      BY <3>1 DEF Stamps
    <3>2. CASE u # t
      <4>1. marker[u] = "sleeping" /\ target[u] # target[t]
        BY <3>2
      <4>2. cursorMap[target[u]] = u
        BY <4>1
      <4>3. \A v \in Stamps : v <= posted' => v <= posted \/ v = t
        BY DEF Stamps
      <4> QED
        BY <4>1, <4>2, <4>3 DEF Latest
    <3> QED
      BY <3>1, <3>2
  <2>3. Ordered'
    <3> SUFFICES ASSUME NEW u \in Stamps, NEW v \in Stamps,
                        u < v, v <= posted', target[u] = target[v], Called(u)'
                 PROVE  started'[v] >= checked[u]
      BY DEF Ordered
    <3>1. u # t /\ Called(u)
      BY DEF Called
    <3>2. CASE v = t
      BY <3>1, <3>2 DEF Timing, Looked, Called
    <3>3. CASE v # t
      <4>1. v <= posted /\ started'[v] = started[v]
        BY <3>3 DEF Stamps
      <4> QED
        BY <3>1, <4>1 DEF Ordered
    <3> QED
      BY <3>2, <3>3
  <2>4. Served'
    <3>1. \A u \in Stamps : marker[u] = "marked" => u # t
      BY DEF Stamps
    <3>2. \A u \in Stamps : u # t =>
            marker'[u] = marker[u] /\ target'[u] = target[u]
      OBVIOUS
    <3> QED
      BY <3>1, <3>2, ServedFrame
  <2> QED
    BY <2>1, <2>2, <2>3, <2>4 DEF MarkerInv
<1>2. ASSUME NEW t \in Stamps, MarkConversationDelayed(t) PROVE MarkerInv'
  <2> USE <1>2 DEF MarkConversationDelayed
  <2>1. Timing'
    BY DEF Timing, Looked
  <2>2. Latest'
    BY DEF Latest
  <2>3. Ordered'
    <3> SUFFICES ASSUME NEW u \in Stamps, NEW v \in Stamps,
                        u < v, v <= posted, target[u] = target[v], Called(u)'
                 PROVE  started[v] >= checked'[u]
      BY DEF Ordered
    <3>1. CASE u = t
      <4>1. cursorMap[target[t]] = t
        BY <3>1 DEF Called
      <4> QED
        BY <3>1, <4>1 DEF Latest
    <3>2. CASE u # t
      BY <3>2 DEF Ordered, Called
    <3> QED
      BY <3>1, <3>2
  <2>4. Served'
    <3>1. \A u \in Stamps : marker[u] = "marked" => marker'[u] = "marked"
      OBVIOUS
    <3> QED
      BY <3>1, ServedFrame
  <2> QED
    BY <2>1, <2>2, <2>3, <2>4 DEF MarkerInv
<1>3. ASSUME NEW t \in Stamps, Marked(t) PROVE MarkerInv'
  <2> USE <1>3 DEF Marked
  <2>1. Timing'
    BY DEF Timing, Looked
  <2>2. Latest' /\ Ordered'
    BY CallFrame DEF Called
  <2>3. Served'
    <3> SUFFICES ASSUME NEW c \in Conversations, readCursor'[c] # 0
                 PROVE  /\ target[readCursor'[c]] = c
                        /\ marker'[readCursor'[c]] = "marked"
      BY DEF Served
    <3>1. CASE target[t] = c
      <4>1. readCursor'[c] = t
        BY <3>1
      <4> QED
        BY <3>1, <4>1
    <3>2. CASE target[t] # c
      <4>1. readCursor'[c] = readCursor[c]
        BY <3>2
      <4>2. target[readCursor[c]] = c /\ marker[readCursor[c]] = "marked"
        <5>1. readCursor[c] # 0
          BY <4>1
        <5> QED
          BY <5>1, <1>0 DEF Served
      <4>3. readCursor[c] \in Stamps
        <5>1. readCursor[c] \in 0 .. MaxPosts /\ readCursor[c] # 0
          BY <4>1, <1>0 DEF TypeOK
        <5> HIDE <1>0, <1>3
        <5> QED
          BY <5>1, BoundsAssumption DEF Stamps
      <4> QED
        BY <4>1, <4>2, <4>3
    <3> QED
      BY <3>1, <3>2
  <2> QED
    BY <2>1, <2>2, <2>3 DEF MarkerInv
<1>4. ASSUME NEW t \in Stamps, MarkFails(t) PROVE MarkerInv'
  <2> USE <1>4 DEF MarkFails
  <2>1. Timing'
    BY DEF Timing, Looked
  <2>2. Latest' /\ Ordered'
    BY CallFrame DEF Called
  <2>3. Served'
    <3>1. \A u \in Stamps : marker[u] = "marked" => marker'[u] = "marked"
      OBVIOUS
    <3> QED
      BY <3>1, ServedFrame
  <2> QED
    BY <2>1, <2>2, <2>3 DEF MarkerInv
<1>5. CASE Reset
  <2> USE <1>5 DEF Reset, goroutines
  <2>1. Timing' /\ Served'
    BY DEF Timing, Served, Looked
  <2>2. Latest'
    BY DEF Latest, Stamps
  <2>3. Ordered'
    BY DEF Ordered, Called
  <2> QED
    BY <2>1, <2>2, <2>3 DEF MarkerInv
<1>6. CASE Tick
  <2> USE <1>6 DEF Tick, goroutines
  <2>1. Timing'
    <3> SUFFICES ASSUME NEW t \in Stamps
                 PROVE  /\ started[t] <= now'
                        /\ Looked(t) => /\ started[t] + Delay <= checked[t]
                                        /\ checked[t] <= now'
      BY DEF Timing, Looked
    <3>1. now' = now + 1 /\ now \in Nat
      OBVIOUS
    <3>2. started[t] \in Nat /\ checked[t] \in Nat
      OBVIOUS
    <3> QED
      BY <3>1, <3>2 DEF Timing
  <2>2. Latest' /\ Ordered'
    BY DEF Latest, Ordered, Called
  <2>3. Served'
    BY DEF Served
  <2> QED
    BY <2>1, <2>2, <2>3 DEF MarkerInv
<1>7. CASE UNCHANGED vars
  <2> USE <1>7 DEF vars
  <2>1. Timing' /\ Served'
    BY DEF Timing, Served, Looked
  <2>2. Latest' /\ Ordered'
    BY DEF Latest, Ordered, Called
  <2> QED
    BY <2>1, <2>2 DEF MarkerInv
<1> QED
  BY <1>1, <1>2, <1>3, <1>4, <1>5, <1>6, <1>7 DEF Next, Wake, Answer

\* The strengthened invariant of ConversationMarker holds in every behaviour.
THEOREM MarkerInvariant == Spec => []MarkerInv
  BY InitOK, StepOK, PTL DEF Spec

\* The map, the goroutines and Slack's cursor keep their types.
THEOREM TypeCorrect == Spec => []TypeOK
<1>1. MarkerInv => TypeOK
  BY DEF MarkerInv
<1> QED
  BY <1>1, MarkerInvariant, PTL

\* markConversationDelayed calls Slack for no superseded message, and the calls
\* of a conversation are the delay apart.
THEOREM AlwaysDebounced == Spec => []Debounced
<1>1. MarkerInv => Debounced
  <2> SUFFICES ASSUME MarkerInv, NEW t \in Stamps, NEW u \in Stamps,
                      t < u, target[t] = target[u], Called(t)
               PROVE  /\ marker[u] # "unborn" => started[u] >= checked[t]
                      /\ checked[t] >= started[t] + Delay
                      /\ Called(u) => checked[u] >= checked[t] + Delay
    BY DEF Debounced
  <2> USE BoundsAssumption DEF MarkerInv, TypeOK
  <2>1. marker[u] # "unborn" => started[u] >= checked[t]
    <3>1. u \in Nat /\ posted \in Nat
      BY DEF Stamps
    <3> QED
      BY <3>1 DEF Ordered
  <2>2. checked[t] >= started[t] + Delay
    BY DEF Timing, Looked, Called
  <2>3. Called(u) => checked[u] >= started[u] + Delay
    BY DEF Timing, Looked, Called
  <2> QED
    BY <2>1, <2>2, <2>3 DEF Called
<1> QED
  BY <1>1, MarkerInvariant, PTL

\* ConversationMarker.Reset cancels every goroutine that still sleeps.
THEOREM ResetAlwaysDrops == Spec => ResetDrops
<1> DEFINE Drops == \A t \in Stamps :
             marker[t] = "sleeping" /\ t <= cleared => marker'[t] # "calling"
<1>1. MarkerInv /\ [Next]_vars => [Drops]_vars
  <2> SUFFICES ASSUME MarkerInv, Next, NEW t \in Stamps,
                      marker[t] = "sleeping", t <= cleared,
                      marker'[t] = "calling"
               PROVE  FALSE
    BY DEF vars
  <2> USE DEF MarkerInv, TypeOK, Stamps
  <2>1. MarkConversationDelayed(t)
    BY BoundsAssumption
    DEF Next, Wake, Answer, MarkConversation, MarkConversationDelayed, Marked,
        MarkFails, Reset, Tick, goroutines
  <2>2. cursorMap[target[t]] = t
    BY <2>1 DEF MarkConversationDelayed
  <2> QED
    BY <2>2, BoundsAssumption DEF Latest
<1> QED
  BY <1>1, MarkerInvariant, PTL DEF Spec, ResetDrops

\* Slack's read cursor moves back only by a call that took the delay or longer.
THEOREM CursorAlwaysAdvances == Spec => CursorAdvances
<1> DEFINE Late(c, t) == /\ target[t] = c
                         /\ marker[t] = "calling" /\ marker'[t] = "marked"
                         /\ now >= checked[t] + Delay
           Advances == \A c \in Conversations :
             readCursor'[c] < readCursor[c] => \E t \in Stamps : Late(c, t)
<1>1. MarkerInv /\ [Next]_vars => [Advances]_vars
  <2> SUFFICES ASSUME MarkerInv, Next, NEW c \in Conversations,
                      readCursor'[c] < readCursor[c]
               PROVE  \E t \in Stamps : Late(c, t)
    BY DEF vars
  <2> USE BoundsAssumption DEF MarkerInv, TypeOK, Stamps
  <2>1. ASSUME NEW t \in Stamps, Marked(t) PROVE Late(c, t)
    <3>1. PICK u \in 0 .. MaxPosts : u = readCursor[c]
      OBVIOUS
    <3>2. target[t] = c /\ u > t
      BY <2>1, <3>1, SMTT(40) DEF Marked
    <3>3. u \in Stamps /\ target[u] = target[t] /\ marker[u] = "marked"
      <4>1. u \in Stamps /\ u # 0
        BY <3>1, <3>2, SMTT(40)
      <4>2. target[u] = c /\ marker[u] = "marked"
        BY <3>1, <4>1 DEF Served
      <4> QED
        BY <3>2, <4>1, <4>2
    <3>4. checked[u] >= started[u] + Delay /\ checked[u] <= now
      BY <3>3 DEF Timing, Looked
    <3>5. marker[t] = "calling" /\ marker'[t] = "marked"
      BY <2>1 DEF Marked
    <3>6. started[u] >= checked[t]
      BY <3>2, <3>3, <3>5 DEF Ordered, Called
    <3> QED
      BY <3>2, <3>3, <3>4, <3>5, <3>6, SMTT(40)
  <2>2. readCursor' # readCursor
    OBVIOUS
  <2> QED
    BY <2>1, <2>2
    DEF Next, Wake, Answer, MarkConversation, MarkConversationDelayed,
        MarkFails, Reset, Tick
<1> QED
  BY <1>1, MarkerInvariant, PTL DEF Spec, CursorAdvances
=============================================================================
