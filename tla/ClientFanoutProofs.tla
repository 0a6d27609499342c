-------------------------- MODULE ClientFanoutProofs --------------------------
(***************************************************************************)
(* Proofs about ClientFanout, for any clients and any bounds.              *)
(***************************************************************************)
EXTENDS ClientFanout, TLAPS

(***************************************************************************)
(* The helpers of the loops                                                *)
(***************************************************************************)

\* Every label of a server goroutine is one of its own.
LEMMA Labels ==
  /\ LabelsOf("main") = {"select", "handoff", "nick", "nickLoop", "open", "join",
                         "joinLoop", "returned", "exited"}
  /\ LabelsOf("router") = {"recv", "route", "routeLoop"}
  /\ LabelsOf("incoming") = {"select", "post", "notice", "noticeLoop", "relay",
                             "relayLoop", "done"}
  /\ LabelsOf("accept") = {"accept", "lock", "locked", "done"}
  /\ LabelsOf("kill") = {"wait", "snapshot", "closing", "done"}
BY DEF LabelsOf

\* A jump to a label of g's own keeps the program counters typed and moves
\* no other goroutine.
LEMMA GotoOK ==
  ASSUME PcOK, NEW p \in Procs, NEW l \in LabelsOf(p), Goto(p, l)
  PROVE  /\ PcOK'
         /\ pc'[p] = l
         /\ \A q \in Procs \ {p} : pc'[q] = pc[q]
BY DEF PcOK, Goto

\* After Visit, the client being sent to and those not reached yet are the
\* clients of S, and the loop is over when there is none.
LEMMA VisitOK ==
  ASSUME LoopOK, NEW g \in Fanners, NEW S \in SUBSET Clients,
         NEW width \in Nat, Visit(g, S, width)
  PROVE  /\ LoopOK'
         /\ at'[g] \notin todo'[g]
         /\ at'[g] = None => todo'[g] = {}
         /\ todo'[g] \cup ({at'[g]} \ {None}) = S
         /\ left'[g] <= width
         /\ \A h \in Fanners \ {g} :
              at'[h] = at[h] /\ todo'[h] = todo[h] /\ left'[h] = left[h]
<1>1. CASE S = {} /\ at' = [at EXCEPT ![g] = None]
           /\ todo' = [todo EXCEPT ![g] = {}] /\ left' = [left EXCEPT ![g] = 0]
  BY <1>1, ClientsAssumption DEF LoopOK
<1>2. ASSUME NEW c \in S, at' = [at EXCEPT ![g] = c],
             todo' = [todo EXCEPT ![g] = S \ {c}],
             left' = [left EXCEPT ![g] = width]
      PROVE  /\ LoopOK'
             /\ at'[g] \notin todo'[g]
             /\ at'[g] = None => todo'[g] = {}
             /\ todo'[g] \cup ({at'[g]} \ {None}) = S
             /\ left'[g] <= width
             /\ \A h \in Fanners \ {g} :
                  at'[h] = at[h] /\ todo'[h] = todo[h] /\ left'[h] = left[h]
  BY <1>2, ClientsAssumption DEF LoopOK
<1> QED BY <1>1, <1>2 DEF Visit

\* Every loop sends at least one line to each client.
LEMMA WidthOK ==
  /\ \A l : Width(l) \in Nat
  /\ \A l : l # "joinLoop" => Width(l) = 1
BY BoundsAssumption DEF Width

(***************************************************************************)
(* The inductive invariant                                                 *)
(***************************************************************************)

\* A goroutine holds the lock exactly while it loops, over registered clients,
\* and meets each of them once.
LoopInv ==
  /\ \A g \in Fanners :
       /\ g \in readers <=> pc[g] \in Looping
       /\ at[g] \notin todo[g]
       /\ at[g] = None => todo[g] = {}
       /\ pc[g] \in Looping => Waiting(g) \ {None} \subseteq conns
  /\ left["router"] <= 1

\* A client that is being answered has a line coming.
ReplyOwed == \A c \in Clients : inPc[c] = "reply" => owing[c] # 0

\* "accept" has a connection in hand while it waits for the lock, and nothing
\* runs for a connection until it is registered.
Newcomer ==
  /\ pc["accept"] \in {"lock", "locked"} <=> accepting # None
  /\ accepting # None => inPc[accepting] = "absent"
  /\ \A c \in conns : inPc[c] # "absent"

Inv == TypeOK /\ ReplyOwed /\ Newcomer /\ LoopInv /\ RoutedInStep

\* LoopInv speaks of the loops' own state only, and lets clients come.
LEMMA LoopFrame ==
  ASSUME LoopInv, UNCHANGED <<readers, at, left>>, conns \subseteq conns',
         \A g \in Fanners : todo'[g] = todo[g],
         \A g \in Fanners : pc'[g] \in Looping <=> pc[g] \in Looping
  PROVE  LoopInv'
BY DEF LoopInv, Waiting

\* Steps in which the router neither starts nor goes on with a fan-out.
LEMMA RoutedFrame ==
  ASSUME RoutedInStep, UNCHANGED <<pos, fanned>>, conns' \subseteq conns,
         pc'["router"] = "routeLoop" <=> pc["router"] = "routeLoop",
         Waiting("router")' = Waiting("router")
  PROVE  RoutedInStep'
BY DEF RoutedInStep

\* BeginLoop takes the read lock and visits only clients of S.
LEMMA BeginLoopOK ==
  ASSUME TypeOK, LoopInv, NEW g \in Fanners, NEW S \in SUBSET conns,
         NEW label \in Looping \cap LabelsOf(g), pc[g] \notin Looping,
         BeginLoop(g, S, label)
  PROVE  /\ LockOK' /\ PcOK' /\ LoopOK' /\ LoopInv'
         /\ conns' = conns
         /\ todo'[g] \cup ({at'[g]} \ {None}) = S
         /\ pc'[g] = label
         /\ \A q \in Procs \ {g} : pc'[q] = pc[q]
         /\ \A h \in Fanners \ {g} : at'[h] = at[h] /\ todo'[h] = todo[h]
<1>1. g \in Procs BY DEF Procs, Fanners
<1>2. /\ PcOK' /\ pc'[g] = label
      /\ \A q \in Procs \ {g} : pc'[q] = pc[q]
  BY <1>1, GotoOK DEF BeginLoop, TypeOK
<1>3. S \in SUBSET Clients BY DEF TypeOK, LockOK
<1>4. /\ LoopOK'
      /\ at'[g] \notin todo'[g]
      /\ at'[g] = None => todo'[g] = {}
      /\ todo'[g] \cup ({at'[g]} \ {None}) = S
      /\ left'[g] <= Width(label)
      /\ \A h \in Fanners \ {g} :
           at'[h] = at[h] /\ todo'[h] = todo[h] /\ left'[h] = left[h]
  BY <1>3, VisitOK, WidthOK DEF BeginLoop, TypeOK
<1>5. readers' = readers \cup {g} /\ conns' = conns /\ writer' = writer
  BY DEF BeginLoop, RLock
<1>6. LockOK' BY <1>5 DEF TypeOK, LockOK
<1>7. left'["router"] <= 1
  <2>1. CASE g = "router"
    <3>1. label # "joinLoop" BY <2>1, Labels
    <3> QED BY <2>1, <3>1, <1>4, WidthOK
  <2>2. CASE g # "router"
    BY <2>2, <1>4 DEF LoopInv, Fanners
  <2> QED BY <2>1, <2>2
<1>8. LoopInv'
  <2> SUFFICES ASSUME NEW h \in Fanners
      PROVE  /\ h \in readers' <=> pc'[h] \in Looping
             /\ at'[h] \notin todo'[h]
             /\ at'[h] = None => todo'[h] = {}
             /\ pc'[h] \in Looping =>
                  (todo'[h] \cup {at'[h]}) \ {None} \subseteq conns'
    BY <1>7 DEF LoopInv, Waiting
  <2>1. CASE h = g BY <2>1, <1>2, <1>4, <1>5
  <2>2. CASE h # g
    <3>1. h \in Procs BY DEF Procs, Fanners
    <3> QED BY <2>2, <3>1, <1>2, <1>4, <1>5 DEF LoopInv, Waiting
  <2> QED BY <2>1, <2>2
<1> QED BY <1>2, <1>4, <1>5, <1>6, <1>8

\* EndLoop releases the read lock of g and of nobody else.
LEMMA EndLoopOK ==
  ASSUME TypeOK, LoopInv, NEW g \in Fanners, NEW label \in Looping,
         NEW next \in LabelsOf(g) \ Looping, EndLoop(g, label, next)
  PROVE  /\ LockOK' /\ PcOK' /\ LoopInv'
         /\ conns' = conns
         /\ at[g] = None /\ todo[g] = {}
         /\ pc[g] = label /\ pc'[g] = next
         /\ \A q \in Procs \ {g} : pc'[q] = pc[q]
<1>1. g \in Procs BY DEF Procs, Fanners
<1>2. /\ PcOK' /\ pc'[g] = next
      /\ \A q \in Procs \ {g} : pc'[q] = pc[q]
  BY <1>1, GotoOK DEF EndLoop, TypeOK
<1>3. readers' = readers \ {g} /\ conns' = conns /\ writer' = writer
  BY DEF EndLoop, RUnlock
<1>4. UNCHANGED <<todo, at, left>> BY DEF EndLoop, loopVars
<1>5. LockOK' BY <1>3 DEF TypeOK, LockOK
<1>6. at[g] = None /\ todo[g] = {} /\ pc[g] = label BY DEF EndLoop, LoopInv
<1>7. LoopInv'
  <2> SUFFICES ASSUME NEW h \in Fanners
      PROVE  /\ h \in readers' <=> pc'[h] \in Looping
             /\ at'[h] \notin todo'[h]
             /\ at'[h] = None => todo'[h] = {}
             /\ pc'[h] \in Looping =>
                  (todo'[h] \cup {at'[h]}) \ {None} \subseteq conns'
    BY <1>4 DEF LoopInv, Waiting
  <2>1. h \in Procs BY DEF Procs, Fanners
  <2> QED BY <2>1, <1>2, <1>3, <1>4 DEF LoopInv, Waiting
<1> QED BY <1>2, <1>3, <1>5, <1>6, <1>7

(***************************************************************************)
(* Every step preserves it                                                 *)
(***************************************************************************)

\* The server starts with no client, no lock and no loop.
LEMMA InitInv == Init => Inv
<1> SUFFICES ASSUME Init PROVE Inv OBVIOUS
<1>1. PcOK
  <2>1. pc \in [Procs -> UNION {LabelsOf(p) : p \in Procs}]
    <3>1. \A p \in Procs : pc[p] \in LabelsOf(p)
      BY Labels DEF Init, Procs
    <3>2. pc = [p \in Procs |-> pc[p]] BY DEF Init
    <3> QED BY <3>1, <3>2
  <2>2. \A p \in Procs : pc[p] \in LabelsOf(p) BY Labels DEF Init, Procs
  <2> QED BY <2>1, <2>2 DEF PcOK
<1>2. LockOK /\ FlagsOK /\ LoopOK /\ ClientOK /\ HistoryOK
  BY DEF Init, LockOK, FlagsOK, LoopOK, ClientOK, HistoryOK
<1>3. TypeOK BY <1>1, <1>2 DEF Init, TypeOK
<1>4. /\ \A g \in Fanners : pc[g] \notin Looping
      /\ pc["accept"] = "accept"
  BY DEF Init, Procs, Fanners, Looping
<1>5. LoopInv BY <1>4, ClientsAssumption DEF Init, LoopInv, Fanners
<1>6. ReplyOwed /\ Newcomer BY <1>4 DEF Init, ReplyOwed, Newcomer
<1>7. RoutedInStep BY DEF Init, RoutedInStep
<1> QED BY <1>3, <1>5, <1>6, <1>7 DEF Inv

\* What a line sent does to g's loop: the client gets it, or the loop goes on.
LEMMA SendLoop ==
  ASSUME Inv, NEW g \in Fanners, SendLine(g)
  PROVE  /\ LoopOK' /\ LoopInv'
         /\ at[g] \in conns
         /\ left[g] > 1 => UNCHANGED <<at, todo>>
         /\ ~(left[g] > 1) => todo'[g] \cup ({at'[g]} \ {None}) = todo[g]
         /\ \A h \in Fanners \ {g} : at'[h] = at[h] /\ todo'[h] = todo[h]
<1>1. at[g] \in conns BY DEF Inv, LoopInv, SendLine, Waiting
<1>2. UNCHANGED <<readers, pc, conns>> BY DEF SendLine, lockVars
<1>3. CASE left[g] > 1
  <2>1. left' = [left EXCEPT ![g] = left[g] - 1] /\ UNCHANGED <<at, todo>>
    BY <1>3 DEF SendLine
  <2>2. left[g] \in Nat BY DEF Inv, TypeOK, LoopOK
  <2>3. LoopOK' BY <2>1, <2>2, <1>3 DEF Inv, TypeOK, LoopOK
  <2>4. g # "router" BY <1>3, <2>2 DEF Inv, LoopInv
  <2>5. LoopInv'
    BY <1>2, <2>1, <2>4 DEF Inv, TypeOK, LoopOK, LoopInv, Waiting, Fanners
  <2> QED BY <1>1, <1>3, <2>1, <2>3, <2>5
<1>4. CASE ~(left[g] > 1)
  <2>1. Visit(g, todo[g], Width(pc[g])) BY <1>4 DEF SendLine
  <2>2. todo[g] \in SUBSET Clients BY DEF Inv, TypeOK, LoopOK
  <2>3. /\ LoopOK'
        /\ at'[g] \notin todo'[g]
        /\ at'[g] = None => todo'[g] = {}
        /\ todo'[g] \cup ({at'[g]} \ {None}) = todo[g]
        /\ left'[g] <= Width(pc[g])
        /\ \A h \in Fanners \ {g} :
             at'[h] = at[h] /\ todo'[h] = todo[h] /\ left'[h] = left[h]
    BY <2>1, <2>2, VisitOK, WidthOK DEF Inv, TypeOK
  <2>4. left'["router"] <= 1
    <3>1. CASE g = "router"
      <4>1. pc[g] # "joinLoop"
        BY <3>1, Labels DEF Inv, TypeOK, PcOK, Procs
      <4> QED BY <3>1, <4>1, <2>3, WidthOK
    <3>2. CASE g # "router" BY <3>2, <2>3 DEF Inv, LoopInv, Fanners
    <3> QED BY <3>1, <3>2
  <2>5. LoopInv'
    <3> SUFFICES ASSUME NEW h \in Fanners
        PROVE  /\ h \in readers' <=> pc'[h] \in Looping
               /\ at'[h] \notin todo'[h]
               /\ at'[h] = None => todo'[h] = {}
               /\ pc'[h] \in Looping =>
                    (todo'[h] \cup {at'[h]}) \ {None} \subseteq conns'
      BY <2>4 DEF LoopInv, Waiting
    <3> QED BY <1>2, <2>3 DEF Inv, LoopInv, Waiting
  <2> QED BY <1>1, <1>4, <2>3, <2>5
<1> QED BY <1>3, <1>4

\* A line sent to a client preserves the invariant.
LEMMA SendInv == ASSUME Inv, NEW g \in Fanners, SendLine(g) PROVE Inv'
<1>1. at[g] \in Clients BY SendLoop DEF Inv, TypeOK, LockOK
<1>2. UNCHANGED <<lockVars, stop, connected, shutdown, panicked, pc, origin,
                  accepting, inPc, cleanPc, owing, registered, typed, taken,
                  fanned, sent>>
  BY DEF SendLine, flagVars, workVars, lineVars
<1>3. ClientOK'
  BY <1>1, <1>2 DEF Inv, TypeOK, ClientOK, SendLine
<1>4. pos' \in [Clients -> Nat]
  BY <1>1, <1>2 DEF Inv, TypeOK, HistoryOK, SendLine
<1>5. heard' \in [Clients -> [Clients -> Nat]]
  BY <1>1, <1>2 DEF Inv, TypeOK, HistoryOK, SendLine
<1>6. TypeOK'
  BY <1>2, <1>3, <1>4, <1>5, SendLoop
  DEF Inv, TypeOK, LockOK, FlagsOK, PcOK, HistoryOK, lockVars
<1>7. ReplyOwed' /\ Newcomer'
  BY <1>2 DEF Inv, ReplyOwed, Newcomer, lockVars
<1>8. RoutedInStep'
  <2>1. CASE g = "router"
    <3>1. pc["router"] = "routeLoop"
      BY <2>1, Labels
      DEF Inv, TypeOK, PcOK, Procs, SendLine, Looping
    <3>2. pos' = [pos EXCEPT ![at[g]] = fanned] BY <2>1 DEF SendLine
    <3>3. ~(left[g] > 1)
      BY <2>1 DEF Inv, TypeOK, LoopOK, LoopInv, Fanners
    <3>4. /\ todo'[g] \cup ({at'[g]} \ {None}) = todo[g]
          /\ at[g] \notin todo[g]
      BY <3>3, SendLoop DEF Inv, LoopInv
    <3>5. None \notin conns BY ClientsAssumption DEF Inv, TypeOK, LockOK
    <3> QED
      BY <2>1, <1>1, <1>2, <3>1, <3>2, <3>4, <3>5
      DEF Inv, TypeOK, LockOK, HistoryOK, RoutedInStep, Waiting, lockVars
  <2>2. CASE g # "router"
    <3>1. pos' = pos BY <2>2 DEF SendLine
    <3>2. Waiting("router")' = Waiting("router")
      BY <2>2, SendLoop DEF Waiting, Fanners
    <3> QED BY <1>2, <3>1, <3>2, RoutedFrame DEF Inv, lockVars
  <2> QED BY <2>1, <2>2
<1> QED BY <1>6, <1>7, <1>8, SendLoop DEF Inv

\* Steps outside the loops and without the lock.
LEMMA QuietInv ==
  ASSUME Inv, UNCHANGED <<conns, readers, at, left, fanned, pos>>,
         \A g \in Fanners : /\ todo'[g] = todo[g]
                            /\ \/ pc'[g] = pc[g]
                               \/ pc[g] \notin Looping /\ pc'[g] \notin Looping,
         TypeOK', ReplyOwed', Newcomer'
  PROVE  Inv'
<1>1. \A g \in Fanners : pc'[g] \in Looping <=> pc[g] \in Looping OBVIOUS
<1>2. LoopInv' BY <1>1, LoopFrame DEF Inv
<1>3. pc'["router"] = "routeLoop" <=> pc["router"] = "routeLoop"
  BY DEF Fanners, Looping
<1>4. Waiting("router")' = Waiting("router") BY DEF Waiting, Fanners
<1>5. RoutedInStep' BY <1>3, <1>4, RoutedFrame DEF Inv
<1> QED BY <1>2, <1>5 DEF Inv

\* Loops other than the router's.
LEMMA BeginInv ==
  ASSUME Inv, NEW g \in {"main", "incoming"}, NEW S \in SUBSET conns,
         NEW l \in Looping \cap LabelsOf(g), pc[g] \notin Looping,
         BeginLoop(g, S, l),
         UNCHANGED <<flagVars, workVars, clientVars, taken, history>>
  PROVE  Inv'
<1> USE DEF flagVars, workVars, lineVars, clientVars, history
<1>1. g \in Procs \cap Fanners /\ g # "router" /\ g # "accept"
  BY DEF Procs, Fanners
<1>2. {"router", "accept"} \subseteq Procs /\ "router" \in Fanners
  BY DEF Procs, Fanners
<1>3. /\ LockOK' /\ PcOK' /\ LoopOK' /\ LoopInv' /\ conns' = conns
      /\ \A q \in Procs \ {g} : pc'[q] = pc[q]
      /\ Waiting("router")' = Waiting("router")
  BY <1>1, <1>2, BeginLoopOK DEF Inv, Waiting
<1>4. TypeOK' BY <1>3 DEF Inv, TypeOK, FlagsOK, ClientOK, HistoryOK
<1>5. ReplyOwed' /\ Newcomer'
  BY <1>1, <1>2, <1>3 DEF Inv, ReplyOwed, Newcomer
<1>6. RoutedInStep' BY <1>1, <1>2, <1>3, RoutedFrame DEF Inv
<1> QED BY <1>3, <1>4, <1>5, <1>6 DEF Inv

\* The end of a loop preserves the invariant.
LEMMA EndInv ==
  ASSUME Inv, NEW g \in {"main", "incoming"}, NEW l \in Looping,
         NEW n \in LabelsOf(g) \ Looping,
         EndLoop(g, l, n), origin' \in Clients \cup {None}
  PROVE  Inv'
<1> USE DEF flagVars, loopVars, lineVars, clientVars, history
<1>1. g \in Procs \cap Fanners /\ g # "router" /\ g # "accept"
  BY DEF Procs, Fanners
<1>2. {"router", "accept"} \subseteq Procs BY DEF Procs
<1>3. /\ LockOK' /\ PcOK' /\ LoopInv' /\ conns' = conns
      /\ \A q \in Procs \ {g} : pc'[q] = pc[q]
  BY <1>1, EndLoopOK DEF Inv
<1>4. UNCHANGED <<flagVars, loopVars, accepting, clientVars, taken, history>>
  BY DEF EndLoop
<1>5. TypeOK'
  BY <1>3, <1>4 DEF Inv, TypeOK, FlagsOK, LoopOK, ClientOK, HistoryOK
<1>6. ReplyOwed' /\ Newcomer'
  BY <1>1, <1>2, <1>3, <1>4 DEF Inv, ReplyOwed, Newcomer
<1>7. RoutedInStep'
  BY <1>1, <1>2, <1>3, <1>4, RoutedFrame DEF Inv, Waiting
<1> QED BY <1>3, <1>5, <1>6, <1>7 DEF Inv

\* writeMessageLoop and its handlers preserve the invariant.
LEMMA MainInv ==
  ASSUME Inv, MainStep \/ MainReceive \/ ProcessExit
  PROVE  Inv'
<1> USE DEF lockVars, flagVars, loopVars, workVars, lineVars, clientVars,
            history
<1>0. /\ "main" \in Procs \cap Fanners /\ "router" \in Procs \cap Fanners
      /\ "accept" \in Procs
  BY DEF Procs, Fanners
<1>1. ASSUME NEW l \in LabelsOf("main") \ Looping, pc["main"] \notin Looping,
             Goto("main", l), taken' \in Nat, connected' \in BOOLEAN,
             UNCHANGED <<lockVars, stop, shutdown, panicked, loopVars,
                         workVars, clientVars, history>>
      PROVE  Inv'
  <2>1. /\ PcOK' /\ pc'["main"] = l
        /\ \A q \in Procs \ {"main"} : pc'[q] = pc[q]
    BY <1>0, <1>1, GotoOK DEF Inv, TypeOK
  <2>2. TypeOK'
    BY <1>1, <2>1
    DEF Inv, TypeOK, LockOK, FlagsOK, LoopOK, ClientOK, HistoryOK
  <2>3. ReplyOwed' /\ Newcomer'
    BY <1>0, <1>1, <2>1 DEF Inv, ReplyOwed, Newcomer
  <2>4. \A g \in Fanners : g \in Procs BY DEF Fanners, Procs
  <2> QED BY <1>1, <2>1, <2>2, <2>3, <2>4, QuietInv
<1>2. CASE MainReceive
  BY <1>2, <1>1, Labels DEF MainReceive, Looping, Inv, TypeOK, FlagsOK
<1>3. CASE MainHandoff
  <2>1. /\ PcOK'
        /\ \A q \in Procs : \/ pc'[q] = pc[q]
                            \/ pc[q] \notin Looping /\ pc'[q] \notin Looping
        /\ pc'["accept"] = pc["accept"]
    BY <1>0, <1>3, Labels DEF MainHandoff, Inv, TypeOK, PcOK, Looping, Procs
  <2>2. TypeOK'
    BY <1>3, <2>1
    DEF MainHandoff, Inv, TypeOK, LockOK, FlagsOK, LoopOK, ClientOK, HistoryOK
  <2>3. ReplyOwed' /\ Newcomer'
    BY <1>3, <2>1 DEF MainHandoff, Inv, ReplyOwed, Newcomer
  <2>4. \A g \in Fanners : g \in Procs BY DEF Fanners, Procs
  <2> QED BY <1>3, <2>1, <2>2, <2>3, <2>4, QuietInv DEF MainHandoff
<1>5. CASE MainBeginLoop
  BY <1>5, BeginInv, Labels DEF MainBeginLoop, Looping
<1>7. CASE MainEndLoop
  BY <1>7, EndInv, Labels DEF MainEndLoop, Looping, Inv, TypeOK
<1>8. CASE MainOpen
  BY <1>8, <1>1, Labels DEF MainOpen, Looping, Inv, TypeOK
<1>9. CASE MainReturn
  BY <1>9, <1>1, Labels DEF MainReturn, Looping, Inv, TypeOK, FlagsOK
<1>10. CASE ProcessExit
  BY <1>10, <1>1, Labels DEF ProcessExit, Looping, Inv, TypeOK, FlagsOK
<1> QED BY <1>2, <1>3, <1>5, <1>7, <1>8, <1>9, <1>10 DEF MainStep

\* HandleOutgoingMessageRouting preserves the invariant.
LEMMA RouterInv == ASSUME Inv, RouterStep PROVE Inv'
<1> USE DEF lockVars, flagVars, loopVars, workVars, lineVars, clientVars,
            history
<1>0. "router" \in Procs \cap Fanners /\ "accept" \in Procs
  BY DEF Procs, Fanners
<1>1. CASE RouterBeginLoop
  <2>1. "routeLoop" \in Looping \cap LabelsOf("router")
    BY Labels DEF Looping
  <2>2. pc["router"] \notin Looping BY <1>1 DEF RouterBeginLoop, Looping
  <2>3. /\ LockOK' /\ PcOK' /\ LoopOK' /\ LoopInv' /\ conns' = conns
        /\ todo'["router"] \cup ({at'["router"]} \ {None}) = conns
        /\ pc'["router"] = "routeLoop"
        /\ \A q \in Procs \ {"router"} : pc'[q] = pc[q]
    BY <1>0, <1>1, <2>1, <2>2, BeginLoopOK DEF Inv, RouterBeginLoop
  <2>4. fanned' = fanned + 1 BY <1>1 DEF RouterBeginLoop
  <2>5. TypeOK'
    BY <1>1, <2>3, <2>4
    DEF RouterBeginLoop, Inv, TypeOK, FlagsOK, ClientOK, HistoryOK
  <2>6. ReplyOwed' /\ Newcomer'
    BY <1>0, <1>1, <2>3 DEF RouterBeginLoop, Inv, ReplyOwed, Newcomer
  <2>7. RoutedInStep'
    <3>1. \A c \in conns : pos[c] = fanned
      BY <2>2 DEF Inv, RoutedInStep, Looping
    <3>2. fanned \in Nat /\ fanned' - 1 = fanned
      BY <2>4 DEF Inv, TypeOK, HistoryOK
    <3> QED BY <1>1, <2>3, <3>1, <3>2 DEF RouterBeginLoop, RoutedInStep, Waiting
  <2> QED BY <2>3, <2>5, <2>6, <2>7 DEF Inv
<1>2. CASE RouterEndLoop
  <2>1. "routeLoop" \in Looping /\ "recv" \in LabelsOf("router") \ Looping
    BY Labels DEF Looping
  <2>2. /\ LockOK' /\ PcOK' /\ LoopInv' /\ conns' = conns
        /\ at["router"] = None /\ todo["router"] = {}
        /\ pc'["router"] = "recv"
        /\ \A q \in Procs \ {"router"} : pc'[q] = pc[q]
    BY <1>0, <1>2, <2>1, EndLoopOK DEF Inv, RouterEndLoop
  <2>3. UNCHANGED <<flagVars, loopVars, workVars, clientVars, taken, history>>
    BY <1>2 DEF RouterEndLoop, EndLoop
  <2>4. TypeOK'
    BY <2>2, <2>3 DEF Inv, TypeOK, FlagsOK, LoopOK, ClientOK, HistoryOK
  <2>5. ReplyOwed' /\ Newcomer'
    BY <1>0, <2>2, <2>3 DEF Inv, ReplyOwed, Newcomer
  <2>6. None \notin conns BY ClientsAssumption DEF Inv, TypeOK, LockOK
  <2>7. RoutedInStep' BY <2>2, <2>3, <2>6 DEF Inv, RoutedInStep, Waiting
  <2> QED BY <2>2, <2>4, <2>5, <2>7 DEF Inv
<1> QED BY <1>1, <1>2 DEF RouterStep

\* A goroutine other than the router moves on outside its loops.
LEMMA MoveInv ==
  ASSUME Inv, NEW p \in Procs, NEW l \in LabelsOf(p) \ Looping, Goto(p, l),
         pc[p] \notin Looping, UNCHANGED <<conns, readers, at, left, history>>,
         \A g \in Fanners : todo'[g] = todo[g],
         LockOK', LoopOK', FlagsOK', ClientOK', ReplyOwed', Newcomer',
         origin' \in Clients \cup {None}, accepting' \in Clients \cup {None},
         taken' \in Nat
  PROVE  Inv'
<1> USE DEF history
<1>1. /\ PcOK' /\ pc'[p] = l
      /\ \A q \in Procs \ {p} : pc'[q] = pc[q]
  BY GotoOK DEF Inv, TypeOK
<1>2. TypeOK' BY <1>1 DEF Inv, TypeOK, HistoryOK
<1>3. \A g \in Fanners : g \in Procs BY DEF Fanners, Procs
<1> QED BY <1>1, <1>2, <1>3, QuietInv

\* handleIncomingMessageRouting preserves the invariant.
LEMMA IncomingInv == ASSUME Inv, IncomingStep PROVE Inv'
<1> USE DEF lockVars, flagVars, loopVars, workVars, lineVars, clientVars
<1>0. "incoming" \in Procs /\ "accept" \in Procs BY DEF Procs
<1>1. ASSUME NEW c \in Clients, IncomingReceive(c) PROVE Inv'
  <2>1. inPc' = [inPc EXCEPT ![c] = "top"] /\ inPc[c] = "toServer"
    BY <1>1 DEF IncomingReceive
  <2>2. Goto("incoming", "post") /\ pc["incoming"] = "select" /\ origin' = c
    BY <1>1 DEF IncomingReceive
  <2>3. sent' = [sent EXCEPT ![c] = sent[c] + 1]
    BY <1>1 DEF IncomingReceive
  <2>4. UNCHANGED <<lockVars, flagVars, loopVars, accepting, outPc, cleanPc,
                    lineVars, taken, fanned, pos, heard>>
    BY <1>1 DEF IncomingReceive
  <2>5. "post" \in LabelsOf("incoming") BY Labels
  <2>6. /\ PcOK' /\ pc'["incoming"] = "post"
        /\ \A q \in Procs \ {"incoming"} : pc'[q] = pc[q]
    BY <1>0, <2>2, <2>5, GotoOK DEF Inv, TypeOK
  <2>7. TypeOK'
    BY <2>1, <2>2, <2>3, <2>4, <2>6
    DEF Inv, TypeOK, LockOK, FlagsOK, LoopOK, ClientOK, HistoryOK
  <2>8. ReplyOwed'
    BY <2>1, <2>4 DEF Inv, TypeOK, ClientOK, ReplyOwed
  <2>9. Newcomer'
    <3>1. pc'["accept"] = pc["accept"] BY <1>0, <2>6
    <3>2. \A d \in Clients : inPc'[d] = "absent" <=> inPc[d] = "absent"
      BY <2>1 DEF Inv, TypeOK, ClientOK
    <3>3. accepting # None => accepting \in Clients BY DEF Inv, TypeOK
    <3>4. conns \subseteq Clients BY DEF Inv, TypeOK, LockOK
    <3> QED BY <2>4, <3>1, <3>2, <3>3, <3>4 DEF Inv, Newcomer
  <2>10. \A g \in Fanners :
           \/ pc'[g] = pc[g]
           \/ pc[g] \notin Looping /\ pc'[g] \notin Looping
    <3>1. \A g \in Fanners : g = "incoming" \/ g \in Procs \ {"incoming"}
      BY DEF Fanners, Procs
    <3>2. "select" \notin Looping /\ "post" \notin Looping BY DEF Looping
    <3> QED BY <2>2, <2>6, <3>1, <3>2
  <2>11. /\ UNCHANGED <<conns, readers, at, left, fanned, pos>>
         /\ \A g \in Fanners : todo'[g] = todo[g]
    BY <2>4
  <2> QED BY <2>7, <2>8, <2>9, <2>10, <2>11, QuietInv
<1>2. ASSUME NEW l \in LabelsOf("incoming") \ Looping, Goto("incoming", l),
             pc["incoming"] \notin Looping,
             UNCHANGED <<lockVars, flagVars, loopVars, workVars, clientVars,
                         taken, history>>
      PROVE  Inv'
  <2>1. pc'["accept"] = pc["accept"]
    BY <1>0, <1>2, GotoOK DEF Inv, TypeOK
  <2>2. ReplyOwed' /\ Newcomer'
    BY <1>2, <2>1 DEF Inv, ReplyOwed, Newcomer
  <2>3. LockOK' /\ LoopOK' /\ FlagsOK' /\ ClientOK'
    BY <1>2 DEF Inv, TypeOK, LockOK, LoopOK, FlagsOK, ClientOK
  <2> QED BY <1>0, <1>2, <2>2, <2>3, MoveInv DEF Inv, TypeOK
<1>3. CASE IncomingPosted
  BY <1>3, <1>2, Labels DEF IncomingPosted, Looping
<1>4. CASE IncomingBeginLoop
  BY <1>4, BeginInv, Labels DEF IncomingBeginLoop, Looping
<1>5. CASE IncomingEndLoop
  BY <1>5, EndInv, Labels DEF IncomingEndLoop, Looping, Inv, TypeOK
<1>6. CASE IncomingExit
  BY <1>6, <1>2, Labels DEF IncomingExit, Looping
<1> QED BY <1>1, <1>3, <1>4, <1>5, <1>6 DEF IncomingStep

\* Listen preserves the invariant.
LEMMA AcceptInv ==
  ASSUME Inv, AcceptStep \/ \E c \in Clients : Accept(c)
  PROVE  Inv'
<1> USE DEF lockVars, flagVars, loopVars, workVars, lineVars, clientVars,
            history
<1>0. "accept" \in Procs /\ "router" \in Procs /\ "router" \in Fanners
  BY DEF Procs, Fanners
<1>1. ASSUME NEW c \in Clients, Accept(c) PROVE Inv'
  <2>1. "lock" \in LabelsOf("accept") \ Looping /\ "accept" \notin Looping
    BY Labels DEF Looping
  <2>2. pc'["accept"] = "lock"
    BY <1>0, <1>1, <2>1, GotoOK DEF Accept, Inv, TypeOK
  <2>3. ReplyOwed' /\ Newcomer'
    BY <1>1, <2>2, ClientsAssumption DEF Accept, Inv, ReplyOwed, Newcomer
  <2>4. LockOK' /\ LoopOK' /\ FlagsOK' /\ ClientOK'
    BY <1>1 DEF Accept, Inv, TypeOK, LockOK, LoopOK, FlagsOK, ClientOK
  <2> QED BY <1>0, <1>1, <2>1, <2>3, <2>4, MoveInv DEF Accept, Inv, TypeOK
<1>2. CASE AcceptLock
  <2>1. "locked" \in LabelsOf("accept") \ Looping /\ "lock" \notin Looping
    BY Labels DEF Looping
  <2>2. pc'["accept"] = "locked"
    BY <1>0, <1>2, <2>1, GotoOK DEF AcceptLock, Inv, TypeOK
  <2>3. ReplyOwed' /\ Newcomer'
    BY <1>2, <2>2 DEF AcceptLock, Inv, ReplyOwed, Newcomer
  <2>4. LockOK' /\ LoopOK' /\ FlagsOK' /\ ClientOK'
    BY <1>2 DEF AcceptLock, Inv, TypeOK, LockOK, LoopOK, FlagsOK, ClientOK
  <2> QED BY <1>0, <1>2, <2>1, <2>3, <2>4, MoveInv DEF AcceptLock, Inv, TypeOK
<1>3. CASE AcceptRegister
  <2>1. accepting \in Clients /\ accepting # None
    BY <1>3 DEF AcceptRegister, Inv, TypeOK, Newcomer
  <2>2. /\ PcOK' /\ pc'["accept"] = "accept"
        /\ \A q \in Procs \ {"accept"} : pc'[q] = pc[q]
    BY <1>0, <1>3, GotoOK, Labels DEF AcceptRegister, Inv, TypeOK
  <2>3. ClientOK' /\ HistoryOK'
    BY <1>3, <2>1
    DEF AcceptRegister, Inv, TypeOK, ClientOK, HistoryOK
  <2>4. TypeOK'
    BY <1>3, <2>1, <2>2, <2>3
    DEF AcceptRegister, Inv, TypeOK, LockOK, FlagsOK, LoopOK
  <2>5. inPc' = [inPc EXCEPT ![accepting] = "waitSlack"] /\ owing' = owing
    BY <1>3 DEF AcceptRegister
  <2>6. ReplyOwed'
    BY <2>1, <2>5 DEF Inv, TypeOK, ClientOK, ReplyOwed
  <2>7. conns' = conns \cup {accepting} /\ accepting' = None
    BY <1>3 DEF AcceptRegister
  <2>8. Newcomer'
    BY <2>1, <2>2, <2>5, <2>7 DEF Inv, TypeOK, LockOK, ClientOK, Newcomer
  <2>9. \A g \in Fanners : g \in Procs \ {"accept"} BY DEF Fanners, Procs
  <2>10. LoopInv'
    BY <1>3, <2>2, <2>9, LoopFrame DEF AcceptRegister, Inv
  <2>11. pc["router"] # "routeLoop" /\ pc'["router"] # "routeLoop"
    BY <1>0, <1>3, <2>2, <2>9
    DEF AcceptRegister, Inv, LoopInv, Looping
  <2>12. pos' = [pos EXCEPT ![accepting] = fanned] /\ fanned' = fanned
    BY <1>3 DEF AcceptRegister
  <2>13. RoutedInStep'
    BY <2>1, <2>7, <2>11, <2>12
    DEF Inv, TypeOK, LockOK, HistoryOK, RoutedInStep
  <2> QED BY <2>4, <2>6, <2>8, <2>10, <2>13 DEF Inv
<1>4. CASE AcceptClosed
  <2>1. "done" \in LabelsOf("accept") \ Looping /\ "accept" \notin Looping
    BY Labels DEF Looping
  <2>2. pc'["accept"] = "done"
    BY <1>0, <1>4, <2>1, GotoOK DEF AcceptClosed, Inv, TypeOK
  <2>3. ReplyOwed' /\ Newcomer'
    BY <1>4, <2>2 DEF AcceptClosed, Inv, ReplyOwed, Newcomer
  <2>4. LockOK' /\ LoopOK' /\ FlagsOK' /\ ClientOK'
    BY <1>4 DEF AcceptClosed, Inv, TypeOK, LockOK, LoopOK, FlagsOK, ClientOK
  <2> QED BY <1>0, <1>4, <2>1, <2>3, <2>4, MoveInv DEF AcceptClosed, Inv, TypeOK
<1> QED BY <1>1, <1>2, <1>3, <1>4 DEF AcceptStep

\* killHandler and waitForKillListener preserve the invariant.
LEMMA KillInv == ASSUME Inv, KillStep \/ Signal PROVE Inv'
<1> USE DEF lockVars, flagVars, loopVars, workVars, lineVars, clientVars,
            history
<1>0. "kill" \in Procs /\ "accept" \in Procs /\ "kill" \notin Fanners
  BY DEF Procs, Fanners
<1>1. ASSUME NEW l \in LabelsOf("kill") \ Looping, Goto("kill", l),
             pc["kill"] \notin Looping, LoopOK',
             \A g \in Fanners : todo'[g] = todo[g],
             UNCHANGED <<lockVars, flagVars, at, left, workVars, clientVars,
                         taken, history>>
      PROVE  Inv'
  <2>1. pc'["accept"] = pc["accept"]
    BY <1>0, <1>1, GotoOK DEF Inv, TypeOK
  <2>2. ReplyOwed' /\ Newcomer'
    BY <1>1, <2>1 DEF Inv, ReplyOwed, Newcomer
  <2>3. LockOK' /\ FlagsOK' /\ ClientOK'
    BY <1>1 DEF Inv, TypeOK, LockOK, FlagsOK, ClientOK
  <2> QED BY <1>0, <1>1, <2>2, <2>3, MoveInv DEF Inv, TypeOK
<1>2. CASE KillClose
  BY <1>2, <1>1, Labels DEF KillClose, Looping, Inv, TypeOK, LoopOK
<1>3. CASE KillSnapshot
  <2>1. todo' = [todo EXCEPT !["kill"] = conns] BY <1>3 DEF KillSnapshot
  <2>2. \A g \in Fanners : todo'[g] = todo[g]
    BY <1>0, <2>1 DEF Inv, TypeOK, LoopOK
  <2>3. LoopOK'
    BY <1>3, <2>1 DEF KillSnapshot, Inv, TypeOK, LoopOK, LockOK
  <2> QED BY <1>3, <2>2, <2>3, <1>1, Labels DEF KillSnapshot, Looping
<1>4. ASSUME NEW c \in Clients, KillShutdown(c) PROVE Inv'
  <2>1. todo' = [todo EXCEPT !["kill"] = todo["kill"] \ {c}]
    BY <1>4 DEF KillShutdown
  <2>2. \A g \in Fanners : todo'[g] = todo[g]
    BY <1>0, <2>1 DEF Inv, TypeOK, LoopOK
  <2>3. LoopOK' BY <1>4, <2>1 DEF KillShutdown, Inv, TypeOK, LoopOK
  <2>4. FlagsOK' BY <1>4 DEF KillShutdown, Inv, TypeOK, FlagsOK
  <2>5. TypeOK'
    BY <1>4, <2>3, <2>4
    DEF KillShutdown, Inv, TypeOK, LockOK, PcOK, ClientOK, HistoryOK
  <2>6. ReplyOwed' /\ Newcomer'
    BY <1>4 DEF KillShutdown, Inv, ReplyOwed, Newcomer
  <2> QED BY <1>4, <2>2, <2>5, <2>6, QuietInv DEF KillShutdown
<1>5. CASE KillDone
  BY <1>5, <1>1, Labels DEF KillDone, Looping, Inv, TypeOK, LoopOK
<1>6. CASE Signal
  <2>1. TypeOK'
    BY <1>6
    DEF Signal, Inv, TypeOK, LockOK, FlagsOK, PcOK, LoopOK, ClientOK, HistoryOK
  <2>2. ReplyOwed' /\ Newcomer'
    BY <1>6 DEF Signal, Inv, ReplyOwed, Newcomer
  <2> QED BY <1>6, <2>1, <2>2, QuietInv DEF Signal
<1> QED BY <1>2, <1>3, <1>4, <1>5, <1>6 DEF KillStep

\* What a client's own goroutines do while it stays registered.
LEMMA ClientQuiet ==
  ASSUME Inv, UNCHANGED <<conns, readers, pc, todo, at, left, origin,
                          accepting, taken, history>>,
         LockOK', FlagsOK', ClientOK', ReplyOwed',
         \A c \in Clients : inPc'[c] = "absent" <=> inPc[c] = "absent"
  PROVE  Inv'
<1> USE DEF history
<1>1. TypeOK' BY DEF Inv, TypeOK, PcOK, LoopOK, HistoryOK
<1>2. Newcomer' BY DEF Inv, TypeOK, LockOK, Newcomer
<1> QED BY <1>1, <1>2, QuietInv

\* The lines a client types, and the hang-up of its peer.
ClientInput(c) ==
  \/ InPrivmsg(c) \/ InEOF(c)
  \/ \E n \in 0 .. MaxReplies : InCommand(c, n)

\* handleConnInput preserves the invariant.
LEMMA InInv ==
  ASSUME Inv, NEW c \in Clients, InStep(c) \/ ClientInput(c)
  PROVE  Inv'
<1> USE DEF lockVars, flagVars, loopVars, workVars, lineVars, InGoto, Inv,
            TypeOK, LockOK, FlagsOK, ClientOK, ReplyOwed
<1>1. CASE InSlackConnected(c) BY <1>1, ClientQuiet DEF InSlackConnected
<1>2. CASE InTop(c) BY <1>2, ClientQuiet DEF InTop
<1>3. CASE InPrivmsg(c) BY <1>3, ClientQuiet DEF InPrivmsg
<1>4. ASSUME NEW n \in 0 .. MaxReplies, InCommand(c, n) PROVE Inv'
  <2>1. n \in Nat BY BoundsAssumption
  <2>2. registered' \in [Clients -> BOOLEAN] BY <1>4 DEF InCommand
  <2>3. /\ owing' = [owing EXCEPT ![c] = n]
        /\ inPc' = [inPc EXCEPT ![c] = IF n = 0 THEN "top" ELSE "reply"]
        /\ typed' = [typed EXCEPT ![c] = typed[c] + 1]
        /\ inPc[c] = "scan"
    BY <1>4 DEF InCommand
  <2>4. UNCHANGED <<conns, readers, writer, stop, connected, shutdown,
                    panicked, pc, todo, at, left, origin, accepting, outPc,
                    cleanPc, taken, history>>
    BY <1>4 DEF InCommand
  <2>5. ClientOK' BY <2>1, <2>2, <2>3, <2>4
  <2>6. ReplyOwed' BY <2>1, <2>3
  <2>7. \A d \in Clients : inPc'[d] = "absent" <=> inPc[d] = "absent" BY <2>3
  <2>8. LockOK' /\ FlagsOK' BY <2>4
  <2> QED BY <2>4, <2>5, <2>6, <2>7, <2>8, ClientQuiet
<1>5. CASE InReply(c)
  <2>1. /\ owing' = [owing EXCEPT ![c] = owing[c] - 1]
        /\ inPc' = [inPc EXCEPT ![c] = IF owing[c] = 1 THEN "top" ELSE "reply"]
        /\ outPc' = [outPc EXCEPT ![c] = "write"]
        /\ inPc[c] = "reply"
    BY <1>5 DEF InReply
  <2>2. UNCHANGED <<conns, readers, writer, stop, connected, shutdown,
                    panicked, pc, todo, at, left, origin, accepting, cleanPc,
                    registered, typed, taken, history>>
    BY <1>5 DEF InReply
  <2>3. owing[c] \in Nat \ {0} BY <2>1
  <2>4. ClientOK' BY <2>1, <2>2, <2>3
  <2>5. ReplyOwed' BY <2>1, <2>3
  <2>6. \A d \in Clients : inPc'[d] = "absent" <=> inPc[d] = "absent" BY <2>1
  <2>7. LockOK' /\ FlagsOK' BY <2>2
  <2> QED BY <2>2, <2>4, <2>5, <2>6, <2>7, ClientQuiet
<1>6. CASE InEOF(c) BY <1>6, ClientQuiet DEF InEOF
<1> QED BY <1>1, <1>2, <1>3, <1>4, <1>5, <1>6 DEF InStep, ClientInput

\* handleConnOutput preserves the invariant.
LEMMA OutInv == ASSUME Inv, NEW c \in Clients, OutStep(c) PROVE Inv'
<1> USE DEF lockVars, flagVars, loopVars, workVars, lineVars, Inv, TypeOK,
            LockOK, FlagsOK, ClientOK, ReplyOwed
<1>1. CASE OutWrite(c) BY <1>1, ClientQuiet DEF OutWrite
<1>2. CASE OutExit(c) BY <1>2, ClientQuiet DEF OutExit
<1> QED BY <1>1, <1>2 DEF OutStep

\* waitForClientCleanup preserves the invariant.
LEMMA CleanInv == ASSUME Inv, NEW c \in Clients, CleanStep(c) PROVE Inv'
<1> USE DEF lockVars, flagVars, loopVars, workVars, lineVars, CleanGoto
<1>1. CASE CleanWake(c)
  BY <1>1, ClientQuiet
  DEF CleanWake, Inv, TypeOK, LockOK, FlagsOK, ClientOK, ReplyOwed
<1>2. CASE CleanLock(c)
  BY <1>2, ClientQuiet
  DEF CleanLock, Inv, TypeOK, LockOK, FlagsOK, ClientOK, ReplyOwed
<1>3. CASE CleanRemove(c)
  <2>1. /\ readers = {} /\ readers' = readers /\ conns' = conns \ {c}
        /\ cleanPc' = [cleanPc EXCEPT ![c] = "done"] /\ writer' = None
        /\ UNCHANGED <<flagVars, pc, loopVars, workVars, inPc, outPc, lineVars,
                       taken, history>>
    BY <1>3 DEF CleanRemove
  <2>2. TypeOK'
    BY <2>1
    DEF Inv, TypeOK, LockOK, FlagsOK, PcOK, LoopOK, ClientOK, HistoryOK, history
  <2>3. ReplyOwed' /\ Newcomer'
    BY <2>1 DEF Inv, ReplyOwed, Newcomer
  <2>4. LoopInv' BY <2>1 DEF Inv, LoopInv, Waiting
  <2>5. RoutedInStep'
    BY <2>1, RoutedFrame DEF Inv, Waiting, history
  <2> QED BY <2>2, <2>3, <2>4, <2>5 DEF Inv
<1> QED BY <1>1, <1>2, <1>3 DEF CleanStep

\* A stuttering step preserves the invariant.
LEMMA StutterInv == ASSUME Inv, UNCHANGED vars PROVE Inv'
BY DEF vars, Inv, TypeOK, LockOK, FlagsOK, PcOK, LoopOK, ClientOK, HistoryOK,
       ReplyOwed, Newcomer, LoopInv, Waiting, RoutedInStep

\* The invariant is inductive.
LEMMA NextInv == ASSUME Inv, [Next]_vars PROVE Inv'
<1>1. CASE MainStep \/ MainReceive \/ ProcessExit BY <1>1, MainInv
<1>2. CASE RouterStep BY <1>2, RouterInv
<1>3. CASE IncomingStep BY <1>3, IncomingInv
<1>4. CASE AcceptStep \/ \E c \in Clients : Accept(c) BY <1>4, AcceptInv
<1>5. CASE KillStep \/ Signal BY <1>5, KillInv
<1>6. ASSUME NEW g \in Fanners, SendLine(g) PROVE Inv' BY <1>6, SendInv
<1>7. ASSUME NEW c \in Clients,
             InStep(c) \/ ClientInput(c) \/ OutStep(c) \/ CleanStep(c)
      PROVE  Inv'
  BY <1>7, InInv, OutInv, CleanInv
<1>8. CASE UNCHANGED vars BY <1>8, StutterInv
<1> QED BY <1>1, <1>2, <1>3, <1>4, <1>5, <1>6, <1>7, <1>8
        DEF Next, Environment, ClientInput

\* In every behaviour the fan-outs hold the lock while they range, visit only
\* registered clients, and the routed messages are in step.
THEOREM Invariant == Spec => []Inv
<1>1. Inv /\ [Next]_vars => Inv' BY NextInv
<1> QED BY InitInv, <1>1, PTL DEF Spec

\* Every variable keeps its type.
THEOREM TypeCorrect == Spec => []TypeOK
<1>1. Inv => TypeOK BY DEF Inv
<1> QED BY Invariant, <1>1, PTL

\* No map of connections changes under a loop, for any number of clients and
\* whatever connects, hangs up or is shut down meanwhile.
THEOREM IterationStable == Spec => []StableIteration
<1>1. Inv => StableIteration
  BY ClientsAssumption
  DEF Inv, TypeOK, LoopOK, LoopInv, StableIteration, Waiting
<1> QED BY Invariant, <1>1, PTL

\* The clients stay in step.
THEOREM RoutedAlwaysInStep == Spec => []RoutedInStep
<1>1. Inv => RoutedInStep BY DEF Inv
<1> QED BY Invariant, <1>1, PTL

(***************************************************************************)
(* ClientFanout implements Broadcast                                       *)
(***************************************************************************)

Members == <<conns, fanned, pos>>

\* Every step of the goroutines is a step of Broadcast or a stutter.
LEMMA StepBroadcast ==
  ASSUME Inv, [Next]_vars
  PROVE  [BC!Next]_(BC!vars)
<1> USE DEF lockVars, flagVars, loopVars, workVars, lineVars, clientVars,
            history
<1>0. ASSUME UNCHANGED Members PROVE [BC!Next]_(BC!vars)
  BY <1>0 DEF Members, BC!vars
<1>1. CASE RouterBeginLoop
  <2>1. pc["router"] # "routeLoop" BY <1>1 DEF RouterBeginLoop
  <2>2. \A c \in conns : pos[c] = fanned BY <2>1 DEF Inv, RoutedInStep
  <2>3. conns' = conns /\ fanned' = fanned + 1 /\ pos' = pos
    BY <1>1 DEF RouterBeginLoop, BeginLoop, RLock
  <2>4. BC!Publish BY <2>2, <2>3 DEF BC!Publish
  <2> QED BY <2>4 DEF BC!Next
<1>2. ASSUME NEW g \in Fanners, SendLine(g) PROVE [BC!Next]_(BC!vars)
  <2>1. UNCHANGED <<conns, fanned>> BY <1>2 DEF SendLine
  <2>2. CASE g = "router"
    <3>1. pc["router"] = "routeLoop"
      BY <1>2, <2>2, Labels DEF Inv, TypeOK, PcOK, Procs, SendLine, Looping
    <3>2. at[g] \in conns /\ at[g] \in Clients
      BY <1>2, SendLoop DEF Inv, TypeOK, LockOK
    <3>3. pos[at[g]] = fanned - 1 /\ fanned \in Nat /\ pos[at[g]] \in Nat
      BY <2>2, <3>1, <3>2
      DEF Inv, RoutedInStep, Waiting, TypeOK, HistoryOK
    <3>4. pos' = [pos EXCEPT ![at[g]] = pos[at[g]] + 1]
      <4>1. pos' = [pos EXCEPT ![at[g]] = fanned] BY <1>2, <2>2 DEF SendLine
      <4>2. pos[at[g]] + 1 = fanned BY <3>3
      <4> QED BY <4>1, <4>2
    <3>5. pos[at[g]] < fanned BY <3>3
    <3>6. BC!Deliver(at[g])
      BY <2>1, <3>2, <3>4, <3>5 DEF BC!Deliver
    <3> QED BY <3>2, <3>6 DEF BC!Next
  <2>3. CASE g # "router"
    BY <1>0, <1>2, <2>1, <2>3 DEF SendLine, Members
  <2> QED BY <2>2, <2>3
<1>3. CASE AcceptRegister
  <2>1. accepting \in Clients /\ accepting \notin conns
    BY <1>3 DEF AcceptRegister, Inv, TypeOK, Newcomer
  <2>2. BC!Join(accepting) BY <1>3, <2>1 DEF AcceptRegister, BC!Join
  <2> QED BY <2>1, <2>2 DEF BC!Next
<1>4. ASSUME NEW c \in Clients, CleanRemove(c) PROVE [BC!Next]_(BC!vars)
  <2>1. conns' = conns \ {c} /\ UNCHANGED <<fanned, pos>>
    BY <1>4 DEF CleanRemove
  <2>2. CASE c \in conns
    <3>1. BC!Leave(c) BY <2>1, <2>2 DEF BC!Leave
    <3> QED BY <3>1 DEF BC!Next
  <2>3. CASE c \notin conns BY <1>0, <2>1, <2>3 DEF Members
  <2> QED BY <2>2, <2>3
<1>5. CASE MainStep \/ MainReceive \/ ProcessExit
  <2>1. UNCHANGED Members
    BY <1>5
    DEF MainStep, MainReceive, ProcessExit, MainHandoff, MainBeginLoop,
        MainEndLoop, MainOpen, MainReturn, BeginLoop, EndLoop, RLock, RUnlock,
        Members
  <2> QED BY <2>1, <1>0
<1>6. CASE RouterEndLoop
  BY <1>0, <1>6 DEF RouterEndLoop, EndLoop, RUnlock, Members
<1>7. CASE IncomingStep
  <2>1. UNCHANGED Members
    BY <1>7
    DEF IncomingStep, IncomingReceive, IncomingPosted, IncomingBeginLoop,
        IncomingEndLoop, IncomingExit, BeginLoop, EndLoop, RLock, RUnlock,
        Members
  <2> QED BY <2>1, <1>0
<1>8. CASE AcceptLock \/ AcceptClosed \/ \E c \in Clients : Accept(c)
  BY <1>0, <1>8 DEF AcceptLock, AcceptClosed, Accept, Members
<1>9. CASE KillStep \/ Signal
  BY <1>0, <1>9
  DEF KillStep, Signal, KillClose, KillSnapshot, KillShutdown, KillDone, Members
<1>10. ASSUME NEW c \in Clients,
              \/ InStep(c) \/ ClientInput(c) \/ OutStep(c)
              \/ CleanWake(c) \/ CleanLock(c)
       PROVE  [BC!Next]_(BC!vars)
  <2>1. UNCHANGED Members
    BY <1>10
    DEF InStep, ClientInput, OutStep, CleanWake, CleanLock, InSlackConnected,
        InTop, InReply, InPrivmsg, InCommand, InEOF, OutWrite, OutExit, Members
  <2> QED BY <2>1, <1>0
<1>11. CASE UNCHANGED vars BY <1>0, <1>11 DEF vars, Members
<1> QED BY <1>1, <1>2, <1>3, <1>4, <1>5, <1>6, <1>7, <1>8, <1>9, <1>10, <1>11
        DEF Next, Environment, RouterStep, AcceptStep, CleanStep, ClientInput

\* Seen by the clients, the fan-out of routed messages is the lockstep,
\* gap-free broadcast of Broadcast.
THEOREM RoutedRefinement == Spec => RoutedImplementsBroadcast
<1>1. Init => BC!Init BY DEF Init, BC!Init
<1>2. Inv /\ [Next]_vars => [BC!Next]_(BC!vars) BY StepBroadcast
<1> QED BY Invariant, <1>1, <1>2, PTL DEF Spec,
           RoutedImplementsBroadcast, BC!Spec

(***************************************************************************)
(* What clients hear of each other                                         *)
(***************************************************************************)

\* "incoming" has an originator exactly while it works on a PRIVMSG, and its
\* relay never has that client to visit; a connection nothing runs for has
\* said nothing.
PeerInv ==
  /\ pc["incoming"] \in {"select", "done"} <=> origin = None
  /\ pc["incoming"] = "relayLoop" => origin \notin Waiting("incoming")
  /\ \A c \in Clients : inPc[c] = "absent" => sent[c] = 0
  /\ NoSelfEcho
  /\ PeersInStep

\* Initially nobody has said or heard anything.
LEMMA InitPeer == Init => PeerInv
BY ClientsAssumption
DEF Init, PeerInv, Procs, NoSelfEcho, PeersInStep

\* Steps that neither relay nor take a PRIVMSG; clients may go.
LEMMA PeerFrame ==
  ASSUME PeerInv, UNCHANGED <<heard, sent, origin>>, conns' \subseteq conns,
         pc'["incoming"] = pc["incoming"],
         Waiting("incoming")' = Waiting("incoming"),
         \A c \in Clients : inPc'[c] = "absent" => inPc[c] = "absent"
  PROVE  PeerInv'
BY DEF PeerInv, NoSelfEcho, PeersInStep, NotRelayedYet

\* No goroutine but "incoming" moves "incoming" or changes its loop.
LEMMA OthersPeer ==
  ASSUME Inv, PeerInv,
         \/ MainStep \/ MainReceive \/ ProcessExit \/ RouterStep
         \/ AcceptLock \/ AcceptClosed \/ \E c \in Clients : Accept(c)
         \/ KillStep \/ Signal
  PROVE  PeerInv'
<1> USE DEF lockVars, flagVars, loopVars, workVars, lineVars, clientVars,
            history
<1>1. /\ "incoming" \in Procs \cap Fanners
      /\ {"main", "router", "accept", "kill"} \subseteq Procs
      /\ {"main", "router"} \subseteq Fanners
      /\ "kill" \notin Fanners
  BY DEF Procs, Fanners
<1>2. ASSUME NEW p \in Procs \ {"incoming"},
             \E l : Goto(p, l),
             UNCHANGED <<heard, sent, origin, conns, inPc>>,
             at'["incoming"] = at["incoming"],
             todo'["incoming"] = todo["incoming"]
      PROVE  PeerInv'
  <2>1. pc'["incoming"] = pc["incoming"]
    BY <1>1, <1>2 DEF Goto, Inv, TypeOK, PcOK
  <2> QED BY <1>2, <2>1, PeerFrame DEF Waiting
<1>3. ASSUME NEW g \in {"main", "router"}, NEW S \in SUBSET conns, NEW label,
             BeginLoop(g, S, label)
      PROVE  /\ conns' = conns
             /\ at'["incoming"] = at["incoming"]
             /\ todo'["incoming"] = todo["incoming"]
  <2>1. S \in SUBSET Clients BY DEF Inv, TypeOK, LockOK
  <2> QED BY <1>1, <1>3, <2>1, VisitOK, WidthOK
          DEF BeginLoop, RLock, Inv, TypeOK
<1>4. CASE MainReceive BY <1>1, <1>2, <1>4 DEF MainReceive
<1>5. CASE MainHandoff
  <2>1. pc'["incoming"] = pc["incoming"]
    BY <1>1, <1>5 DEF MainHandoff, Inv, TypeOK, PcOK
  <2> QED BY <1>5, <2>1, PeerFrame DEF MainHandoff, Waiting
<1>6. CASE MainBeginLoop
  <2>1. UNCHANGED <<heard, sent, origin, inPc>> BY <1>6 DEF MainBeginLoop
  <2>2. /\ conns' = conns
        /\ at'["incoming"] = at["incoming"]
        /\ todo'["incoming"] = todo["incoming"]
    BY <1>3, <1>6 DEF MainBeginLoop
  <2>3. \E l : Goto("main", l) BY <1>6 DEF MainBeginLoop, BeginLoop
  <2> QED BY <1>1, <1>2, <2>1, <2>2, <2>3
<1>7. CASE MainEndLoop
  BY <1>1, <1>2, <1>7 DEF MainEndLoop, EndLoop, RUnlock
<1>8. CASE MainOpen BY <1>1, <1>2, <1>8 DEF MainOpen
<1>9. CASE MainReturn BY <1>1, <1>2, <1>9 DEF MainReturn
<1>10. CASE ProcessExit BY <1>1, <1>2, <1>10 DEF ProcessExit
<1>11. CASE RouterBeginLoop
  <2>1. UNCHANGED <<heard, sent, origin, inPc>> BY <1>11 DEF RouterBeginLoop
  <2>2. /\ conns' = conns
        /\ at'["incoming"] = at["incoming"]
        /\ todo'["incoming"] = todo["incoming"]
    BY <1>3, <1>11 DEF RouterBeginLoop
  <2>3. \E l : Goto("router", l) BY <1>11 DEF RouterBeginLoop, BeginLoop
  <2> QED BY <1>1, <1>2, <2>1, <2>2, <2>3
<1>12. CASE RouterEndLoop
  BY <1>1, <1>2, <1>12 DEF RouterEndLoop, EndLoop, RUnlock
<1>13. CASE AcceptLock BY <1>1, <1>2, <1>13 DEF AcceptLock
<1>14. CASE AcceptClosed BY <1>1, <1>2, <1>14 DEF AcceptClosed
<1>15. CASE \E c \in Clients : Accept(c) BY <1>1, <1>2, <1>15 DEF Accept
<1>16. CASE KillClose BY <1>1, <1>2, <1>16 DEF KillClose
<1>17. CASE KillSnapshot
  <2>1. todo'["incoming"] = todo["incoming"]
    BY <1>1, <1>17 DEF KillSnapshot, Inv, TypeOK, LoopOK
  <2> QED BY <1>1, <1>2, <1>17, <2>1 DEF KillSnapshot
<1>18. ASSUME NEW c \in Clients, KillShutdown(c) PROVE PeerInv'
  <2>1. todo'["incoming"] = todo["incoming"]
    BY <1>1, <1>18 DEF KillShutdown, Inv, TypeOK, LoopOK
  <2> QED BY <1>18, <2>1, PeerFrame DEF KillShutdown, Waiting
<1>19. CASE KillDone BY <1>1, <1>2, <1>19 DEF KillDone
<1>20. CASE Signal BY <1>20, PeerFrame DEF Signal, Waiting
<1> QED BY <1>4, <1>5, <1>6, <1>7, <1>8, <1>9, <1>10, <1>11, <1>12, <1>13,
           <1>14, <1>15, <1>16, <1>17, <1>18, <1>19, <1>20
        DEF MainStep, RouterStep, KillStep

\* A line sent to a client preserves what is known of the peers.
LEMMA SendPeer ==
  ASSUME Inv, PeerInv, NEW g \in Fanners, SendLine(g)
  PROVE  PeerInv'
<1>1. UNCHANGED <<conns, pc, origin, inPc, sent>>
  BY DEF SendLine, lockVars, workVars
<1>2. at[g] \in conns /\ at[g] \in Clients
  BY SendLoop DEF Inv, TypeOK, LockOK
<1>3. CASE pc[g] = "relayLoop"
  <2>1. g = "incoming"
    BY <1>3, Labels DEF Inv, TypeOK, PcOK, Procs, Fanners
  <2>2. origin \in Clients /\ at[g] # origin
    BY <1>3, <2>1 DEF PeerInv, Waiting, Inv, TypeOK
  <2>3. heard' = [heard EXCEPT ![at[g]][origin] = sent[origin]]
    BY <1>3 DEF SendLine
  <2>4. \A c \in Clients : \A o \in Clients :
          heard'[c][o] = IF c = at[g] /\ o = origin THEN sent[o] ELSE heard[c][o]
    BY <1>2, <2>2, <2>3 DEF Inv, TypeOK, HistoryOK
  <2>5. NoSelfEcho' BY <2>2, <2>4 DEF PeerInv, NoSelfEcho
  <2>6. at[g] # None BY <1>2, ClientsAssumption
  <2>7. /\ Waiting(g)' \subseteq Waiting(g) \cup {None}
        /\ \A c \in Waiting(g) \ {at[g]} : c \in Waiting(g)'
    <3>1. CASE left[g] > 1 BY <3>1, SendLoop DEF Waiting
    <3>2. CASE ~(left[g] > 1) BY <3>2, SendLoop DEF Waiting
    <3> QED BY <3>1, <3>2
  <2>8. PeersInStep'
    <3> SUFFICES ASSUME NEW c \in conns, NEW o \in Clients \ {c},
                        heard'[c][o] # sent[o]
        PROVE  NotRelayedYet(o, c)' /\ heard'[c][o] = sent[o] - 1
      BY <1>1 DEF PeersInStep
    <3>1. c \in Clients BY DEF Inv, TypeOK, LockOK
    <3>2. ~(c = at[g] /\ o = origin) /\ heard'[c][o] = heard[c][o]
      BY <2>4, <3>1
    <3>3. NotRelayedYet(o, c) /\ heard[c][o] = sent[o] - 1
      BY <3>2 DEF PeerInv, PeersInStep
    <3>4. o = origin /\ c \in Waiting(g) \ {at[g]}
      BY <1>3, <2>1, <3>2, <3>3 DEF NotRelayedYet
    <3> QED BY <1>1, <1>3, <2>1, <2>7, <3>2, <3>3, <3>4 DEF NotRelayedYet
  <2>9. origin \notin Waiting(g)'
    BY <1>3, <2>1, <2>2, <2>7, ClientsAssumption DEF PeerInv
  <2> QED BY <1>1, <2>1, <2>5, <2>8, <2>9 DEF PeerInv, Waiting
<1>4. CASE pc[g] # "relayLoop"
  <2>1. heard' = heard BY <1>4 DEF SendLine
  <2>2. CASE g = "incoming"
    BY <1>1, <1>4, <2>1, <2>2
    DEF PeerInv, NoSelfEcho, PeersInStep, NotRelayedYet
  <2>3. CASE g # "incoming"
    <3>1. Waiting("incoming")' = Waiting("incoming")
      BY <2>3, SendLoop DEF Waiting, Fanners
    <3> QED BY <1>1, <2>1, <3>1, PeerFrame
  <2> QED BY <2>2, <2>3
<1> QED BY <1>3, <1>4

\* handleIncomingMessageRouting preserves what is known of the peers.
LEMMA IncomingPeer ==
  ASSUME Inv, PeerInv, IncomingStep
  PROVE  PeerInv'
<1> USE DEF lockVars, flagVars, loopVars, workVars, lineVars, clientVars,
            history
<1>0. "incoming" \in Procs \cap Fanners BY DEF Procs, Fanners
<1>1. ASSUME NEW l, Goto("incoming", l) PROVE pc'["incoming"] = l
  BY <1>0, <1>1 DEF Goto, Inv, TypeOK, PcOK
<1>2. ASSUME NEW c \in Clients, IncomingReceive(c) PROVE PeerInv'
  <2>1. /\ pc["incoming"] = "select" /\ pc'["incoming"] = "post"
        /\ origin = None /\ origin' = c
    BY <1>1, <1>2 DEF IncomingReceive, PeerInv
  <2>2. /\ inPc[c] = "toServer" /\ inPc' = [inPc EXCEPT ![c] = "top"]
        /\ sent' = [sent EXCEPT ![c] = sent[c] + 1]
        /\ UNCHANGED <<heard, conns>>
    BY <1>2 DEF IncomingReceive
  <2>3. \A d \in Clients : sent'[d] = IF d = c THEN sent[d] + 1 ELSE sent[d]
    BY <2>2 DEF Inv, TypeOK, HistoryOK
  <2>4. \A d \in Clients : inPc'[d] = "absent" => sent'[d] = 0
    BY <2>2, <2>3 DEF PeerInv, Inv, TypeOK, ClientOK
  <2>5. \A d \in conns : \A o \in Clients \ {d} : heard[d][o] = sent[o]
    BY <2>1, ClientsAssumption DEF PeerInv, PeersInStep, NotRelayedYet
  <2>6. PeersInStep'
    <3> SUFFICES ASSUME NEW d \in conns, NEW o \in Clients \ {d},
                        heard[d][o] # sent'[o]
        PROVE  NotRelayedYet(o, d)' /\ heard[d][o] = sent'[o] - 1
      BY <2>2 DEF PeersInStep
    <3>1. o = c BY <2>3, <2>5
    <3>2. sent[o] \in Nat BY DEF Inv, TypeOK, HistoryOK
    <3>3. heard[d][o] = sent'[o] - 1 BY <2>3, <2>5, <3>1, <3>2
    <3> QED BY <2>1, <3>1, <3>3 DEF NotRelayedYet
  <2> QED BY <2>1, <2>2, <2>4, <2>6, ClientsAssumption
          DEF PeerInv, NoSelfEcho
<1>3. ASSUME NEW l \in {"post", "notice", "noticeLoop", "relay"},
             pc["incoming"] \in {"post", "notice", "noticeLoop", "relay"},
             pc'["incoming"] = l,
             UNCHANGED <<heard, sent, origin, conns, inPc>>
      PROVE  PeerInv'
  BY <1>3 DEF PeerInv, NoSelfEcho, PeersInStep, NotRelayedYet
<1>4. CASE IncomingPosted BY <1>1, <1>3, <1>4 DEF IncomingPosted
<1>5. CASE pc["incoming"] = "notice" /\ IncomingBeginLoop
  <2>1. pc'["incoming"] = "noticeLoop"
    BY <1>1, <1>5 DEF IncomingBeginLoop, BeginLoop
  <2> QED BY <1>3, <1>5, <2>1 DEF IncomingBeginLoop, BeginLoop, RLock
<1>6. CASE pc["incoming"] = "relay" /\ IncomingBeginLoop
  <2>1. BeginLoop("incoming", conns \ {origin}, "relayLoop")
    BY <1>6 DEF IncomingBeginLoop
  <2>2. pc'["incoming"] = "relayLoop" BY <1>1, <2>1 DEF BeginLoop
  <2>3. conns \ {origin} \in SUBSET Clients BY DEF Inv, TypeOK, LockOK
  <2>4. /\ conns' = conns
        /\ Waiting("incoming")' \ {None} = conns \ {origin}
    <3>1. todo'["incoming"] \cup ({at'["incoming"]} \ {None})
            = conns \ {origin}
      BY <1>0, <2>1, <2>3, VisitOK, WidthOK DEF BeginLoop, Inv, TypeOK
    <3>2. None \notin conns \ {origin} BY <2>3, ClientsAssumption
    <3> QED BY <2>1, <3>1, <3>2 DEF BeginLoop, RLock, Waiting
  <2>5. UNCHANGED <<heard, sent, origin, inPc>> BY <1>6 DEF IncomingBeginLoop
  <2>6. origin # None /\ origin \notin Waiting("incoming")'
    BY <1>6, <2>4 DEF PeerInv
  <2>7. PeersInStep'
    BY <1>6, <2>2, <2>4, <2>5, ClientsAssumption
    DEF PeerInv, PeersInStep, NotRelayedYet, Inv, TypeOK, LockOK
  <2> QED BY <1>6, <2>2, <2>5, <2>6, <2>7 DEF PeerInv, NoSelfEcho
<1>7. CASE EndLoop("incoming", "noticeLoop", "relay") /\ UNCHANGED origin
  <2>1. pc["incoming"] = "noticeLoop" /\ pc'["incoming"] = "relay"
    BY <1>1, <1>7 DEF EndLoop
  <2> QED BY <1>3, <1>7, <2>1 DEF EndLoop, RUnlock
<1>8. CASE EndLoop("incoming", "relayLoop", "select") /\ origin' = None
  <2>1. pc["incoming"] = "relayLoop" /\ pc'["incoming"] = "select"
    BY <1>1, <1>8 DEF EndLoop
  <2>2. Waiting("incoming") = {None}
    BY <1>0, <1>8 DEF EndLoop, Waiting, Inv, LoopInv
  <2>3. UNCHANGED <<heard, sent, conns, inPc>>
    BY <1>8 DEF EndLoop, RUnlock
  <2>4. \A c \in conns : \A o \in Clients \ {c} : heard[c][o] = sent[o]
    BY <2>1, <2>2, ClientsAssumption
    DEF PeerInv, PeersInStep, NotRelayedYet, Inv, TypeOK, LockOK
  <2>5. PeersInStep' BY <2>3, <2>4 DEF PeersInStep
  <2> QED BY <1>8, <2>1, <2>3, <2>5 DEF PeerInv, NoSelfEcho
<1>9. CASE IncomingExit
  <2>1. pc["incoming"] = "select" /\ pc'["incoming"] = "done"
    BY <1>1, <1>9 DEF IncomingExit
  <2>2. UNCHANGED <<heard, sent, origin, conns, inPc>>
    BY <1>9 DEF IncomingExit
  <2> QED BY <2>1, <2>2 DEF PeerInv, NoSelfEcho, PeersInStep, NotRelayedYet
<1>10. CASE IncomingBeginLoop
  BY <1>5, <1>6, <1>10 DEF IncomingBeginLoop
<1> QED BY <1>2, <1>4, <1>7, <1>8, <1>9, <1>10
        DEF IncomingStep, IncomingEndLoop

\* A registration preserves what is known of the peers.
LEMMA RegisterPeer ==
  ASSUME Inv, PeerInv, AcceptRegister
  PROVE  PeerInv'
<1>1. accepting \in Clients /\ inPc[accepting] = "absent"
  BY DEF AcceptRegister, Inv, TypeOK, Newcomer
<1>2. pc'["incoming"] = pc["incoming"]
  BY DEF AcceptRegister, Goto, Inv, TypeOK, PcOK, Procs
<1>3. /\ conns' = conns \cup {accepting} /\ UNCHANGED <<sent, origin>>
      /\ heard' = [heard EXCEPT ![accepting] = sent]
      /\ inPc' = [inPc EXCEPT ![accepting] = "waitSlack"]
      /\ Waiting("incoming")' = Waiting("incoming")
  BY DEF AcceptRegister, Waiting, loopVars
<1>4. \A c \in Clients : heard'[c] = IF c = accepting THEN sent ELSE heard[c]
  BY <1>1, <1>3 DEF Inv, TypeOK, HistoryOK
<1>5. sent[accepting] = 0 BY <1>1 DEF PeerInv
<1>6. NoSelfEcho' BY <1>4, <1>5 DEF PeerInv, NoSelfEcho
<1>7. conns \subseteq Clients BY DEF Inv, TypeOK, LockOK
<1>8. PeersInStep'
  BY <1>1, <1>2, <1>3, <1>4, <1>7 DEF PeerInv, PeersInStep, NotRelayedYet
<1>9. \A c \in Clients : inPc'[c] = "absent" => sent'[c] = 0
  BY <1>1, <1>3 DEF PeerInv, Inv, TypeOK, ClientOK
<1> QED BY <1>2, <1>3, <1>6, <1>8, <1>9 DEF PeerInv

\* The goroutines of a client preserve what is known of the peers.
LEMMA ClientPeer ==
  ASSUME Inv, PeerInv, NEW c \in Clients,
         InStep(c) \/ ClientInput(c) \/ OutStep(c) \/ CleanStep(c)
  PROVE  PeerInv'
<1>1. /\ UNCHANGED <<heard, sent, origin, pc>>
      /\ conns' \subseteq conns
      /\ Waiting("incoming")' = Waiting("incoming")
  BY DEF InStep, ClientInput, OutStep, CleanStep, InSlackConnected, InTop,
         InReply, InPrivmsg, InCommand, InEOF, OutWrite, OutExit, CleanWake,
         CleanLock, CleanRemove, lockVars, loopVars, workVars, history, Waiting
<1>2. \A d \in Clients : inPc'[d] = "absent" => inPc[d] = "absent"
  <2>1. \/ inPc' = inPc
        \/ \E l \in {"top", "done", "scan", "toServer", "reply"} :
             inPc' = [inPc EXCEPT ![c] = l]
    BY DEF InStep, ClientInput, OutStep, CleanStep, InSlackConnected, InTop,
           InReply, InPrivmsg, InCommand, InEOF, OutWrite, OutExit, CleanWake,
           CleanLock, CleanRemove, InGoto
  <2> QED BY <2>1 DEF Inv, TypeOK, ClientOK
<1> QED BY <1>1, <1>2, PeerFrame

\* In every behaviour the incoming goroutine visits only peers of the
\* originator, and each client lacks at most the PRIVMSG being handled.
THEOREM PeerInvariant == Spec => [](Inv /\ PeerInv)
<1>1. Inv /\ PeerInv /\ [Next]_vars => (Inv /\ PeerInv)'
  <2> SUFFICES ASSUME Inv, PeerInv, [Next]_vars PROVE PeerInv'
    BY NextInv
  <2>1. CASE UNCHANGED vars
    BY <2>1, PeerFrame DEF vars, Waiting
  <2>2. CASE Next
    BY <2>2, OthersPeer, SendPeer, IncomingPeer, RegisterPeer, ClientPeer
    DEF Next, Environment, AcceptStep, ClientInput
  <2> QED BY <2>1, <2>2
<1>2. Init => Inv /\ PeerInv BY InitInv, InitPeer
<1> QED BY <1>1, <1>2, PTL DEF Spec

\* No client hears itself, whatever is posted, refused, relayed or hung up.
THEOREM NeverSelfEcho == Spec => []NoSelfEcho
<1>1. PeerInv => NoSelfEcho BY DEF PeerInv
<1> QED BY PeerInvariant, <1>1, PTL

\* Every client's copy of the others' PRIVMSGs is complete but for the one
\* being handled.
THEOREM PeersAlwaysInStep == Spec => []PeersInStep
<1>1. PeerInv => PeersInStep BY DEF PeerInv
<1> QED BY PeerInvariant, <1>1, PTL

(***************************************************************************)
(* No deadlock                                                             *)
(***************************************************************************)

\* The lock is announced or held by the goroutine that is between Lock and
\* Unlock; a registered client has an output goroutine, and it returns only
\* after the client's shutdown.
LockInv ==
  /\ writer = "accept" <=> pc["accept"] = "locked"
  /\ \A c \in Clients : writer = c <=> cleanPc[c] = "locked"
  /\ \A c \in conns : outPc[c] # "absent"
  /\ \A c \in Clients : outPc[c] = "gone" => shutdown[c]

\* Initially nobody wants the lock.
LEMMA InitLock == Init => LockInv
BY ClientsAssumption DEF Init, LockInv, Procs

\* Steps that leave the writer and the clients' goroutines alone.
LEMMA LockFrame ==
  ASSUME LockInv, UNCHANGED <<conns, writer, cleanPc, outPc>>,
         pc'["accept"] = pc["accept"],
         \A c \in Clients : shutdown[c] => shutdown'[c]
  PROVE  LockInv'
BY DEF LockInv

\* The server's goroutines but "accept" preserve it.
LEMMA ServerLock ==
  ASSUME Inv, LockInv,
         \/ MainStep \/ MainReceive \/ ProcessExit \/ RouterStep
         \/ IncomingStep \/ KillStep \/ Signal
  PROVE  LockInv'
<1> USE DEF lockVars, flagVars, loopVars, workVars, lineVars, clientVars,
            history
<1>1. {"main", "router", "incoming", "accept", "kill"} \subseteq Procs
  BY DEF Procs
<1>2. ASSUME NEW p \in Procs \ {"accept"}, \E l : Goto(p, l),
             UNCHANGED <<conns, writer, cleanPc, outPc, shutdown>>
      PROVE  LockInv'
  <2>1. pc'["accept"] = pc["accept"]
    BY <1>1, <1>2 DEF Goto, Inv, TypeOK, PcOK
  <2> QED BY <1>2, <2>1, LockFrame
<1>3. ASSUME NEW p \in Procs \ {"accept"}, NEW S, NEW label,
             BeginLoop(p, S, label), UNCHANGED clientVars, UNCHANGED flagVars
      PROVE  LockInv'
  <2>1. \E l : Goto(p, l) BY <1>3 DEF BeginLoop
  <2>2. UNCHANGED <<conns, writer>> BY <1>3 DEF BeginLoop, RLock
  <2> QED BY <1>2, <1>3, <2>1, <2>2
<1>4. ASSUME NEW p \in Procs \ {"accept"}, NEW label, NEW next,
             EndLoop(p, label, next)
      PROVE  LockInv'
  <2>1. \E l : Goto(p, l) BY <1>4 DEF EndLoop
  <2>2. UNCHANGED <<conns, writer, cleanPc, outPc, shutdown>>
    BY <1>4 DEF EndLoop, RUnlock
  <2> QED BY <1>2, <2>1, <2>2
<1>5. CASE MainHandoff
  <2>1. pc'["accept"] = pc["accept"]
    BY <1>1, <1>5 DEF MainHandoff, Inv, TypeOK, PcOK
  <2> QED BY <1>5, <2>1, LockFrame DEF MainHandoff
<1>6. CASE MainReceive
  <2>1. \E l : Goto("main", l) BY <1>6 DEF MainReceive
  <2> QED BY <1>1, <1>2, <1>6, <2>1 DEF MainReceive
<1>7. CASE MainBeginLoop BY <1>1, <1>3, <1>7 DEF MainBeginLoop
<1>8. CASE MainEndLoop BY <1>1, <1>4, <1>8 DEF MainEndLoop
<1>9. CASE MainOpen BY <1>1, <1>2, <1>9 DEF MainOpen
<1>10. CASE MainReturn BY <1>1, <1>2, <1>10 DEF MainReturn
<1>11. CASE ProcessExit BY <1>1, <1>2, <1>11 DEF ProcessExit
<1>12. CASE RouterBeginLoop BY <1>1, <1>3, <1>12 DEF RouterBeginLoop
<1>13. CASE RouterEndLoop BY <1>1, <1>4, <1>13 DEF RouterEndLoop
<1>14. ASSUME NEW c \in Clients, IncomingReceive(c) PROVE LockInv'
  <2>1. \E l : Goto("incoming", l) BY <1>14 DEF IncomingReceive
  <2> QED BY <1>1, <1>2, <1>14, <2>1 DEF IncomingReceive
<1>15. CASE IncomingPosted BY <1>1, <1>2, <1>15 DEF IncomingPosted
<1>16. CASE IncomingBeginLoop BY <1>1, <1>3, <1>16 DEF IncomingBeginLoop
<1>17. CASE IncomingEndLoop BY <1>1, <1>4, <1>17 DEF IncomingEndLoop
<1>18. CASE IncomingExit BY <1>1, <1>2, <1>18 DEF IncomingExit
<1>19. CASE KillClose BY <1>1, <1>2, <1>19 DEF KillClose
<1>20. CASE KillSnapshot BY <1>1, <1>2, <1>20 DEF KillSnapshot
<1>21. ASSUME NEW c \in Clients, KillShutdown(c) PROVE LockInv'
  <2>1. \A d \in Clients : shutdown[d] => shutdown'[d]
    BY <1>21 DEF KillShutdown, Inv, TypeOK, FlagsOK
  <2> QED BY <1>21, <2>1, LockFrame DEF KillShutdown
<1>22. CASE KillDone BY <1>1, <1>2, <1>22 DEF KillDone
<1>23. CASE Signal BY <1>23, LockFrame DEF Signal
<1> QED BY <1>5, <1>6, <1>7, <1>8, <1>9, <1>10, <1>11, <1>12, <1>13, <1>14,
           <1>15, <1>16, <1>17, <1>18, <1>19, <1>20, <1>21, <1>22, <1>23
        DEF MainStep, RouterStep, IncomingStep, KillStep

\* Listen preserves it: a connection is inserted between Lock and Unlock, and
\* its goroutines are started with it.
LEMMA AcceptLocks ==
  ASSUME Inv, LockInv, AcceptStep \/ \E c \in Clients : Accept(c)
  PROVE  LockInv'
<1> USE DEF lockVars, flagVars, loopVars, workVars, lineVars, clientVars,
            history
<1>1. ASSUME NEW l, Goto("accept", l) PROVE pc'["accept"] = l
  BY <1>1 DEF Goto, Inv, TypeOK, PcOK, Procs
<1>2. CASE \E c \in Clients : Accept(c)
  <2>1. pc["accept"] = "accept" /\ pc'["accept"] = "lock"
    BY <1>1, <1>2 DEF Accept
  <2>2. UNCHANGED <<conns, writer, cleanPc, outPc, shutdown>>
    BY <1>2 DEF Accept
  <2> QED BY <2>1, <2>2 DEF LockInv
<1>3. CASE AcceptLock
  <2>1. pc'["accept"] = "locked" BY <1>1, <1>3 DEF AcceptLock
  <2>2. /\ writer = None /\ writer' = "accept"
        /\ UNCHANGED <<conns, cleanPc, outPc, shutdown>>
    BY <1>3 DEF AcceptLock
  <2> QED BY <2>1, <2>2, ClientsAssumption DEF LockInv
<1>4. CASE AcceptRegister
  <2>1. accepting \in Clients
    BY <1>4 DEF AcceptRegister, Inv, TypeOK, Newcomer
  <2>2. pc["accept"] = "locked" /\ pc'["accept"] = "accept"
    BY <1>1, <1>4 DEF AcceptRegister
  <2>3. /\ writer' = None
        /\ conns' = conns \cup {accepting}
        /\ outPc' = [outPc EXCEPT ![accepting] = "select"]
        /\ cleanPc' = [cleanPc EXCEPT ![accepting] = "wait"]
        /\ shutdown' = shutdown
    BY <1>4 DEF AcceptRegister
  <2>4. "accept" # None BY ClientsAssumption
  <2>5. \A c \in Clients : cleanPc'[c] # "locked"
    BY <2>1, <2>2, <2>3, ClientsAssumption
    DEF LockInv, Inv, TypeOK, ClientOK
  <2>6. conns \subseteq Clients BY DEF Inv, TypeOK, LockOK
  <2>7. \A c \in Clients :
          outPc'[c] = IF c = accepting THEN "select" ELSE outPc[c]
    BY <2>1, <2>3 DEF Inv, TypeOK, ClientOK
  <2> QED BY <2>1, <2>2, <2>3, <2>4, <2>5, <2>6, <2>7, ClientsAssumption
          DEF LockInv
<1>5. CASE AcceptClosed
  <2>1. pc["accept"] = "accept" /\ pc'["accept"] = "done"
    BY <1>1, <1>5 DEF AcceptClosed
  <2>2. UNCHANGED <<conns, writer, cleanPc, outPc, shutdown>>
    BY <1>5 DEF AcceptClosed
  <2> QED BY <2>1, <2>2 DEF LockInv
<1> QED BY <1>2, <1>3, <1>4, <1>5 DEF AcceptStep

\* The goroutines of a client preserve it.
LEMMA ClientLocks ==
  ASSUME Inv, LockInv, NEW c \in Clients,
         InStep(c) \/ ClientInput(c) \/ OutStep(c) \/ CleanStep(c)
  PROVE  LockInv'
<1> USE DEF lockVars, flagVars, loopVars, workVars, lineVars, clientVars,
            history
<1>1. ASSUME UNCHANGED <<conns, writer, cleanPc, outPc, pc>>,
             \/ shutdown' = shutdown
             \/ shutdown' = [shutdown EXCEPT ![c] = TRUE]
      PROVE  LockInv'
  <2>1. \A d \in Clients : shutdown[d] => shutdown'[d]
    BY <1>1 DEF Inv, TypeOK, FlagsOK
  <2> QED BY <1>1, <2>1, LockFrame
<1>2. CASE InSlackConnected(c) \/ InTop(c)
  BY <1>1, <1>2 DEF InSlackConnected, InTop
<1>3. CASE ClientInput(c)
  BY <1>1, <1>3 DEF ClientInput, InPrivmsg, InCommand, InEOF
<1>4. ASSUME NEW l \in {"write", "select"},
             outPc' = [outPc EXCEPT ![c] = l],
             UNCHANGED <<conns, writer, cleanPc, shutdown, pc>>
      PROVE  LockInv'
  BY <1>4 DEF LockInv, Inv, TypeOK, LockOK, ClientOK
<1>5. CASE InReply(c) BY <1>4, <1>5 DEF InReply
<1>6. CASE OutWrite(c) BY <1>4, <1>6 DEF OutWrite
<1>7. CASE OutExit(c)
  BY <1>7 DEF OutExit, LockInv, Inv, TypeOK, LockOK, ClientOK
<1>8. CASE CleanWake(c)
  <2>1. /\ cleanPc[c] = "wait" /\ cleanPc' = [cleanPc EXCEPT ![c] = "lock"]
        /\ UNCHANGED <<conns, writer, outPc, shutdown, pc>>
    BY <1>8 DEF CleanWake, CleanGoto
  <2> QED BY <2>1 DEF LockInv, Inv, TypeOK, ClientOK
<1>9. CASE CleanLock(c)
  <2>1. /\ writer = None /\ writer' = c
        /\ cleanPc' = [cleanPc EXCEPT ![c] = "locked"]
        /\ UNCHANGED <<conns, outPc, shutdown, pc>>
    BY <1>9 DEF CleanLock, CleanGoto
  <2> QED BY <2>1, ClientsAssumption DEF LockInv, Inv, TypeOK, ClientOK
<1>10. CASE CleanRemove(c)
  <2>1. /\ cleanPc[c] = "locked" /\ writer' = None /\ conns' = conns \ {c}
        /\ cleanPc' = [cleanPc EXCEPT ![c] = "done"]
        /\ UNCHANGED <<outPc, shutdown, pc>>
    BY <1>10 DEF CleanRemove, CleanGoto
  <2> QED BY <2>1, ClientsAssumption DEF LockInv, Inv, TypeOK, ClientOK
<1> QED BY <1>2, <1>3, <1>5, <1>6, <1>7, <1>8, <1>9, <1>10
        DEF InStep, OutStep, CleanStep

\* A line sent wakes the output goroutine of a client that has one.
LEMMA SendLock ==
  ASSUME Inv, LockInv, NEW g \in Fanners, SendLine(g)
  PROVE  LockInv'
<1>1. at[g] \in Clients BY SendLoop DEF Inv, TypeOK, LockOK
<1>2. /\ outPc' = [outPc EXCEPT ![at[g]] = "write"]
      /\ UNCHANGED <<conns, writer, cleanPc, shutdown, pc>>
  BY DEF SendLine, lockVars, flagVars
<1> QED BY <1>1, <1>2 DEF LockInv, Inv, TypeOK, LockOK, ClientOK

\* In every behaviour the lock has the owner it is meant to have.
THEOREM LockInvariant == Spec => [](Inv /\ LockInv)
<1>1. Inv /\ LockInv /\ [Next]_vars => (Inv /\ LockInv)'
  <2> SUFFICES ASSUME Inv, LockInv, [Next]_vars PROVE LockInv'
    BY NextInv
  <2>1. CASE UNCHANGED vars BY <2>1, LockFrame DEF vars
  <2>2. CASE Next
    BY <2>2, ServerLock, AcceptLocks, ClientLocks, SendLock
    DEF Next, Environment, ClientInput
  <2> QED BY <2>1, <2>2
<1>2. Init => Inv /\ LockInv BY InitInv, InitLock
<1> QED BY <1>1, <1>2, PTL DEF Spec

\* If nothing can move although something was begun, all that hold the lock
\* wait for clients that are gone: without them the writer could have it, and
\* without a writer everybody else.
LEMMA StuckHolders ==
  ASSUME Inv, LockInv
  PROVE  StuckOnlyOnGone
<1> SUFFICES ASSUME Busy, ~CanMove
    PROVE  readers # {} /\ \A g \in readers : Hung(g)
  BY DEF StuckOnlyOnGone
<1>1. \A g \in Fanners : g \in readers <=> pc[g] \in Looping
  BY DEF Inv, LoopInv
<1>2. readers \subseteq Fanners BY DEF Inv, TypeOK, LockOK
<1>3. ASSUME NEW g \in readers PROVE Hung(g)
  <2>1. g \in Fanners /\ pc[g] \in Looping BY <1>1, <1>2
  <2>2. at[g] # None /\ outPc[at[g]] \notin {"select", "write"}
    BY <2>1 DEF CanMove
  <2>3. at[g] \in conns BY <2>1, <2>2 DEF Inv, LoopInv, Waiting
  <2>4. at[g] \in Clients BY <2>3 DEF Inv, TypeOK, LockOK
  <2>5. outPc[at[g]] # "absent" BY <2>3 DEF LockInv
  <2>6. outPc[at[g]] \in {"absent", "select", "write", "gone"}
    BY <2>4 DEF Inv, TypeOK, ClientOK
  <2> QED BY <2>1, <2>2, <2>5, <2>6 DEF Hung
<1>4. ASSUME readers = {} PROVE FALSE
  <2>1. \A g \in Fanners : pc[g] \notin Looping BY <1>1, <1>4
  <2>2. /\ pc["accept"] # "locked"
        /\ \A c \in Clients : cleanPc[c] # "locked"
    BY <1>4 DEF CanMove
  <2>3. writer = None BY <2>2 DEF LockInv, Inv, TypeOK, LockOK
  <2>4. ~WantsLock BY <2>3 DEF CanMove
  <2>5. pc["router"] \in {"recv", "route", "routeLoop"}
    BY Labels DEF Inv, TypeOK, PcOK, Procs
  <2>6. pc["router"] = "recv"
    BY <2>1, <2>4, <2>5 DEF WantsLock, Fanners, Looping
  <2>7. pc["main"] \notin {"handoff", "nick", "nickLoop", "open", "join",
                          "joinLoop"}
    BY <2>1, <2>4, <2>6 DEF CanMove, WantsLock, Fanners, Looping
  <2>8. pc["incoming"] \notin {"post", "notice", "noticeLoop", "relay",
                              "relayLoop"}
    BY <2>1, <2>4 DEF CanMove, WantsLock, Fanners, Looping
  <2>9. /\ pc["accept"] \notin {"lock", "locked"}
        /\ pc["kill"] \notin {"snapshot", "closing"}
        /\ \A c \in Clients : cleanPc[c] \notin {"lock", "locked"}
    BY <2>2, <2>4 DEF CanMove, WantsLock
  <2> QED BY <2>6, <2>7, <2>8, <2>9 DEF Busy
<1> QED BY <1>3, <1>4

\* The goroutines never deadlock among themselves, for any number of clients:
\* what stands still for ever waits for a client that is gone.
THEOREM NeverStuckOtherwise == Spec => []StuckOnlyOnGone
<1>1. Inv /\ LockInv => StuckOnlyOnGone BY StuckHolders
<1> QED BY LockInvariant, <1>1, PTL

\* As long as nobody hangs up and no SIGINT comes, whatever was begun can go on.
THEOREM NeverStuckUndisturbed == Spec => [](Busy /\ ~Disturbed => CanMove)
<1>1. Inv /\ LockInv => (Busy /\ ~Disturbed => CanMove)
  <2> SUFFICES ASSUME Inv, LockInv, Busy, ~Disturbed, ~CanMove PROVE FALSE
    OBVIOUS
  <2>1. PICK g \in readers : Hung(g) BY StuckHolders DEF StuckOnlyOnGone
  <2>2. outPc[at[g]] = "gone" /\ at[g] \in Clients
    BY <2>1, ClientsAssumption DEF Hung, Inv, TypeOK, LockOK, LoopOK
  <2>3. shutdown[at[g]] BY <2>2 DEF LockInv
  <2> QED BY <2>2, <2>3 DEF Disturbed
<1> QED BY LockInvariant, <1>1, PTL

(***************************************************************************)
(* The relay implements Broadcast, for each originator                     *)
(***************************************************************************)

\* What the clients other than o see of the PRIVMSGs of o is as it was.
SameRelay(o) ==
  /\ conns' \ {o} = conns \ {o}
  /\ sent'[o] = sent[o]
  /\ \A c \in Clients : heard'[c][o] = heard[c][o]

\* Then the broadcast stutters.
LEMMA RelayStutters ==
  ASSUME NEW o \in Clients, SameRelay(o)
  PROVE  UNCHANGED Peers(o)!vars
<1>1. [c \in Clients |-> heard'[c][o]] = [c \in Clients |-> heard[c][o]]
  BY DEF SameRelay
<1> QED BY <1>1 DEF SameRelay, Peers!vars

\* The steps that do not touch what the broadcast is made of.
LEMMA QuietRelay ==
  ASSUME NEW o \in Clients, UNCHANGED <<conns, sent, heard>>
  PROVE  UNCHANGED Peers(o)!vars
BY RelayStutters DEF SameRelay

\* A PRIVMSG is taken only when all have the ones before.
LEMMA ReceiveRelay ==
  ASSUME Inv, PeerInv, NEW o \in Clients, NEW c \in Clients, IncomingReceive(c)
  PROVE  [Peers(o)!Next]_(Peers(o)!vars)
<1>1. /\ pc["incoming"] = "select" /\ origin = None
      /\ sent' = [sent EXCEPT ![c] = sent[c] + 1]
      /\ UNCHANGED <<conns, heard>>
  BY DEF IncomingReceive, PeerInv, lockVars
<1>2. \A d \in conns \ {o} : heard[d][o] = sent[o]
  BY <1>1, ClientsAssumption DEF PeerInv, PeersInStep, NotRelayedYet
<1>3. sent'[o] = IF o = c THEN sent[o] + 1 ELSE sent[o]
  BY <1>1 DEF Inv, TypeOK, HistoryOK
<1>4. CASE o = c
  <2>1. conns \ {o} \subseteq Clients BY DEF Inv, TypeOK, LockOK
  <2>2. \A d \in conns \ {o} : [e \in Clients |-> heard[e][o]][d] = sent[o]
    BY <1>2, <2>1
  <2>3. Peers(o)!Publish BY <1>1, <1>3, <1>4, <2>2 DEF Peers!Publish
  <2> QED BY <2>3 DEF Peers!Next
<1>5. CASE o # c
  <2>1. SameRelay(o) BY <1>1, <1>3, <1>5 DEF SameRelay
  <2> QED BY <2>1, RelayStutters
<1> QED BY <1>4, <1>5

\* A line sent by the relay is a delivery, or one the client had already; any
\* other line is none.
LEMMA SendRelay ==
  ASSUME Inv, PeerInv, NEW o \in Clients, NEW g \in Fanners, SendLine(g)
  PROVE  [Peers(o)!Next]_(Peers(o)!vars)
<1>1. UNCHANGED <<conns, sent>> BY DEF SendLine, lockVars
<1>2. at[g] \in conns /\ at[g] \in Clients
  BY SendLoop DEF Inv, TypeOK, LockOK
<1>3. CASE pc[g] # "relayLoop"
  <2>1. heard' = heard BY <1>3 DEF SendLine
  <2> QED BY <1>1, <2>1, QuietRelay
<1>4. CASE pc[g] = "relayLoop"
  <2>1. g = "incoming"
    BY <1>4, Labels DEF Inv, TypeOK, PcOK, Procs, Fanners
  <2>2. origin \in Clients /\ at[g] # origin
    BY <1>4, <2>1 DEF PeerInv, Waiting, Inv, TypeOK
  <2>3. heard' = [heard EXCEPT ![at[g]][origin] = sent[origin]]
    BY <1>4 DEF SendLine
  <2>4. \A c \in Clients :
          heard'[c][o] = IF c = at[g] /\ o = origin THEN sent[o] ELSE heard[c][o]
    BY <1>2, <2>2, <2>3 DEF Inv, TypeOK, HistoryOK
  <2>5. CASE o # origin \/ heard[at[g]][o] = sent[o]
    <3>1. SameRelay(o) BY <1>1, <2>4, <2>5 DEF SameRelay
    <3> QED BY <3>1, RelayStutters
  <2>6. CASE o = origin /\ heard[at[g]][o] # sent[o]
    <3>1. heard[at[g]][o] = sent[o] - 1
      BY <1>2, <2>2, <2>6 DEF PeerInv, PeersInStep
    <3>2. sent[o] \in Nat /\ heard[at[g]][o] \in Nat
      BY <1>2 DEF Inv, TypeOK, HistoryOK
    <3> DEFINE p == [c \in Clients |-> heard[c][o]]
    <3>3. p[at[g]] = heard[at[g]][o] BY <1>2
    <3>4. p[at[g]] < sent[o] /\ p[at[g]] + 1 = sent[o] BY <3>1, <3>2, <3>3
    <3>5. [c \in Clients |-> heard'[c][o]] = [p EXCEPT ![at[g]] = p[at[g]] + 1]
      BY <1>2, <2>4, <2>6, <3>4
    <3>6. at[g] \in conns \ {o} BY <1>2, <2>2, <2>6
    <3>7. PICK c \in Clients : c = at[g] BY <1>2
    <3>8. Peers(o)!Deliver(c)
      BY <1>1, <3>4, <3>5, <3>6, <3>7 DEF Peers!Deliver
    <3> QED BY <3>8 DEF Peers!Next
  <2> QED BY <2>5, <2>6
<1> QED BY <1>3, <1>4

\* A newcomer joins with the next PRIVMSG of every other client.
LEMMA RegisterRelay ==
  ASSUME Inv, PeerInv, NEW o \in Clients, AcceptRegister
  PROVE  [Peers(o)!Next]_(Peers(o)!vars)
<1>1. /\ accepting \in Clients /\ inPc[accepting] = "absent"
      /\ accepting \notin conns
  BY DEF AcceptRegister, Inv, TypeOK, Newcomer
<1>2. /\ conns' = conns \cup {accepting} /\ sent' = sent
      /\ heard' = [heard EXCEPT ![accepting] = sent]
  BY DEF AcceptRegister
<1>3. \A c \in Clients :
        heard'[c][o] = IF c = accepting THEN sent[o] ELSE heard[c][o]
  BY <1>1, <1>2 DEF Inv, TypeOK, HistoryOK
<1>4. CASE accepting = o
  <2>1. sent[o] = 0 /\ heard[o][o] = 0
    BY <1>1, <1>4 DEF PeerInv, NoSelfEcho
  <2>2. SameRelay(o) BY <1>2, <1>3, <1>4, <2>1 DEF SameRelay
  <2> QED BY <2>2, RelayStutters
<1>5. CASE accepting # o
  <2>1. conns' \ {o} = (conns \ {o}) \cup {accepting} BY <1>2, <1>5
  <2>2. [c \in Clients |-> heard'[c][o]]
          = [[c \in Clients |-> heard[c][o]] EXCEPT ![accepting] = sent[o]]
    BY <1>1, <1>3
  <2>3. PICK c \in Clients : c = accepting BY <1>1
  <2>4. Peers(o)!Join(c)
    BY <1>1, <1>2, <2>1, <2>2, <2>3 DEF Peers!Join
  <2> QED BY <2>4 DEF Peers!Next
<1> QED BY <1>4, <1>5

\* A client that is cleaned up leaves.
LEMMA RemoveRelay ==
  ASSUME Inv, NEW o \in Clients, NEW c \in Clients, CleanRemove(c)
  PROVE  [Peers(o)!Next]_(Peers(o)!vars)
<1>1. conns' = conns \ {c} /\ UNCHANGED <<sent, heard>>
  BY DEF CleanRemove, history
<1>2. CASE c \in conns \ {o}
  <2>1. conns' \ {o} = (conns \ {o}) \ {c} BY <1>1
  <2>2. Peers(o)!Leave(c) BY <1>1, <1>2, <2>1 DEF Peers!Leave
  <2> QED BY <2>2 DEF Peers!Next
<1>3. CASE c \notin conns \ {o}
  <2>1. SameRelay(o) BY <1>1, <1>3 DEF SameRelay
  <2> QED BY <2>1, RelayStutters
<1> QED BY <1>2, <1>3

\* Every step of the goroutines is a step of each of these broadcasts.
LEMMA StepRelay ==
  ASSUME Inv, PeerInv, NEW o \in Clients, [Next]_vars
  PROVE  [Peers(o)!Next]_(Peers(o)!vars)
<1> USE DEF lockVars, clientVars, history
<1>1. CASE \/ MainStep \/ MainReceive \/ ProcessExit \/ RouterStep
           \/ AcceptLock \/ AcceptClosed \/ (\E c \in Clients : Accept(c))
           \/ KillStep \/ Signal
  <2>1. UNCHANGED <<conns, sent, heard>>
    BY <1>1
    DEF MainStep, MainReceive, ProcessExit, MainHandoff, MainBeginLoop,
        MainEndLoop, MainOpen, MainReturn, RouterStep, RouterBeginLoop,
        RouterEndLoop, AcceptLock, AcceptClosed, Accept, KillStep, KillClose,
        KillSnapshot, KillShutdown, KillDone, Signal, BeginLoop, EndLoop,
        RLock, RUnlock
  <2> QED BY <2>1, QuietRelay
<1>2. CASE \/ IncomingPosted \/ IncomingBeginLoop \/ IncomingEndLoop
           \/ IncomingExit
  <2>1. UNCHANGED <<conns, sent, heard>>
    BY <1>2
    DEF IncomingPosted, IncomingBeginLoop, IncomingEndLoop, IncomingExit,
        BeginLoop, EndLoop, RLock, RUnlock
  <2> QED BY <2>1, QuietRelay
<1>3. ASSUME NEW c \in Clients,
             \/ InStep(c) \/ ClientInput(c) \/ OutStep(c)
             \/ CleanWake(c) \/ CleanLock(c)
      PROVE  [Peers(o)!Next]_(Peers(o)!vars)
  <2>1. UNCHANGED <<conns, sent, heard>>
    BY <1>3
    DEF InStep, ClientInput, OutStep, CleanWake, CleanLock, InSlackConnected,
        InTop, InReply, InPrivmsg, InCommand, InEOF, OutWrite, OutExit
  <2> QED BY <2>1, QuietRelay
<1>4. CASE UNCHANGED vars BY <1>4, QuietRelay DEF vars
<1> QED BY <1>1, <1>2, <1>3, <1>4, ReceiveRelay, SendRelay, RegisterRelay,
           RemoveRelay
        DEF Next, Environment, IncomingStep, AcceptStep, CleanStep, ClientInput

\* Whatever client o says is, for the clients that are connected meanwhile, a
\* lockstep, gap-free broadcast that o itself has no part in.
THEOREM RelayRefinement == Spec => RelayImplementsBroadcast
<1>1. Init => \A o \in Clients : Peers(o)!Init
  BY DEF Init, Peers!Init
<1>2. Inv /\ PeerInv /\ [Next]_vars =>
        [\A o \in Clients : [Peers(o)!Next]_(Peers(o)!vars)]_vars
  BY StepRelay
<1> QED BY PeerInvariant, <1>1, <1>2, PTL DEF Spec, RelayImplementsBroadcast

\* So the goroutines implement the broadcast of what Slack sends and those of
\* what the clients say to each other.
THEOREM Refinement == Spec => ImplementsBroadcast
BY RoutedRefinement, RelayRefinement DEF ImplementsBroadcast

=============================================================================
