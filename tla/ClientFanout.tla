---------------------------- MODULE ClientFanout ----------------------------
(***************************************************************************)
(* The goroutines of one tanya gateway that carry lines to IRC clients:    *)
(*                                                                         *)
(*   "main"      main.writeMessageLoop, the only reader of Slack events;   *)
(*               it runs HandleConnectBurst and HandleChannelJoined itself *)
(*   "router"    Server.HandleOutgoingMessageRouting                       *)
(*   "incoming"  Server.handleIncomingMessageRouting                       *)
(*   "accept"    Server.Listen                                             *)
(*   "kill"      Server.waitForKillListener                                *)
(*   per client  handleConnInput (in), handleConnOutput (out) and          *)
(*               waitForClientCleanup (clean)                              *)
(*                                                                         *)
(* They share Server.clientConnections under Server.RWMutex, and they meet *)
(* on unbuffered channels: a send and its receive are one step of the      *)
(* model, and a goroutine whose peer never comes stays where it is.        *)
(*                                                                         *)
(* Bounds (guards of the environment's actions only): MaxEvents Slack      *)
(* events, MaxLines lines typed by each client.  A client address connects *)
(* at most once: each TCP connection is a new key of clientConnections.    *)
(***************************************************************************)
EXTENDS Naturals

CONSTANTS
  Clients,     \* the connections that may be made to the IRC listener
  Leavers,     \* those of them whose peer may hang up
  None,        \* no client
  MaxEvents,   \* bound: events taken from the Slack side
  MaxLines,    \* bound: lines typed by each client
  JoinLines,   \* lines of the response to a Slack-initiated join
  MaxReplies,  \* most lines the server answers one client line with
  MaySignal    \* whether SIGINT may arrive

ASSUME ClientsAssumption ==
  /\ None \notin Clients
  /\ "accept" \notin Clients \cup {None}
  /\ Leavers \subseteq Clients
ASSUME BoundsAssumption ==
  /\ MaxEvents \in Nat /\ MaxLines \in Nat
  /\ JoinLines \in Nat \ {0} /\ MaxReplies \in Nat
  /\ MaySignal \in BOOLEAN

VARIABLES
  conns,       \* Server.clientConnections: the registered connections
  readers,     \* goroutines that hold the RWMutex for reading
  writer,      \* goroutine between its call of Lock and its Unlock, or None
  stop,        \* stopChan is closed
  connected,   \* initChan is closed
  shutdown,    \* shutdown[c]: cc.shutdown is closed
  panicked,    \* some goroutine closed a closed channel
  pc,          \* where the five server goroutines are
  todo,        \* todo[g]: clients g's range loop has not reached yet
  at,          \* at[g]: client whose outgoingMessages g is sending to, or None
  left,        \* left[g]: lines g still has for that client
  origin,      \* client whose PRIVMSG "incoming" is working on, or None
  accepting,   \* connection "accept" is registering, or None
  inPc, outPc, cleanPc,  \* where the three goroutines of a client are
  owing,       \* owing[c]: reply lines in(c) still has to queue
  registered,  \* registered[c]: cc.state = clientStateRegistered
  typed,       \* typed[c]: lines read from c
  taken,       \* Slack events "main" has received
  fanned,      \* history: routed events "router" began to fan out
  pos,         \* history: pos[c] is the last routed event out(c) received
  sent,        \* history: sent[c] PRIVMSGs of c that "incoming" took
  heard        \* history: heard[c][o] is the last PRIVMSG of o that c got, or
               \* that was taken before c connected

lockVars == <<conns, readers, writer>>
flagVars == <<stop, connected, shutdown, panicked>>
workVars == <<origin, accepting>>
lineVars == <<owing, registered, typed>>
loopVars == <<todo, at, left>>
clientVars == <<inPc, outPc, cleanPc, owing, registered, typed>>
history == <<fanned, pos, sent, heard>>
vars == <<conns, readers, writer, stop, connected, shutdown, panicked, pc,
          todo, at, left, origin, accepting, inPc, outPc, cleanPc, owing,
          registered, typed, taken, fanned, pos, sent, heard>>

\* The server's goroutines and their labels.
Procs == {"main", "router", "incoming", "accept", "kill"}
LabelsOf(p) ==
  CASE p = "main" -> {"select", "handoff", "nick", "nickLoop", "open", "join",
                      "joinLoop", "returned", "exited"}
    [] p = "router" -> {"recv", "route", "routeLoop"}
    [] p = "incoming" -> {"select", "post", "notice", "noticeLoop", "relay",
                          "relayLoop", "done"}
    [] p = "accept" -> {"accept", "lock", "locked", "done"}
    [] p = "kill" -> {"wait", "snapshot", "closing", "done"}

\* Those with a loop over clientConnections, and the loops.
Fanners == {"main", "router", "incoming"}
Looping == {"nickLoop", "joinLoop", "routeLoop", "noticeLoop", "relayLoop"}

\* Lines the loop at label l sends to each client.
Width(l) == IF l = "joinLoop" THEN JoinLines ELSE 1

LockOK ==
  /\ conns \subseteq Clients
  /\ readers \subseteq Fanners
  /\ writer \in Clients \cup {"accept", None}

FlagsOK ==
  /\ stop \in BOOLEAN /\ connected \in BOOLEAN /\ panicked \in BOOLEAN
  /\ shutdown \in [Clients -> BOOLEAN]

PcOK ==
  /\ pc \in [Procs -> UNION {LabelsOf(p) : p \in Procs}]
  /\ \A p \in Procs : pc[p] \in LabelsOf(p)

LoopOK ==
  /\ todo \in [Fanners \cup {"kill"} -> SUBSET Clients]
  /\ at \in [Fanners -> Clients \cup {None}]
  /\ left \in [Fanners -> Nat]

ClientOK ==
  /\ inPc \in [Clients -> {"absent", "waitSlack", "top", "scan", "reply",
                           "toServer", "done"}]
  /\ outPc \in [Clients -> {"absent", "select", "write", "gone"}]
  /\ cleanPc \in [Clients -> {"absent", "wait", "lock", "locked", "done"}]
  /\ owing \in [Clients -> Nat]
  /\ registered \in [Clients -> BOOLEAN]
  /\ typed \in [Clients -> Nat]

HistoryOK ==
  /\ fanned \in Nat
  /\ pos \in [Clients -> Nat]
  /\ sent \in [Clients -> Nat]
  /\ heard \in [Clients -> [Clients -> Nat]]

TypeOK ==
  /\ LockOK /\ FlagsOK /\ PcOK /\ LoopOK /\ ClientOK /\ HistoryOK
  /\ origin \in Clients \cup {None}
  /\ accepting \in Clients \cup {None}
  /\ taken \in Nat

Init ==
  /\ conns = {} /\ readers = {} /\ writer = None
  /\ stop = FALSE /\ connected = FALSE /\ panicked = FALSE
  /\ shutdown = [c \in Clients |-> FALSE]
  /\ pc = [p \in Procs |-> CASE p = "router" -> "recv"
                             [] p = "accept" -> "accept"
                             [] p = "kill" -> "wait"
                             [] OTHER -> "select"]
  /\ todo = [g \in Fanners \cup {"kill"} |-> {}]
  /\ at = [g \in Fanners |-> None]
  /\ left = [g \in Fanners |-> 0]
  /\ origin = None /\ accepting = None
  /\ inPc = [c \in Clients |-> "absent"]
  /\ outPc = [c \in Clients |-> "absent"]
  /\ cleanPc = [c \in Clients |-> "absent"]
  /\ owing = [c \in Clients |-> 0]
  /\ registered = [c \in Clients |-> FALSE]
  /\ typed = [c \in Clients |-> 0]
  /\ taken = 0 /\ fanned = 0
  /\ pos = [c \in Clients |-> 0]
  /\ sent = [c \in Clients |-> 0]
  /\ heard = [c \in Clients |-> [o \in Clients |-> 0]]

(***************************************************************************)
(* The range loop over clientConnections, shared by every fan-out.         *)
(***************************************************************************)

Goto(g, label) == pc' = [pc EXCEPT ![g] = label]

\* sync.RWMutex: a reader waits for a writer that holds the lock and for one
\* that has announced itself.
RLock(g) ==
  /\ writer = None
  /\ readers' = readers \cup {g}
  /\ UNCHANGED <<conns, writer>>

RUnlock(g) ==
  /\ readers' = readers \ {g}
  /\ UNCHANGED <<conns, writer>>

\* Mutant of Visit: the loop leaves its last client out.
VisitDropsLast(g, S, width) ==
  \/ /\ \A c, d \in S : c = d
     /\ at' = [at EXCEPT ![g] = None]
     /\ todo' = [todo EXCEPT ![g] = {}]
     /\ left' = [left EXCEPT ![g] = 0]
  \/ \E c \in S :
       /\ S # {c}
       /\ at' = [at EXCEPT ![g] = c]
       /\ todo' = [todo EXCEPT ![g] = S \ {c}]
       /\ left' = [left EXCEPT ![g] = width]

\* The iteration goes on with a client of S, in no fixed order (a Go map), and
\* blocks on that client's channel.
Visit(g, S, width) ==
  \/ /\ S = {}
     /\ at' = [at EXCEPT ![g] = None]
     /\ todo' = [todo EXCEPT ![g] = {}]
     /\ left' = [left EXCEPT ![g] = 0]
  \/ \E c \in S :
       /\ at' = [at EXCEPT ![g] = c]
       /\ todo' = [todo EXCEPT ![g] = S \ {c}]
       /\ left' = [left EXCEPT ![g] = width]

BeginLoop(g, S, label) ==
  /\ RLock(g)
  /\ Visit(g, S, Width(label))
  /\ Goto(g, label)

\* conn.outgoingMessages <- line: out(c) must be in its select.
SendLine(g) ==
  /\ pc[g] \in Looping
  /\ at[g] # None
  /\ outPc[at[g]] = "select"
  /\ outPc' = [outPc EXCEPT ![at[g]] = "write"]
  /\ IF left[g] > 1
     THEN /\ left' = [left EXCEPT ![g] = left[g] - 1]
          /\ UNCHANGED <<at, todo>>
     ELSE Visit(g, todo[g], Width(pc[g]))
  /\ pos' = IF g = "router" THEN [pos EXCEPT ![at[g]] = fanned] ELSE pos
  /\ heard' = IF pc[g] = "relayLoop"
              THEN [heard EXCEPT ![at[g]][origin] = sent[origin]]
              ELSE heard
  /\ UNCHANGED <<lockVars, flagVars, pc, workVars, inPc, cleanPc, lineVars,
                 taken, fanned, sent>>

\* Mutant of EndLoop: it forgets to unlock.
EndLoopKeepsLock(g, label, next) ==
  /\ pc[g] = label
  /\ at[g] = None
  /\ Goto(g, next)
  /\ UNCHANGED <<lockVars, flagVars, loopVars, accepting, clientVars, taken,
                 history>>

\* The loop is over: RUnlock and go on at label next.
EndLoop(g, label, next) ==
  /\ pc[g] = label
  /\ at[g] = None
  /\ RUnlock(g)
  /\ Goto(g, next)
  /\ UNCHANGED <<flagVars, loopVars, accepting, clientVars, taken, history>>

(***************************************************************************)
(* main: writeMessageLoop, with the handlers it calls in its own goroutine *)
(***************************************************************************)

\* An event arrives on recvChan while main is in its select: a message-like
\* event, a connect burst that changes the gateway's user, one that does not,
\* or a join of the gateway's user.
MainReceive ==
  /\ pc["main"] = "select"
  /\ taken < MaxEvents
  /\ taken' = taken + 1
  /\ \/ Goto("main", "handoff")
     \/ Goto("main", "nick")
     \/ connected /\ Goto("main", "open")
     \/ Goto("main", "join")
  /\ UNCHANGED <<lockVars, flagVars, loopVars, workVars, clientVars, history>>

\* sendChan <- msg meets the router's receive.
MainHandoff ==
  /\ pc["main"] = "handoff"
  /\ pc["router"] = "recv"
  /\ pc' = [pc EXCEPT !["main"] = "select", !["router"] = "route"]
  /\ UNCHANGED <<lockVars, flagVars, loopVars, workVars, clientVars, taken,
                 history>>

\* HandleConnectBurst (the NICK line) and HandleChannelJoined take the lock.
MainBeginLoop ==
  /\ \/ pc["main"] = "nick" /\ BeginLoop("main", conns, "nickLoop")
     \/ pc["main"] = "join" /\ BeginLoop("main", conns, "joinLoop")
  /\ UNCHANGED <<flagVars, workVars, clientVars, taken, history>>

MainEndLoop ==
  /\ \/ EndLoop("main", "nickLoop", "open")
     \/ EndLoop("main", "joinLoop", "select")
  /\ UNCHANGED origin

\* initOnce.Do(close(initChan)).
MainOpen ==
  /\ pc["main"] = "open"
  /\ connected' = TRUE
  /\ Goto("main", "select")
  /\ UNCHANGED <<lockVars, stop, shutdown, panicked, loopVars, workVars,
                 clientVars, taken, history>>

\* <-stopChan: writeMessageLoop returns.
MainReturn ==
  /\ pc["main"] = "select"
  /\ stop
  /\ Goto("main", "returned")
  /\ UNCHANGED <<lockVars, flagVars, loopVars, workVars, clientVars, taken,
                 history>>

\* wg.Wait() is over too: the loops of the other gateways have returned.
ProcessExit ==
  /\ pc["main"] = "returned"
  /\ Goto("main", "exited")
  /\ UNCHANGED <<lockVars, flagVars, loopVars, workVars, clientVars, taken,
                 history>>

(***************************************************************************)
(* router: HandleOutgoingMessageRouting                                    *)
(***************************************************************************)

RouterBeginLoop ==
  /\ pc["router"] = "route"
  /\ BeginLoop("router", conns, "routeLoop")
  /\ fanned' = fanned + 1
  /\ UNCHANGED <<flagVars, workVars, clientVars, taken, pos, sent, heard>>

RouterEndLoop ==
  /\ EndLoop("router", "routeLoop", "recv")
  /\ UNCHANGED origin

(***************************************************************************)
(* incoming: handleIncomingMessageRouting                                  *)
(***************************************************************************)

\* serverChan: in(c) hands its PRIVMSG over.
IncomingReceive(c) ==
  /\ pc["incoming"] = "select"
  /\ inPc[c] = "toServer"
  /\ Goto("incoming", "post")
  /\ origin' = c
  /\ sent' = [sent EXCEPT ![c] = sent[c] + 1]
  /\ inPc' = [inPc EXCEPT ![c] = "top"]
  /\ UNCHANGED <<lockVars, flagVars, loopVars, accepting, outPc, cleanPc,
                 lineVars, taken, fanned, pos, heard>>

\* handleIncomingMessage returns, with an error to broadcast or without one.
IncomingPosted ==
  /\ pc["incoming"] = "post"
  /\ Goto("incoming", "notice") \/ Goto("incoming", "relay")
  /\ UNCHANGED <<lockVars, flagVars, loopVars, workVars, clientVars, taken,
                 history>>

\* Mutant of IncomingBeginLoop: the originator is not skipped.
IncomingRelaysToAll ==
  /\ \/ pc["incoming"] = "notice" /\ BeginLoop("incoming", conns, "noticeLoop")
     \/ pc["incoming"] = "relay" /\ BeginLoop("incoming", conns, "relayLoop")
  /\ UNCHANGED <<flagVars, workVars, clientVars, taken, history>>

\* broadcastFromInternalUser to all; then the line to all but its originator.
IncomingBeginLoop ==
  /\ \/ pc["incoming"] = "notice" /\ BeginLoop("incoming", conns, "noticeLoop")
     \/ /\ pc["incoming"] = "relay"
        /\ BeginLoop("incoming", conns \ {origin}, "relayLoop")
  /\ UNCHANGED <<flagVars, workVars, clientVars, taken, history>>

\* Mutant of IncomingEndLoop: a PRIVMSG that Slack refused is not relayed.
IncomingDropsFailed ==
  /\ \/ EndLoop("incoming", "noticeLoop", "select")
     \/ EndLoop("incoming", "relayLoop", "select")
  /\ origin' = None

IncomingEndLoop ==
  \/ EndLoop("incoming", "noticeLoop", "relay") /\ UNCHANGED origin
  \/ EndLoop("incoming", "relayLoop", "select") /\ origin' = None

IncomingExit ==
  /\ pc["incoming"] = "select"
  /\ stop
  /\ Goto("incoming", "done")
  /\ UNCHANGED <<lockVars, flagVars, loopVars, workVars, clientVars, taken,
                 history>>

(***************************************************************************)
(* accept: Listen                                                          *)
(***************************************************************************)

\* AcceptTCP returns a connection; the listener is open until "kill" closes it.
Accept(c) ==
  /\ pc["accept"] = "accept"
  /\ pc["kill"] = "wait"
  /\ inPc[c] = "absent"
  /\ accepting' = c
  /\ Goto("accept", "lock")
  /\ UNCHANGED <<lockVars, flagVars, loopVars, origin, clientVars, taken,
                 history>>

\* s.Lock(): announce, wait for the readers to leave, insert, s.Unlock(); the
\* connection's three goroutines start.
AcceptLock ==
  /\ pc["accept"] = "lock"
  /\ writer = None
  /\ writer' = "accept"
  /\ Goto("accept", "locked")
  /\ UNCHANGED <<conns, readers, flagVars, loopVars, workVars, clientVars,
                 taken, history>>

AcceptRegister ==
  /\ pc["accept"] = "locked"
  /\ readers = {}
  /\ writer' = None
  /\ conns' = conns \cup {accepting}
  /\ inPc' = [inPc EXCEPT ![accepting] = "waitSlack"]
  /\ outPc' = [outPc EXCEPT ![accepting] = "select"]
  /\ cleanPc' = [cleanPc EXCEPT ![accepting] = "wait"]
  /\ pos' = [pos EXCEPT ![accepting] = fanned]
  /\ heard' = [heard EXCEPT ![accepting] = sent]
  /\ accepting' = None
  /\ Goto("accept", "accept")
  /\ UNCHANGED <<readers, flagVars, loopVars, origin, lineVars, taken, fanned,
                 sent>>

AcceptClosed ==
  /\ pc["accept"] = "accept"
  /\ pc["kill"] # "wait"
  /\ Goto("accept", "done")
  /\ UNCHANGED <<lockVars, flagVars, loopVars, workVars, clientVars, taken,
                 history>>

(***************************************************************************)
(* kill: killHandler and waitForKillListener                               *)
(***************************************************************************)

\* SIGINT: killHandler closes stopChan.
Signal ==
  /\ MaySignal
  /\ ~stop
  /\ stop' = TRUE
  /\ UNCHANGED <<lockVars, connected, shutdown, panicked, pc, loopVars,
                 workVars, clientVars, taken, history>>

KillClose ==
  /\ pc["kill"] = "wait"
  /\ stop
  /\ Goto("kill", "snapshot")
  /\ UNCHANGED <<lockVars, flagVars, loopVars, workVars, clientVars, taken,
                 history>>

\* RLock, copy clientConnections, RUnlock: one step, nothing happens between.
KillSnapshot ==
  /\ pc["kill"] = "snapshot"
  /\ writer = None
  /\ todo' = [todo EXCEPT !["kill"] = conns]
  /\ Goto("kill", "closing")
  /\ UNCHANGED <<lockVars, flagVars, at, left, workVars, clientVars, taken,
                 history>>

\* close(conn.shutdown), which panics when the channel is closed already.
KillShutdown(c) ==
  /\ pc["kill"] = "closing"
  /\ c \in todo["kill"]
  /\ todo' = [todo EXCEPT !["kill"] = todo["kill"] \ {c}]
  /\ panicked' = shutdown[c]
  /\ shutdown' = [shutdown EXCEPT ![c] = TRUE]
  /\ UNCHANGED <<lockVars, stop, connected, pc, at, left, workVars, clientVars,
                 taken, history>>

KillDone ==
  /\ pc["kill"] = "closing"
  /\ todo["kill"] = {}
  /\ Goto("kill", "done")
  /\ UNCHANGED <<lockVars, flagVars, loopVars, workVars, clientVars, taken,
                 history>>

(***************************************************************************)
(* in(c): handleConnInput                                                  *)
(***************************************************************************)

InGoto(c, label) == inPc' = [inPc EXCEPT ![c] = label]

\* <-cc.slackConnected.
InSlackConnected(c) ==
  /\ inPc[c] = "waitSlack"
  /\ connected
  /\ InGoto(c, "top")
  /\ UNCHANGED <<lockVars, flagVars, pc, loopVars, workVars, outPc, cleanPc,
                 lineVars, taken, history>>

\* The loop's select: return when shutdown is closed, else block in Scan.
InTop(c) ==
  /\ inPc[c] = "top"
  /\ InGoto(c, IF shutdown[c] THEN "done" ELSE "scan")
  /\ UNCHANGED <<lockVars, flagVars, pc, loopVars, workVars, outPc, cleanPc,
                 lineVars, taken, history>>

\* A PRIVMSG goes to serverChan, unless the client is not registered yet.
InPrivmsg(c) ==
  /\ inPc[c] = "scan"
  /\ typed[c] < MaxLines
  /\ typed' = [typed EXCEPT ![c] = typed[c] + 1]
  /\ InGoto(c, IF registered[c] THEN "toServer" ELSE "top")
  /\ UNCHANGED <<lockVars, flagVars, pc, loopVars, workVars, outPc, cleanPc,
                 owing, registered, taken, history>>

\* Any other line: answered with n lines on the client's own channel, or with
\* none; NICK and USER may complete the registration, which sends the welcome.
InCommand(c, n) ==
  /\ inPc[c] = "scan"
  /\ typed[c] < MaxLines
  /\ typed' = [typed EXCEPT ![c] = typed[c] + 1]
  /\ \/ UNCHANGED registered
     \/ n > 0 /\ registered' = [registered EXCEPT ![c] = TRUE]
  /\ owing' = [owing EXCEPT ![c] = n]
  /\ InGoto(c, IF n = 0 THEN "top" ELSE "reply")
  /\ UNCHANGED <<lockVars, flagVars, pc, loopVars, workVars, outPc, cleanPc,
                 taken, history>>

\* Mutant of InReply: one reply too many.
InReplyOnceMore(c) ==
  /\ inPc[c] = "reply"
  /\ outPc[c] = "select"
  /\ outPc' = [outPc EXCEPT ![c] = "write"]
  /\ owing' = [owing EXCEPT ![c] = owing[c] - 1]
  /\ InGoto(c, IF owing[c] = 0 THEN "top" ELSE "reply")
  /\ UNCHANGED <<lockVars, flagVars, pc, loopVars, workVars, cleanPc,
                 registered, typed, taken, history>>

\* cc.outgoingMessages <- reply.
InReply(c) ==
  /\ inPc[c] = "reply"
  /\ outPc[c] = "select"
  /\ outPc' = [outPc EXCEPT ![c] = "write"]
  /\ owing' = [owing EXCEPT ![c] = owing[c] - 1]
  /\ InGoto(c, IF owing[c] = 1 THEN "top" ELSE "reply")
  /\ UNCHANGED <<lockVars, flagVars, pc, loopVars, workVars, cleanPc,
                 registered, typed, taken, history>>

\* Scan fails: close(cc.shutdown), then the select sees it closed and returns.
InEOF(c) ==
  /\ c \in Leavers
  /\ inPc[c] = "scan"
  /\ panicked' = shutdown[c]
  /\ shutdown' = [shutdown EXCEPT ![c] = TRUE]
  /\ InGoto(c, "done")
  /\ UNCHANGED <<lockVars, stop, connected, pc, loopVars, workVars, outPc,
                 cleanPc, lineVars, taken, history>>

(***************************************************************************)
(* out(c): handleConnOutput, and clean(c): waitForClientCleanup            *)
(***************************************************************************)

\* Fprintln returns (the line is dropped if the client is not registered).
OutWrite(c) ==
  /\ outPc[c] = "write"
  /\ outPc' = [outPc EXCEPT ![c] = "select"]
  /\ UNCHANGED <<lockVars, flagVars, pc, loopVars, workVars, inPc, cleanPc,
                 lineVars, taken, history>>

\* <-cc.shutdown: nobody receives from outgoingMessages any more.
OutExit(c) ==
  /\ outPc[c] = "select"
  /\ shutdown[c]
  /\ outPc' = [outPc EXCEPT ![c] = "gone"]
  /\ UNCHANGED <<lockVars, flagVars, pc, loopVars, workVars, inPc, cleanPc,
                 lineVars, taken, history>>

CleanGoto(c, label) == cleanPc' = [cleanPc EXCEPT ![c] = label]

CleanWake(c) ==
  /\ cleanPc[c] = "wait"
  /\ shutdown[c]
  /\ CleanGoto(c, "lock")
  /\ UNCHANGED <<lockVars, flagVars, pc, loopVars, workVars, inPc, outPc,
                 lineVars, taken, history>>

CleanLock(c) ==
  /\ cleanPc[c] = "lock"
  /\ writer = None
  /\ writer' = c
  /\ CleanGoto(c, "locked")
  /\ UNCHANGED <<conns, readers, flagVars, pc, loopVars, workVars, inPc, outPc,
                 lineVars, taken, history>>

\* Mutant of CleanRemove: the delete does not wait for the readers.
CleanRemoveUnlocked(c) ==
  /\ cleanPc[c] = "locked"
  /\ writer' = None
  /\ conns' = conns \ {c}
  /\ CleanGoto(c, "done")
  /\ UNCHANGED <<readers, flagVars, pc, loopVars, workVars, inPc, outPc,
                 lineVars, taken, history>>

CleanRemove(c) ==
  /\ cleanPc[c] = "locked"
  /\ readers = {}
  /\ writer' = None
  /\ conns' = conns \ {c}
  /\ CleanGoto(c, "done")
  /\ UNCHANGED <<readers, flagVars, pc, loopVars, workVars, inPc, outPc,
                 lineVars, taken, history>>

(***************************************************************************)
(* The specification                                                       *)
(***************************************************************************)

\* A panic or the return of func main ends every goroutine.
Running == ~panicked /\ pc["main"] # "exited"

\* What the goroutines do by themselves ...
MainStep ==
  MainHandoff \/ MainBeginLoop \/ MainEndLoop \/ MainOpen \/ MainReturn
RouterStep == RouterBeginLoop \/ RouterEndLoop
IncomingStep ==
  \/ IncomingPosted \/ IncomingBeginLoop \/ IncomingEndLoop \/ IncomingExit
  \/ \E c \in Clients : IncomingReceive(c)
AcceptStep == AcceptLock \/ AcceptRegister \/ AcceptClosed
KillStep ==
  KillClose \/ KillSnapshot \/ KillDone \/ \E c \in Clients : KillShutdown(c)
InStep(c) == InSlackConnected(c) \/ InTop(c) \/ InReply(c)
OutStep(c) == OutWrite(c) \/ OutExit(c)
CleanStep(c) == CleanWake(c) \/ CleanLock(c) \/ CleanRemove(c)

\* ... and what Slack, the clients, the operator and other gateways do.
Environment ==
  \/ MainReceive \/ Signal \/ ProcessExit
  \/ \E c \in Clients :
       \/ Accept(c) \/ InPrivmsg(c) \/ InEOF(c)
       \/ \E n \in 0 .. MaxReplies : InCommand(c, n)

Next ==
  /\ Running
  /\ \/ MainStep \/ RouterStep \/ IncomingStep \/ AcceptStep \/ KillStep
     \/ \E g \in Fanners : SendLine(g)
     \/ \E c \in Clients : InStep(c) \/ OutStep(c) \/ CleanStep(c)
     \/ Environment

Spec == Init /\ [][Next]_vars

\* The Go scheduler runs every runnable goroutine; a PostMessage call returns
\* and a client's peer keeps reading its socket.
Fairness ==
  /\ WF_vars(Running /\ MainStep)
  /\ WF_vars(Running /\ RouterStep)
  /\ WF_vars(Running /\ IncomingStep)
  /\ WF_vars(Running /\ AcceptStep)
  /\ WF_vars(Running /\ KillStep)
  /\ \A g \in Fanners : WF_vars(Running /\ SendLine(g))
  /\ \A c \in Clients : /\ WF_vars(Running /\ InStep(c))
                        /\ WF_vars(Running /\ OutStep(c))
                        /\ WF_vars(Running /\ CleanStep(c))

FairSpec == Spec /\ Fairness

(***************************************************************************)
(* Safety                                                                  *)
(***************************************************************************)

\* clientConnections never changes under a goroutine that ranges over it: Go
\* aborts the program for a map write during an iteration.  Every client a
\* fan-out is sending to, or has yet to reach, is registered until it is done.
StableIteration ==
  \A g \in Fanners : pc[g] \in Looping =>
    /\ g \in readers
    /\ todo[g] \cup ({at[g]} \ {None}) \subseteq conns

\* Clients of g's loop that still wait for its line.
Waiting(g) == todo[g] \cup {at[g]}

\* HandleOutgoingMessageRouting keeps all clients in step: each registered
\* client has received every routed message since it connected, but for the
\* one being fanned out, which exactly the clients not visited yet lack.
RoutedInStep ==
  \A c \in conns :
    pos[c] = IF pc["router"] = "routeLoop" /\ c \in Waiting("router")
             THEN fanned - 1
             ELSE fanned

\* A PRIVMSG of o that handleIncomingMessageRouting has taken is not passed on
\* to c yet: the post, or the notice of its failure, or the loop comes first.
NotRelayedYet(o, c) ==
  /\ origin = o
  /\ \/ pc["incoming"] \in {"post", "notice", "noticeLoop", "relay"}
     \/ pc["incoming"] = "relayLoop" /\ c \in Waiting("incoming")

\* Every client's copy of what the other clients say is complete, whether the
\* post to Slack succeeded or not: only the PRIVMSG being handled may be absent.
PeersInStep ==
  \A c \in conns : \A o \in Clients \ {c} :
    heard[c][o] # sent[o] => /\ NotRelayedYet(o, c)
                             /\ heard[c][o] = sent[o] - 1

\* "Do not send the message back to the originator": no client ever hears
\* itself, whatever connects and disconnects while the message is relayed.
NoSelfEcho == \A c \in Clients : heard[c][c] = 0

\* A goroutine of the server is in the middle of something: it does not wait for
\* Slack, for a client's line, for a connection or for SIGINT.
Busy ==
  \/ pc["main"] \in {"handoff", "nick", "nickLoop", "open", "join", "joinLoop"}
  \/ pc["router"] \in {"route", "routeLoop"}
  \/ pc["incoming"] \in {"post", "notice", "noticeLoop", "relay", "relayLoop"}
  \/ pc["accept"] \in {"lock", "locked"}
  \/ pc["kill"] \in {"snapshot", "closing"}
  \/ \E c \in Clients : cleanPc[c] \in {"lock", "locked"}

\* One of the goroutines in the middle of something is about to take the lock.
WantsLock ==
  \/ pc["main"] \in {"nick", "join"}
  \/ pc["router"] = "route"
  \/ pc["incoming"] \in {"notice", "relay"}
  \/ pc["accept"] = "lock"
  \/ pc["kill"] = "snapshot"
  \/ \E c \in Clients : cleanPc[c] = "lock"

\* g sends to a client whose output goroutine has returned: for ever.
Hung(g) == pc[g] \in Looping /\ at[g] # None /\ outPc[at[g]] = "gone"

\* One of them can go on, if need be after the peer of a client has read the
\* line before.
CanMove ==
  \/ pc["main"] = "open" \/ pc["incoming"] = "post" \/ pc["kill"] = "closing"
  \/ pc["main"] = "handoff" /\ pc["router"] = "recv"
  \/ WantsLock /\ writer = None
  \/ /\ pc["accept"] = "locked" \/ \E c \in Clients : cleanPc[c] = "locked"
     /\ readers = {}
  \/ \E g \in Fanners :
       /\ pc[g] \in Looping
       /\ at[g] = None \/ outPc[at[g]] \in {"select", "write"}

\* The goroutines never deadlock among themselves, although main waits for the
\* router, both and "incoming" for a lock that new clients, cleanups and SIGINT
\* want too, and a writer for every reader: if all of them stand still,
\* whoever holds the lock is sending to a client that is gone.
StuckOnlyOnGone ==
  Busy /\ ~CanMove => readers # {} /\ \A g \in readers : Hung(g)

\* Nobody closes a closed shutdown channel, which would end the process.
NoDoubleClose == ~panicked

\* The clients see a lockstep, gap-free broadcast of the routed messages.
BC == INSTANCE Broadcast WITH members <- conns, published <- fanned
RoutedImplementsBroadcast == BC!Spec

\* So is what the clients say to each other: the others see the PRIVMSGs of o
\* as a broadcast of their own, though clients come and go in the middle and a
\* newcomer may be sent a line again that was taken before it connected.
Peers(o) == INSTANCE Broadcast WITH
  members <- conns \ {o},
  published <- sent[o],
  pos <- [c \in Clients |-> heard[c][o]]
RelayImplementsBroadcast ==
  /\ \A o \in Clients : Peers(o)!Init
  /\ [][\A o \in Clients : [Peers(o)!Next]_(Peers(o)!vars)]_vars

\* The fan-outs implement the broadcasts the server promises: the one of what
\* Slack sends, and for each client that of what it says.
ImplementsBroadcast == RoutedImplementsBroadcast /\ RelayImplementsBroadcast

(***************************************************************************)
(* Liveness                                                                *)
(***************************************************************************)

\* Somebody hung up, or the operator stopped the program.
Disturbed == stop \/ \E c \in Clients : shutdown[c]

\* A routed message reaches each client, however the clients type, ask and
\* connect meanwhile: he that lacks one catches up.
LiveClientsServed ==
  \A c \in Clients :
    (c \in conns /\ pos[c] < fanned) ~> (pos[c] = fanned \/ Disturbed)

\* A client that stays is served, even if another one hangs up: the server
\* "handles fanning out IRC messages generated from Slack events".
SurvivorsServed ==
  \A c \in Clients :
    (c \in conns /\ pos[c] < fanned) ~> (pos[c] = fanned \/ shutdown[c])

\* The Slack side is never stuck: main comes back for its next event, although
\* it waits for the router and both need the lock a new client is waiting for.
EventsHandled == pc["main"] # "select" ~> (pc["main"] = "select" \/ Disturbed)

\* A connection that was accepted is registered, however busy the fan-outs are.
AcceptServed == pc["accept"] = "lock" ~> (pc["accept"] = "accept" \/ Disturbed)

\* SIGINT ends the gateway: "stopping connections and goroutines", and closing
\* the connections "won't cause any deadlocks".
SigintReturns ==
  stop ~> (pc["main"] \in {"returned", "exited"} \/ panicked)
=============================================================================
