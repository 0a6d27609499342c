# A TLA+ model of tanya

tanya is an IRC server in front of a Slack workspace. One *gateway* is one Slack
connection and one IRC listener; its goroutines share two structures under
read-write locks and meet on unbuffered channels. This directory models those
goroutines, and what happens to a text on its way, checks them with TLC on small
instances and proves with TLAPS every safety property that the passing runs
check: for any number of clients, messages and conversations, and for texts of
any length.

## The system

| Component | State | Operations | Talks to |
|---|---|---|---|
| IRC server fan-out (`irc/server.go`, `main.go`) | `clientConnections`, `RWMutex`, `initChan`, `stopChan` | accept, register, clean up, fan out Slack's messages, relay a client's line to its peers, connect burst, self-joins, stop | client goroutines over `outgoingMessages` and `serverChan`; Slack loop over `slackIncomingChan` |
| IRC client connection (`irc/client.go`) | `state`, `joinedChans`, `clientUser`, `shutdown` | read commands and answer them, write lines, finish the registration | server; state provider |
| Slack event loop (`gateway/slack.go`, `Poop`) | the web socket's event stream, `self` | connect and reconnect, messages, user changes, joins, parts, files | directory, fan-out |
| Workspace directory (`gateway/slack.go`) | `userInfo`, `channelInfo`, `dmInfo`, their inverses, `channelMemberships` | `bootstrapMappings`, `Resolve*`, updates from events | Slack's web API, every reader |
| Channel member cache (`gateway/channel_users.go`) | `channelMembers` | bootstrap in a goroutine, read-through, joins and parts | directory, API |
| Echo suppression (`gateway/message_tracking.go`, `sendMessage`) | `sentMessageSet`, `ownMessageLock` | remember a post, recognise its echo | event loop, relay |
| Read marker (`gateway/conversation_marking.go`) | `conversationToReadCursorMap`, sleeping goroutines | debounce, mark, reset | API |
| Slack message events (`gateway/message_handler.go`) | none | classify an event, resolve it, emit it | directory, echo suppression |
| Message text, IRC lines (`message_parser.go`, `irc/message.go`, `numerics.go`, `util.go`) | none | parse and format | everybody |
| Configuration and tokens (`config.go`, `token/`) | none | read a file, fetch a token | start-up only |

A line takes one of three ways:

* Slack → `Poop` → `writeMessageLoop` → `HandleOutgoingMessageRouting` → every
  client's `handleConnOutput`. Connect bursts and self-joins skip the router:
  `writeMessageLoop` itself ranges over the clients for them.
* client → `handleConnInput` → `serverChan` → `handleIncomingMessageRouting` →
  Slack and, whether the post succeeded or not, every other client.
* Slack's echo of that post → `Poop`, where it is to be dropped.

What is hard about it:

* **Blocking while a lock is held.** Three goroutines range over
  `clientConnections` under the read lock and send to unbuffered channels in
  the loop. `main` is a reader that also waits for another reader, the router.
  A waiting writer blocks new readers.
* **Goroutines that end at different times.** A client that hangs up stops its
  output goroutine before it is removed; SIGINT stops all of them.
* **State used after the lock was let go.** `ResolveUser`, `ResolveChannel`,
  `GetChannelUsers` and `markConversationDelayed` call Slack between looking and
  acting. `bootstrapMappings` swaps maps in two critical sections.
* **A network that loses things.** A response may be lost after the message was
  stored, events are lost with a web socket.
* **Names that are not unique.** Users are looked up by display name.

What makes each component correct: fan-outs keep every client in step, never
lose the map under their feet and never block each other for ever; an own
message is seen once; the cursor of a conversation moves once per burst, and back
only by a call as slow as the delay; the inverse maps agree with the maps, and the caches with Slack, once
what is pending has been handled; a client is told what it joined, in order,
under the nick the server knows it by; the text functions are inverse to each
other where they should be.

## Modules

| Module | Models | Correspondence |
|---|---|---|
| `Broadcast` | the promise of the fan-out | members, published messages, position of each member; instantiated for Slack's messages, and for each client `o` with the other clients as members and the PRIVMSGs of `o` as messages |
| `ClientFanout` | every goroutine of one gateway's IRC side | a program counter for each goroutine; `readers` and `writer` are the `RWMutex`; a send and its receive are one step |
| `EchoSuppression` | `sendMessage`, `SentQueue`, `handleMessageEvent` for own messages | `sender` and `poop` are the two goroutines; `stream` is the web socket |
| `ReadMarker` | `ConversationMarker` | `marker[t]` is the goroutine started for message `t`; `now` is the clock |
| `UserDirectory` | `userInfo`, `nickToUserMap`, `self` | one action for each critical section and each call of Slack |
| `ChannelMembers` | `channelMembers`, `channelMemberships` | one action for each critical section and each call of Slack |
| `ClientSession` | one client's registration, nick, JOIN and PART against what Slack does | `input`, `main`, the router and `output` meet at `outgoingMessages`; `view` is what the client makes of the lines |
| `MessageText` | `ParseMessageText`, `UnparseMessageText` | operators on sequences of atoms |
| `IrcLines` | `Message.String`, `StringToMessage`, the numerics | operators on the same sequences |
| `MessageFlow` | one message at a time, from a line to Slack and the peers, from an event to the clients | one action for each command, each way of routing and each kind of event |
| `MC*` | instances for TLC | model values and small sets |
| `Folding` | what a fold and a recursive function compute | an operator is its parameter; the proofs take an instance for each fold of the model |
| `*Proofs` | theorems | EXTEND the module they are about |

### ClientFanout

`pc` holds the places of `main`, `router`, `incoming`, `accept` and `kill`;
`inPc`, `outPc`, `cleanPc` those of the three goroutines of a client. `RLock` is
granted when no writer holds *or waits for* the mutex, as Go's `RWMutex` does;
`writer` (the accept loop, or the client being cleaned up; no client is called
"accept") is set by the call of `Lock` and the critical section waits for the
readers to leave. A range loop over the map is `todo[g]` (the clients not
reached), `at[g]` (the one being sent to) and `left[g]` (lines still to send);
the order is free, as Go's is. `SendLine(g)` is the rendezvous of a fan-out with
`handleConnOutput`, possible only while that goroutine is in its `select`;
`OutWrite` is the write to the socket. `StuckOnlyOnGone` speaks of these guards:
`CanMove` spells out when one of the goroutines that are in the middle of
something (`Busy`) has a step, since the provers do not know ENABLED. The contents of lines are left out: a
routed message is its number, a client's line its position among those the
client typed. Of the answers to commands the number of lines is kept, because
each of them blocks on the same channel the fan-outs use. A closed shutdown
channel that is closed again sets `panicked`, which ends every goroutine.

### EchoSuppression

`ownMessageLock` is held from before `PostMessage` until after `MessageSent`.
An event that finds it held makes `poop` wait in `inhibited`; one that gets it
gives it back before `ShouldSuppress` looks. The relay to the peers follows the
post whether it failed or not. Slack may store a message and answer, store it
and lose the answer, or refuse it; its event may come at once, later, out of
order or, if the socket breaks, never. `SentQueue.Reset` exists but nothing
calls it, so reconnecting does not clear the queue.

### ReadMarker

The look at the map (`MarkConversationDelayed`) and the end of the call that
follows it (`Marked`, `MarkFails`) are two steps, because the lock is not held
during the call. Goroutines wake at the delay or any time after, and a call takes
any time, since the code sets no timeout: an older call may therefore overtake a
newer one and move the cursor back. `CursorAdvances` says what that takes.
Timestamps are numbered by post, since posts are serialised by `ownMessageLock`.

### UserDirectory

A user record is abstracted to its nick. `bootstrapMappings` is `GetUsers`
(outside the lock), `SwapMappings` (first critical section) and
`RegenerateReverseMappings` (second one, in any map order, with
`cleanupMappings`, which finds nothing to do for users, and the assignment of
`self`). `ResolveUser` is a miss, the call, and `StoreUser`, which does not look
at what was stored meanwhile. `ResolveNickToUser` is an operator: the properties
say what it returns, its own panic included. Strangers from shared channels,
whom `GetUsers` does not list, are the users that can be missing. The event loop
is one goroutine, so events wait while it bootstraps or resolves, and the events
of a lost connection are handled before the next "connected".

### ChannelMembers

Whoever calls `GetChannelUsers` is a fetcher: the goroutines the bootstrap starts
(`booting` has the channels they are for), `main` and the clients, who may ask at
any time. A miss, the answer of
Slack and `StoreMembers` are three steps, and nothing is locked between them. A
join or a part is `FindEntry` under the read lock and `WriteMember` under the
write lock. Slack's answer is a snapshot; the events of earlier and later moves
are in `stream`, so an answer may be older than the cache it replaces. The
histories `late`, `doubtful` and `untold` name the three ways an entry can go
wrong: the answer was overtaken, the event could not be resolved, Slack did not
tell. `MembersFresh` says that there is no fourth one.

### ClientSession

One client, since the others only delay `main` and the router. `say`, `main` and
`routed` are the lines that wait for `handleConnOutput`, `hand` is the one it
holds: a line is dropped if the client is not registered when it is written, not
when it was sent. `Straighten` (the comparison with `selfUser`) and `Welcome` (the
copy) are two steps, as a change of the nick may come between. A self-join is
fanned out by `main`, a part or a change of nick goes through the router, so they
can overtake each other. A move Slack tells of is replaced by a complaint if the
user or the channel cannot be resolved, so `JoinInSlack` and `LeaveInSlack` may put
nothing under way. `joinedChans` is the server's; `view` is rebuilt from
the lines as a client does it. `early`, `touched`, `missed`, `parted` and `astray`
are histories: each names a race or an omission of the code that the property it
appears in excludes, and none is more than that.

### MessageText, IrcLines and MessageFlow

Texts are sequences of atoms, fine enough for what the code looks at: the
brackets, the ampersand, the tails of the entities, "@", "#", "|", ":", blanks,
line ends, letters, and the characters only the rest of a mention may have. What the
code does on an index out of range is the text `Panic`. A replacement in the order
of a Go map is a set of results, one for each order.

`MessageFlow` puts them together and keeps the directory as sets of what is known
(`userInfo`, `channelInfo`, `dmInfo`) and its inverse maps (`nickToUserMap`,
`channelNameToIDMap`); whenever the code asks Slack, it may get an answer or not. A
line is read and answered in one step, a PRIVMSG is then routed in a second one, so
that it meets `SendNothing`, `SendToNoChannel`, `SendStale`, `SendPrivmsg` and
`SendFails`.

The inverse maps need not be right. How an entry gets stale is in `UserDirectory`;
here `nickToUserMap` starts as any map of `NickMaps`, and while `reloading`, that
is until `bootstrapMappings` has called `RegenerateReverseMappings`, the names of
channels are those of any map of `NameMaps`. A lookup follows `ResolveNickToUser`
and `ResolveNameToChannel`: it finds the entry's owner, or nobody, or, if the owner
has another name now (`Stale`, `StaleName`), ends the process by `log.Panicf`, from
`ReadStale` for a command, from `SendStale` for a target or a mention. Only the
event loop resolves unknown channels, and `bootstrapMappings` runs in it, so no
event is handled while `reloading`; and a step and what the clients are told of it
go by the same maps, so the maps change only when nothing said is outstanding.

`EventMessages` is the table of `handleMessageEvent`. Worth knowing of the code, and
followed by the model: an empty line is answered with "unknown command"; of a client's prefix a bare nick is dropped and a full one is
passed on as if it were true; a line to a nick nobody has is silently dropped, and
still relayed to the peers; an empty last parameter is lost when it is written;
the names in one reply may exceed the limit by one nick; a nick that starts or ends
with a no-break space loses it where the names are cut (`TrimSpace`). What ends the
process: a MODE of nothing; a reference to nothing (`<>`) in a text received, or in
a topic when a client asks for it or joins; a PRIVMSG to a channel Slack does not
know; and a stale name or nick looked up for a command, a target or a mention.
`Survives` says that nothing else in the handling of a message does.

`Atoms` is every string but `Panic`'s, so that the proofs are about all texts. The
ASSUMEs of `MessageText` and `MessageFlow` say of the constants what the code takes
for granted: a nick has no blank, which `slackUserFromDto` replaces, and is a line,
since Slack has no names of more and requires one; else it may have any characters,
and users may share it. Users, letters and channels are none of the characters the
code looks at, what a client sends and the MOTD's lines are lines, an archive link
has an attachment. `Wording` and `Marks` list the literals of the code: that they
are strings is assumed too, since no prover here knows it of a literal. The codes
and words of the replies are kept because `LinesReadBack` and `OneLine` are about
every reply as it is written.

## Runs

Safety and liveness hold (each property is broken by a plausible bug of the code
it is about, kept beside the definition it would replace as "Mutant of ..."):

| Run | Instance | Shows |
|---|---|---|
| `fanout_safety` | 2 clients, one may hang up; 2 events, 2 lines each, answers of 1 line, self-joins of 2 lines | `StableIteration`, `RoutedInStep`, `PeersInStep`, `NoSelfEcho`; `ClientFanout` implements `Broadcast` twice (`ImplementsBroadcast`): what Slack sends is one, what each client says to the others another |
| `fanout_stuck` | both may hang up, SIGINT at any time, 2 events, self-joins of 2 lines; nobody types | `StuckOnlyOnGone`: main, the router, accept, the cleanups and the closer stand still only if whoever holds the lock is sending to a client that is gone |
| `fanout_live` | 2 clients that stay, 2 events, 2 lines each, answers | `LiveClientsServed`, `EventsHandled`, `AcceptServed` |
| `echo_suppression` | 2 own messages, 1 of the user's other client, 1 of another user; all faults | `NoEcho`, `OneCopyIfAnswered`, `SuppressionsPending`, `ForeignPasses`, `PoopReturns`, `QueueDrains` |
| `marker` | 3 posts, 2 conversations, 5 ticks, delay 2, calls that take any time | `Debounced`, `CursorAdvances`, `ResetDrops`, `LastCalled` |
| `users_directory` | 2 workspace users, 1 stranger, 3 nicks, 1 resolver beside the loop, 2 changes, 1 lost connection | `StaleOnlyByRace`, `Findable`, `ListedFresh` |
| `members` | 1 channel, 2 users, 2 fetchers, 4 moves, 1 lost connection | `MembersFresh`, `EntryStays` |
| `session` | 3 channels of which Slack has 2, 2 nicks, 4 commands, 3 moves, renames or lost connections | `NickInStep`, `ChansInStep`, `JoinsShown` |
| `messages` | 4 users, two with one nick and one whose nick no mention can have, 3 channels, one of them unknown and one with a topic that cannot be shown, inverse maps that are right or have a stale entry, some 550 lines of a client and 300 events, each with every answer of Slack | `LooksTheSame`, `MentionsReach`, `NamesTold`, `LinesReadBack`, `OneLine`, `Survives` |

What the code, its comments or its assertions say and TLC refutes:

| Run | Property | What happens |
|---|---|---|
| `fanout_hangup` | `SurvivorsServed` | a client hangs up while the router sends to it; the router never gives the read lock back, the cleanup never gets the lock, and nobody is served again |
| `users_late` | `NoStalePanic` | a late `ResolveUser` stores an old nick over a `user_change`; looking up the new nick panics |
| `session_nick` | `NickFollows` | the user changes his nick; `selfUser` keeps the old one, and whoever registers next is welcomed by it |

Further instances that end with a counterexample, kept to be run by hand
(`tlc -config Fanout_sigint.cfg MCClientFanout` and so on):

| Instance | Module | Property | What happens |
|---|---|---|---|
| `Fanout_doubleclose.cfg` | `MCClientFanout` | `NoDoubleClose` | SIGINT and a hang-up close the same channel: panic |
| `Fanout_sigint.cfg` | `MCClientFanout` | `SigintReturns` | SIGINT stops the readers of a message on its way; `main` never returns |
| `Echo_lost.cfg` | `MCEchoSuppression` | `OneCopy` | the response of a post is lost: the peers see the line twice |
| `Users_collision.cfg` | `MCUserDirectory` | `NickResolves` | two users share a nick; when one gives it up the other cannot be found by it |
| `Messages_swap.cfg` | `MCMessageFlow` | `OwnWordsMarked` | the user shares a file in a DM from another program: his clients read that the other user did, without the mark the text of the message gets |

Two more things the models show and no instance is kept for: between the two
critical sections of `bootstrapMappings` a lookup can panic, because `userInfo`
is new and `nickToUserMap` old (`StaleOnlyByRace` excludes that window by
`Reloading` and shows that it closes); and a suppression whose event was lost
with the socket stays in the queue for ever (`QueueDrains` excludes it by
`missed`).

### Bounds

Two clients are enough for the hazards of the fan-out: one that misbehaves and
one that suffers, or an originator and a peer. Two events and two lines let one
be in flight while the next is due, and let the two paths overlap. Joins of two
lines make a fan-out stop in the middle of a client. Three posts make a burst
with a superseded message in one conversation and leave one for another; five
ticks let a goroutine with a delay of two look, a later one sleep, look and call,
and the first one's call end after that, so that the cursor does move back. Three nicks let a nick be
given up, taken over and shared; two changes are what a race with a late answer
needs. Four moves let a member leave, come back and leave again while an answer is
on its way and the event loop is between its two critical sections; a second
channel adds nothing, since entries do not touch each other. Four commands are a
registration, a JOIN and a PART, in any order, or a registration and two changes
of mind; three changes let a nick change twice, or a join follow a lost connection,
and the proofs cover any number. The texts of `messages` are all of up to three atoms, and longer ones
for the mentions that begin each other, in a channel and in a DM; the stale nick and
the stale channel are each looked up by every command, as a target and in a mention; the limit of
NAMES is four characters, so that four members make several replies. In
`Messages.cfg` only one message is under way at a time: no property of it is about
two. Bounds are guards of the environment's actions only, never of the
code's. Deadlock is not checked: every bounded run ends when the environment has
used its bounds up, and the gateway really may stop.

### Fairness

Each goroutine has weak fairness of its own: the Go scheduler runs whatever is
runnable. A blocked send is not enabled, so fairness never unblocks it. Assumed
beyond the code: a `PostMessage` returns, and a client's peer keeps reading its
socket (the write of `OutWrite` has no deadline in the code). The environment
(Slack, typing clients, hang-ups, SIGINT, reconnections) has no fairness. A Go
channel lets any waiting sender through and an `RWMutex` lets a waiting writer
in before later readers: the latter is what `AcceptServed` and `EventsHandled`
depend on. `ReadMarker` has weak fairness of waking, of answers and of the clock;
nothing bounds how late they come.

## Proofs

TLAPS proves, for every value of the constants that meets the modules' ASSUMEs:

* `ClientFanoutProofs`: `TypeCorrect`, `IterationStable`, `RoutedAlwaysInStep`,
  `PeersAlwaysInStep`, `NeverSelfEcho`, `Refinement` (both broadcasts), and
  `NeverStuckOtherwise`. `Inv` adds to the type
  invariant what makes them inductive: `LoopInv` (a goroutine holds the read lock
  exactly while it loops, over registered clients, and meets each once),
  `Newcomer` (nothing runs for a connection until it is registered) and
  `ReplyOwed`. The critical sections of the writers wait for `readers = {}`, so
  by `LoopInv` no loop is open when the map changes. `RoutedInStep` is part of
  `Inv`: the positions follow from who is still waiting in the router's loop.
  `PeerInv` says the same of the relay. For the refinement, `RouterBeginLoop`
  is `Publish`, a `SendLine` of the router `Deliver`, a registration `Join`, a
  cleanup `Leave`, and all else stutters (`RoutedRefinement`). `RelayRefinement`
  does the same for each client `o` and what it says, from `PeerInv`: a PRIVMSG of
  `o` is taken only when the others have all before it, which is `Publish`; the
  relay's line to one of them is `Deliver`, or nothing new to a newcomer who was
  counted as having it; and `o` itself, coming or going, changes nothing.

  *No deadlock.* `NeverStuckOtherwise` is `StuckOnlyOnGone` for any number of
  clients, and `NeverStuckUndisturbed` that while nobody hung up and no SIGINT came
  a busy goroutine can go on. `LockInv` is what `Inv` lacks for it: a writer that
  is announced is at its critical section, and an output goroutine ends only after
  its client's shutdown. Suppose that nobody can move. Without a reader no writer
  is held up, hence nobody wants the lock, the router is free for what main hands
  it, and nobody is busy. So there are readers; each ranges over the clients
  (`LoopInv`) and cannot send to the one it is at. That client is registered and
  has an output goroutine, which is not gone only if it takes the line or is
  writing the one before.
* `EchoSuppressionProofs`: `NoEchoEver` rests on `EchoInv`: an acknowledged
  message is in the queue, or still in the sender's hands with the lock held, or
  its event is past. The lock is what rules out that `poop` gets past the
  inhibitor in between. `CopyInv` adds what the relay needs for `OneCopyEver`.
  `SuppressionsAlwaysPending` and `ForeignAlwaysPasses` follow from `EchoInv`.
* `ReadMarkerProofs`: the invariant relates the map to the goroutines (the entry
  of a conversation is its last post, or nothing after a reset, so what sleeps
  and is not the last post will not call), and the clock to the goroutines.
  `CursorAlwaysAdvances`: the cursor is at a post `u` whose call ended, and a call
  for an earlier `t` ends now; `u` was posted after `t`'s goroutine had looked and
  slept for the delay before its own call, so `t`'s has been under way that long.
* `UserDirectoryProofs`: `TypeCorrect`, `StaleNeedsRace`, `AlwaysFindable` and
  `ListedAlwaysFresh`, each with an invariant of its own. `Exact`: an entry of the
  inverse map is the nick of its user or the user was raced; it is what makes
  storing a user that was not known harmless, since he has no entry then.
  `Owned` and `Kept`: no nick is made up, so whoever takes or removes an entry
  has owned the nick himself. `Known`: a listed user is never missing after the
  first bootstrap, so no late answer is about him. `Fresh`: while the socket is
  up his last event in the stream is what Slack has, and without one the listing
  or the cache has it already.

* `ChannelMembersProofs`: `TypeCorrect`, `EntryAlwaysStays`, `AgreeAlways` and
  `MembersAlwaysFresh`. `Agree`: the last waiting move of a user says what Slack
  has of him; without one, what is cached of him and what a fetcher holds says it,
  unless the answer was overtaken or the entry is in doubt.
* `ClientSessionProofs`: `TypeCorrect`, `ChansAlwaysInStep`, `JoinsAlwaysShown` and
  `NickAlwaysInStep`, so all that the run `session` checks. `Order` says where the
  welcome is in the life of a client: decided on once, then said, in hand and
  written. The other three say what the client *will* show when the lines under
  way have arrived. `InStep`: of a channel, the line of input counts before the one
  in hand and that before what is shown, and the result is `joinedChans`. `Owed`: a
  channel the user is in is told by the last event about it, or main has the join,
  or it is in hand, shown, or up to input, and no part is behind it. `NickUnderWay`
  with `Chain`: the changes of nick under way form a chain from the nick main last
  heard of to the one in Slack, and what input has to say, like what the client
  will show, is that nick or the one main or the router is about to change.

* `Folding` and `MessageFlowProofs`: all seven invariants that the run `messages`
  checks, for texts, lines, lists of members and topics of every length.

  *Induction over data.* The library's induction theorems take an operator, which
  the provers cannot instantiate. What they can be given is a *set*: by `WFMin`
  and the well-foundedness of `<` a set of numbers has a least one (`LeastNat`), so
  a set with 0 and all successors has all numbers (`NatInduct`), a set with the
  empty sequence and all it leads to has all sequences (`AppendInduct`), and a set
  that has a position once it has all later ones has all positions (`DownInduct`).
  The lemmas of `Folding` prove from that what the CHOOSE behind a fold
  (`FoldAppend`, `FoldStays`) and behind a recursive function (`RecursionDef`) is, with the
  operator as a CONSTANT; `Words`, `PieceRows`, `ReplaceRows`, `Names` and
  `Attachments` are its instances for `Split`, `Pieces`, `Replace`,
  `NamelistAsNumerics` and `FullText`. `FlattenSeq` has its own facts
  (`FlattenAppend`, `FlattenConcat`).

  *The inductive invariants.* `FlowTypes` says more than `TypeOK`: what is written
  to a client is made of `Speech`, the atoms without the newline, and `incoming`
  is the PRIVMSG of the line last read. `OneLine` follows at once, `TypeOK` too;
  `SurvivesAll`, `EveryLineReadsBack` and `NamesToldAll` need it for the step
  before. `MapsInvariant` is the type of the inverse maps, and that no channel's
  name is stale once they have been regenerated: `SurvivesAll` needs the latter.
  `Sent` says that what was posted and what was relayed come from that line, go
  where it says, and that nothing in it was stale; it is inductive with `FlowTypes`.

  *The arguments.* `EveryLineReadsBack` rests on `JoinOfSplit` and `SplitOfJoin`:
  splitting and joining undo each other, so a line's words are those of its
  prefix, command and parameters, and the first that starts with a colon is the
  last parameter's. `NamesToldAll` is an invariant of the fold: the replies so
  far and the names that wait are the nicks of the members so far (`ListingOf`).
  `AllLooksTheSame` is `RoundTrip` in a state: encoding leaves no bracket, so the
  only references in what is posted are those the mentions became, each of which
  parses back to its mention, and what is between them decodes to what it was
  (`DecodeEncode`). For `AllMentionsReach`, a text calls the same names before and
  after it is encoded (`EncodeCalls`), since no mention has an ampersand or the
  tail of an entity; strings.Replacer goes from left to right, and what it replaces
  at an "@" is a word called there or the beginning of one, and it is the word
  itself if no other begins it, whatever the order. `MentionsExact` says that of
  any text and any map `owner` from words to users: who is referred to are the
  owners of the words called. Nothing is assumed of nicks: of the users who share
  one it is the owner who is told, and a nick with a dot is never a word called.
  `SurvivesAll` finds for each step that ends the process the line, text or topic
  that does it; for a mention, that what the regular expression matches in the
  encoded text is a word the line calls (`StaleMentionCalls`).

  The attempt found two properties that held only because the instance was small,
  and both are now stated as they are true: `Survives` had not listed the topic
  with a reference to nothing, and `MentionsReach` had looked at the last parameter
  of a PRIVMSG where the code takes the second. The run has a line and a channel
  for each. `NamesTold` has a premise, that no nick starts or ends with a no-break
  space, because the code does cut it off.

Only model-checked: the liveness properties (`LiveClientsServed`, `EventsHandled`,
`AcceptServed`, `PoopReturns`, `QueueDrains`, `LastCalled`), which need ENABLED and
fairness, out of the prover's reach (that the goroutines of the fan-out do not
deadlock is proved, that they get on is not); and the properties of the runs that end with a
counterexample.

## Not modelled

* Errors of `bootstrapMappings`, which end the program by `log.Fatalf`, and the
  waits of `getConversations` when Slack limits its rate.
* Several channels of one name, of which the inverse map keeps one, and the
  refilling of `channelInfo` in `ResolveChannel` under races: the code handles no
  event that renames a channel, so nothing can become stale but by a
  reconnection, and users show that hazard.
* `channelInfo` is not updated by `channel_topic`: TOPIC shows the topic of the
  last reconnection. A single assignment is missing; there is nothing to explore.
* The pointers of the member cache: after a change of nick, NAMES has the old one
  until the next reconnection, for the same reason.
* Case, character encodings, the 64 KiB limit of `bufio.Scanner`, times and the
  private flag of a channel.
* Data races on `sc.self` and `cc.state`, read without the lock: single words,
  written before their readers are started or read as old or new.
* Several gateways: they share nothing but `stopChan`, and `ProcessExit` stands
  for the others having returned.
* Configuration and token retrieval: input at start, no state.

## Plan

Done, in the order of what a user would notice first: `Broadcast`, `ClientFanout`,
`EchoSuppression`, `ReadMarker`, `UserDirectory`, `ChannelMembers`,
`ClientSession`, `MessageText`, `IrcLines`, `MessageFlow`.

Every safety property of the passing runs is proved. Of what the
liveness properties of the fan-out promise, the part that is safety is proved as
well: nobody waits in a circle. Left: echo suppression, read marker and fan-out
composed over one sender and one event loop, which would say that a line is seen
once *and* in the order of Slack.
