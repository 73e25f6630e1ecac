# Verification of gowarcraft3

TLA+ models of gowarcraft3, a Go library for the network protocols and file
formats of Warcraft III, with TLC runs on small instances and TLAPS proofs for
all instances. They cover the parts of the library that keep state between
calls, share it between goroutines or machines, or must undo what another part
has done: lobbies and games, events, locks, connections, peers, game lists, the
Battle.net client, the chat bot, and the packets and replays that are written
and read back.

## The system and its models

| Part | Source | Modules | What is hard about it |
|---|---|---|---|
| Lobby | `network/lobby/lobby.go`, `game.go` | `Lobby` | kicks are asynchronous, ids are reused, a join fails halfway |
| Game: acknowledgements | `lobby/game.go`, `player.go` | `GameAcks` | an acknowledgement is queued and handled in two steps; leaves, drops and comparisons interleave |
| Game: start and end | `lobby/game.go`, `lobby.go`, `player.go` | `GameStart` | one-shot handlers, timers and hang-ups race for a wait group |
| Game: lag screen | `lobby/game.go`, `player.go` | `LagScreen` | timeouts against late answers, votes about a changing list |
| Game: actions | `lobby/game.go` | `TimeSlots` | the size limit of a packet |
| EventEmitter | `network/events.go` | `EventEmitter` | Fire from several goroutines, a pool with compare-and-swap |
| RWMutex | `network/rwmutex.go` | `RWLock`, `RWMutex` | two mutexes and a counter make one lock |
| Connections | `network/network.go` | `PacketConn` | a connection is replaced while others read and send |
| Peers | `network/peer` | `PeerHost` | two hosts dial each other at once |
| LAN games | `network/lan` | `LanUDP`, `LanMDNS` | datagrams are lost, doubled and reordered; records expire |
| Battle.net client | `network/bnet` | `BnetLogon`, `BnetChat` | any exchange fails; a log-on replaces the connection that is read |
| Chat bot | `network/chat`, `protocol/capi` | `ChatBot` | late and double answers to repeated requests |
| Packets | `protocol`, `protocol/w3gs`, `protocol/bncs` | `Layouts`, `W3GSPackets`, `BNCSPackets`, `PacketStream`, `StatString` | writer and reader are separate code; packets are read into a struct used before |
| Replays | `file/w3g` | `ReplayRecords`, `ReplayFile`, `Replay` | blocks, a header written last, records without a size |

A `Game` embeds a `Lobby`. The goroutine of a connection (`JoinAndServe`)
registers the player under `slotmut`, fires `PlayerJoined`, handles packets one
by one, and at the end runs `onLeave` and fires `PlayerLeft`. Handlers run in
the goroutine that fires the event; those of the game take `ackmut` or
`actmut`. A player's connection is a `W3GSConn`, guarded by `RWMutex`. The
packet layouts are those all connections and replays use.

### Lobby and game

**`Lobby`**. One action per operation; each runs under `slotmut`, so it is
atomic, except `ShuffleSlots`, whose loop is a step per exchange (`shuffle`
says that it holds the mutex). `pc` follows the goroutine of each connection;
`closed` is the connection's state, which `Kick` and the client change at any
time; `panicked` stands for the panic of `pidToSID`. `started` says that the lobby is
that of a `Game` past `StageLobby`; the action `Start` is `Game.Start` as far as it
concerns the lobby, for players that are ready. `fresh` says that the table has not
changed since it was sent to the players. `refreshSlots` fires an event before it
sends the table, and once the game has started `Game.onRefreshSlots` prevents the
sending ("Do not send SlotInfo after game has started", `game.go:377`): a leave then
changes the table and `fresh` becomes false. `join` sends the table without asking. `Request` is the common shape of the four
change requests: ignored when locked, a kick when invalid, nothing when refused,
else applied and refreshed. Calls that return an error and change nothing are
stuttering steps. Chat and profiles change no slot and are one action.
`onMapState` has the progress values 0 and 100 only, because the code rounds
the quotient before it multiplies by 100. `Calls` and `Faults` select the host
operations and faults of an instance.

**`GameAcks`**. `onTimeSlotAck` (under the player's mutex) and `onGameTick`
(under `ackmut`) are separate steps of a player's goroutine; between them
anybody may run. `drainAcks` holds both mutexes for all its rounds (`drainer`),
one round is a step. `Majority` is the set of checksums `desync` may settle on,
since the iteration order of a map decides ties. `QueueCap` stands for the 2048
entries of the ring buffer, `QueueLimit` for the length from which stragglers
are dropped. The lobby is reduced to who is registered under which id. `setup` is
chosen in the initial state and never changes: who is in the lobby, who observes,
and `QueueLimit`, which follows from `TurnRate`. `straggled` is a history of whether
stragglers have been dropped.

**`GameStart`**. Stages, readiness, `Start` with its wait group, the `GameLoaded`
and `RunStop` handlers and the two timers of each player. Time is not modelled:
an armed timer may fire at any moment.

**`LagScreen`**. Each player has a pinging and a reading goroutine; `actmut`
makes each handler one step. The duration of a lag is counted in ticks of the
game loop; `Shown`, `DropAfter` and `LagTimeout` stand for 15 s, 25 s and
`Game.LagTimeout`. `voted` is a history of who was on the screen or has voted.

**`TimeSlots`**. The queue of actions and the packets of a turn, one step per
packet, with the sizes in bytes as the code computes them.

### Events, locks, connections, peers

**`EventEmitter`**. `Fire` is a sequence of steps: the snapshot of the handlers,
load and compare-and-swap of the pool's mask, one call per handler, removal of
one-shot handlers, and giving the event back. A goroutine's name stands for the
argument of its event. A handler that fires behaves as another goroutine does.

**`RWLock`** is the abstract specification of a readers-writer lock that prefers
readers. **`RWMutex`** is the code, one step per operation on a mutex or the
counter. `Implements` states that it implements `RWLock`, with the readers and
writers that are inside as the refinement mapping.

**`PacketConn`** is `W3GSConn` over `RWLock`: `Run` holds a read lock, `NextPacket`,
`Send` and `Close` take another inside, and `SetConn` closes the old connection
before it takes the write lock. `buf` is the encoder's buffer under `smut`.

**`PeerHost`**. Every connection has an end at each host; an end goes through
`Dial` or `Accept`, `serve` and `disconnectPlayer`. `pmut` is taken for a
connection and given back by a handler of `RunStart`. A player registered again
is a new `Player`, and `Dial` may still hold the old one.

### Local network, Battle.net, chat bot

**`LanUDP`**, **`LanMDNS`**. A machine hosts one game after the other, another one
keeps the list. `net` is the set of datagrams in flight: receiving one need not
remove it (duplication), losing one is an action, and any may be received next.
Time is counted in ticks of the list's interval. `Games()` of `UDPGameList` keeps the
younger of two games at one address and compares their ages in whole seconds.
`before` holds the pairs of records that were created a second or more apart; of two
records that are in no pair either may be listed, and `Games` is the set of entries
the call may return. The DNS list has one record per service name, and the model's
advertiser uses one name. DNS messages are reduced to
what their records tell the list.

**`BnetLogon`**. `Logon`, `CreateAccount` and `ChangePassword` are sequences of
exchanges (`todo`), each of which may fail or be refused. The server is
external: an honest one has the account's password, another one answers
anything but cannot prove that it knows the password. **`BnetChat`**. `Run` with
its keep-alive goroutine, `SetConn` by a second log-on, and the users
`onChatEvent` keeps. **`ChatBot`**. `RPC` with attempts, pauses and deadlines,
against an external server that answers late, twice or never.

### Packets and replays

**`Layouts`** is a small language of fields. `W3GSPackets`, `BNCSPackets` and
`ReplayRecords` state in it, for every packet type, what `Serialize` writes and
what `Deserialize` reads. A buffer is a sequence of cells, one per write, with
the kind, the width in bytes and the value. Reading anything but what was
written there is an error of the model. **`PacketStream`** sends packets through
an encoder and a decoder whose `CacheFactory` reuses one struct per packet ID; the
layouts and factories of the protocols are its constants.
**`StatString`** is the encoding of the game settings, byte by byte.
**`ReplayFile`** follows bytes from the encoder through `bufio`, blocks and header
to the decoder. Its records are of three kinds, which differ in the error that
`Deserialize` returns for a record that is cut (`CutErrors`). **`Replay`** is the struct `Decode` fills and `Encode` writes.
Strings are a length and an identity; zlib is external.

### Instances

`MCLobby` and `MCGameAcks` hold the tables of single runs. The other `MC` modules
contain several machines that share no state; `machine`, chosen in the initial
state, says which of them moves while the others stand still. Such a run checks
each machine in all its behaviours, and none of their product.

`MCLobby`, `MCGameAcks` and `MCEvents` extend their component. `MCDepartures`, `MCGame`
and `MCConnections` extend `GameAcks`, `GameStart` and `PeerHost`, and instantiate the
other components beside them; `MCLan` and `MCBnet` instantiate all of theirs. `MCGame`,
`MCConnections`, `MCLan` and `MCBnet` are parameterised like the components, and the
proofs extend them: a run and a theorem name the very same definition, the run with
the values of the `.cfg`, the theorem with any.

## Runs

| Run | Instance | Checks |
|---|---|---|
| `lobby_core` | three clients, two slots, custom forces, fixed settings, all host calls | `TypeOK`; `SlotsMatchPlayers`: humans' slots are those of live connections; `PlayersSeeSlots`: no change without a refresh until the game starts; `TeamsStayWithSlots`; `LockFreezesSlots` |
| `lobby_settings` | two clients, three slots of which two may play, free colours, failing joins, kicks, computers | `NoPanic`; `UniqueColors`; `PlayersWithinLimit` |
| `departures` | `GameAcks` with two players, with a player and an observer, and with a late join and stragglers; a lobby of two slots with `Close` | `ComparesSameTurn`; `WaitsForSomeone`; `WaitsForTheLiving`; `ObserversDoNotDecide`; `AcksAreCompared` and `ClosedPlayersLeave` (liveness) |
| `events` | `EventEmitter` with two goroutines | `ArgsIntact`; `OnceNotLost` |
| `game` | `GameStart`, `LagScreen`, `TimeSlots` | `HandlersHold`; `LoadingEnds` (liveness); `ScreenMatches`; `DroppedByVote`; `LaggersAreResolved` (liveness); `ActionsInOrder` |
| `connections` | `RWMutex`, `PacketConn`, two `PeerHost`s that dial each other | `Implements`: `RWMutex` refines `RWLock`; `SendsOwnPacket`; `SetConnEnds` (liveness); `DialledAreConnected`; `LockReleased` (liveness) |
| `lan` | both game lists, two games | `ChangesTold`: no change of what `Games()` may return without an `Update{}`, but for the two steps named under Divergences; `HostedAreListed` and `GoneAreUnlisted` (liveness) |
| `bnet` | `BnetLogon`, `BnetChat`, `ChatBot` | `ChatsWithVerified`; `PasswordKept`; `OperationsEnd` (liveness); `UsersUpToDate`; `OwnAnswer`; `CallsReturn` (liveness) |
| `codecs` | every packet and record type, stat strings, replay files, replays | `ReadsWhatWasWritten`; `StatRoundTrip`; `AllReadBack`; `SavedReplayIsTheSame` |
| `lobby_failedjoin` | violated | `SlotsReleased`: a join whose first write fails keeps its slot (`lobby.go:251`) |
| `lobby_close` | violated | `NoPanic`: after `Close`, opening or closing a slot resets it under a player, whose `onLeave` panics (`lobby.go:462`) |
| `acks_stale` | violated | `NoPanic`: a Tick event handled after its acknowledgement was compared unmarks a player whose queue is empty, and the next comparison panics (`player.go:332`, `game.go:307`) |

Every property of a passing run has a mutant: a plausible bug, written next to
the definition it changes (`onLeave_Silent` beside `onLeave`), under which TLC
finds the property violated.

Deadlock is not checked in `departures`, `events`, `game`, `connections` and
`bnet`: games end, clients join once, and the bounds on turns, sends and attempts
run out.

### Bounds

| Run | Bounds | Why they are enough |
|---|---|---|
| lobby | 2 or 3 clients, 2 or 3 slots, each client joins once | ids and slots are reused after a leave, a client is rejected, the table is full, a shuffle has two exchanges |
| `departures` | 2 clients, 2 checksums, `QueueCap` 2, `QueueLimit` 9 or 2, `MaxTick` 2, the handicap 100 | queues of different lengths, a full one, stragglers, a vote of one against one, and a leave in every step; nothing depends on the handicap |
| `events` | 2 goroutines, `PoolSize` and `MaxHandlers` 2, symmetry of goroutines | a full pool, an event that is reused, a snapshot older than the list |
| `game` | 3 clients; durations 1, 2, 3; `mtu` 1200, data of 1, 593, 594, 1190, 1191 bytes, 4 actions, 2 turns | sizes at and next to one action, and two, per packet |
| `connections` | 3 readers, 2 writers; a runner, 2 senders, 1 setter, 2 connections, `MaxRuns` 2, `MaxSends` 3; 2 hosts, `MaxGen` 1 | a reader arrives while the last but one leaves; every caller in the repository is the only one of its `SetConn`; without `MaxSends` and `MaxRuns`, `SetConnEnds` would not hold, as the lock prefers readers (`rwmutex.go:9`) and overlapping senders could keep a writer out for ever |
| `lan` | 2 games, slots 1 and 2, expiry after 2 ticks, 2 datagrams in flight | a late datagram of the old game meets the new one, and both games are listed with the same age |
| `bnet` | 2 passwords, 1 `ClanInfo`, 2 users, 2 packets queued, 2 callers, 4 request ids | an answer to an earlier attempt, and to another caller, arrives during a later attempt |
| `codecs` | 3 packets, lists of 0 to 2 elements, strings of 0, 1 and 200 bytes; stat strings up to 9 bytes; buffer 8, peek 2, blocks of 10, records of three kinds and of 2 to 11 bytes, 3 records | a struct is reused; a chunk of seven bytes and its neighbours; records below, at and above every limit |

### Fairness

Goroutines run and armed timers fire: weak fairness of their steps. A goroutine
that waits for a mutex that is taken again and again gets it: strong fairness,
which Go's `sync.Mutex` gives by handing the lock to a waiter that has starved
for a millisecond. In `lan` a datagram that is sent again and again arrives in
the end (strong fairness of receiving). Clients, servers, peers, the host's
calls and faults owe nothing. Each fairness condition is one of the `FairSpec`
of the component, restricted to the machine that moves.

## Proofs

TLAPS checks these theorems for every value of the constants.

| Theorem | Assumes | Says |
|---|---|---|
| `LobbyProofs!TypeCorrect` | | `TypeOK` |
| `LobbyProofs!PlayersKeepSlots` | `Close` is not called | `NoPanic`, also when joins fail halfway |
| `LobbyProofs!SlotsMatch` | no faults | `SlotsMatchPlayers` |
| `LobbyTableProofs!SlotsAreSent` | no faults, no base slot of the observers | `PlayersSeeSlots`: until the game starts, and so for the table it starts with |
| `LobbyTableProofs!TeamsBelongToSlots`, `FixedRacesBelongToSlots` | | `TeamsStayWithSlots`, `FixedRacesStay` |
| `LobbyTableProofs!LockedSlotsFreeze` | | `LockFreezesSlots` |
| `LobbyTableProofs!PlayersAreLimited` | no observers | `PlayersWithinLimit` |
| `LobbyTableProofs!ColorsAreUnique` | no observers, free settings, a colour per slot | `UniqueColors` |
| `GameAcksProofs!AcksTypeCorrect` | | `TypeOK`: no ring buffer overflows |
| `GameAcksProofs!NeverWaitsForTheGone` | | `WaitsForTheLiving` |
| `GameAcksProofs!AlwaysWaitsForSomeone` | (the property is about the time until stragglers are dropped) | `WaitsForSomeone` |
| `GameAcksProofs!ObserversNeverDecide` | | `ObserversDoNotDecide` |
| `GameAcksProofs!SameTurnCompared` | (the property supposes that everybody is seated from the start) | `ComparesSameTurn` |
| `EventEmitterProofs!PoolIsExclusive`, `ArgsAreIntact` | `PoolSize \in Nat` | `PoolExclusive`, `ArgsIntact` |
| `EventEmitterProofs!OnceIsNotLost`, `OnceIsGone` | | `OnceNotLost`, `OnceGone` |
| `GameProofs!WaitGroupIsExact`, `PlayersAreHeld` | finitely many clients | `WaitGroupCounts`, `HandlersHold` |
| `GameProofs!ScreenShowsLaggers`, `ListedAreLagging` | | `ScreenMatches`; `ListedOnce` and `ListedPlayersLag` |
| `GameProofs!DroppedOnlyByVote` | | `DroppedByVote` |
| `GameProofs!SendsActionsInOrder` | | `ActionsInOrder` |
| `NetworkProofs!CountsReadersAlways`, `WriterAloneAlways` | | the counter is the number of readers; a writer is alone |
| `NetworkProofs!RWMutexImplements` | | `Implements` |
| `NetworkProofs!SendsOwnPacketAlways`, `RunKeepsItsConn` | | `SendsOwnPacket`, `RunKeepsConn` |
| `NetworkProofs!ReplacedAreClosedAlways` | calls of `SetConn` do not overlap | `ReplacedAreClosed` |
| `NetworkProofs!TellsChanges` | | `ChangesTold`, whatever the ages of the records |
| `PeerHostProofs!OneRunAlways`, `LockedForSetupAlways`, `PeerSetConnectedAlways` | | `OneRun`, `LockedForSetup`, `PeerSetConnected`, whatever fails |
| `PeerHostProofs!DialledAreConnectedAlways` | (the property supposes that nothing fails) | `DialledAreConnected` |
| `BnetProofs!VerifiedChat`, `ConnectionsClosed` | | `ChatsWithVerified`, `NoneLeftOpen` |
| `BnetProofs!KeepsPassword` | | `PasswordKept` |
| `BnetProofs!ReturnsOwnAnswer`, `SuccessIsCarriedOut` | | `OwnAnswer`, `CarriedOut` |
| `BnetProofs!ListsUsers`, `TellsUsers` | | `UsersUpToDate`, `EventsTellUsers` |

The assumptions on constants are evaluated by TLC in the runs that extend the
module. `LobbyAssumption`, `AcksAssumption` and `MutexAssumption` are about the
component. `AcksAssumption` says among others that PlayerIDs are at most 32, which is what the
loops over them go up to (`game.go:439`). `LagAssumption` says that the players of a game are clients and that a
lag screen appears after at least a tick; `ConnAssumption` that the goroutines of a
connection are different ones; `PeerAssumption` that no host dials itself and each
dials another once, as the model identifies a connection by its hosts;
`UsersAssumption` that a channel has finitely many users; `LanAssumption` that the
lifetimes of records are at least a tick.

None of the invariants is inductive by itself. `PasswordKept` is about single steps and
needs no invariant; `ChangesTold` and `ObserversDoNotDecide` are, and need one. The arguments are:

- **`LobbyProofs`**. `BaseInv` is the types, that only slots of humans have a player's
  id, and that every registered player has a slot. `SeatInv` adds that
  live connections and registrations correspond, so that a live connection has a
  slot and `pidToSID` does not panic. `MatchInv` adds that every slot of a human has
  its registered player, and different slots different ids; a join that fails
  half-way breaks it, hence "no faults".
- **`LobbyTableProofs`**. Every operation is an edit of one slot, an exchange of two,
  or a change of status. A lemma per kind says what it keeps, and each action is
  shown to be of a kind. `TableInv` joins the limit on players to the uniqueness of
  colours, as initSlot guarantees both at once. Steps leave the table, free, fill,
  recolour or exchange slots; a filled slot takes a colour outside those in use.
- **`GameAcksProofs`**. `AckInv` is the types, that an entry of `players` is the player
  with that id whose goroutine has not called `onLeave`, and that a goroutine that
  runs has an id. It is needed as the mask holds ids and ids are reused. For
  `ObserversNeverDecide`, players with different ids are at most 32, so all observers
  together have fewer votes than the 255 of one player: if all players sent the same
  checksum, it alone has the most votes.
- **`EventEmitterProofs`**. `PoolInv` says which events belong to which goroutine,
  that exactly those are marked, and what they hold, at each place in `Fire`. A
  compare-and-swap only succeeds on the mask that is current. `ListInv` is about the
  lists: their ids fall from the newest handler to the oldest, no id is in two lists,
  and a snapshot contains every handler that is still registered and not newer than
  the snapshot's first. So the range of ids that offOnce removes holds nothing but
  handlers of the snapshot, and `Progress` and `HaveRun` say that those have run.
- **`GameProofs`**. `StartInv` says that the counter is the number of players who
  have yet to call `Done`, that goroutines which have not left are in `players`, that
  the lobby is locked once the game starts, and that while it loads a running player
  has its stop handler, and one that has ended is among those counted (stranded).
  `LagInv` says that nobody is listed twice, that who is listed lags or is about to be
  removed, that the screen shows the listed whose time runs, and that while it is
  shown every player has voted, was on it, or is in `dropmask`. `SlotsInv` says that
  what was sent is 1, 2, ... and the queue holds the numbers that follow; a packet
  takes a prefix of the queue, wherever its size makes the cut.
- **`NetworkProofs`**. `IInv` ties the counter to the program counters, says which
  goroutine owns each mutex, and that the reader who gives the inner mutex back is
  the last. Every step maps to a step or stutter of `RWLock`. What it takes to count
  readers is stated once (`Counting`) and follows from the theorems about finite sets.
  `ConnInv` says that who writes holds `smut` and that `Run` keeps its read lock, so
  that no writer of the lock, that is no `SetConn`, gets in. `ReplacesInv` adds that
  between its `Close` and its write lock a single `SetConn` finds the old connection
  closed. `UdpInv` and `MdnsInv` say that datagrams are about games there are, with
  slots there are, and that a record without time left is not listed; for DNS, that
  an answer has the address exactly if it has the PTR record. Two lists that agree on
  what `Games` looks at, the order of the listed records included, have the same
  output; a record that is not listed may be created or forgotten without touching
  the order of the others (`KeepsOrder`). So each handler either changes no
  output, or fires, or hides a game that it asks about.
- **`PeerHostProofs`**. `PeerInv` says that an end which is being set
  up holds the `pmut` of its host, and that an end which is served is the connection
  of its Player. `PeerSets` rests on it: only `SetConn`, the `RunStart` handler and
  `disconnectPlayer` change a connection or the peerset. `Links` holds as long as nothing has failed (`Calm`). It says how far
  the two ends of a connection may be apart (`InStep`), and how two connections that
  were dialled at the same time are resolved. The one dialled by the lower PlayerID
  (`Wins`) is closed only if it was never accepted, and then the other one stays; the
  other one (`Yields`) gives way only once the first has been accepted, or fails before
  it is accepted itself.
- **`BnetProofs`**. `LogonInv` says that EnterChat is the last exchange of an operation
  and comes after the proof of the password. `BotInv` says that what is in the channel
  of an attempt answers that attempt, `CarriedInv` that no answer on its way reports
  a success that was not. `ChatInv` says for each user what the list will
  be when the packets in the queue have been handled: the last packet about the user
  decides, and it agrees with the channel.

Only model-checked:

- all liveness, which needs fairness and `ENABLED`, and the prover handles neither;
- the codecs (`ReadsWhatWasWritten`, `StatRoundTrip`, `AllReadBack`,
  `SavedReplayIsTheSame`): what their recursive definitions compute takes an induction
  over the data. Their modules also declare `RECURSIVE` operators, which the prover does
  not support.

## Stated, but checked by no run

The passing runs check forty properties. The modules state more, and these are checked by no
run: `UnreadyAreDropped`, `GameEnds` (`GameStart`); `SlotsFit` (`TimeSlots`);
`ReadersJoin` (`RWMutex`); `RunStops` (`PacketConn`); `ConnectedInPeerSet`
(`PeerHost`); `RunReturns`, `LogonEnds` (`BnetChat`); `AttemptsLimit` (`ChatBot`);
`InStep` (`PacketStream`); `StatStringIsOdd` (`StatString`); `HeaderMatches`, `ReadInOrder`, `ReadingEnds`
(`ReplayFile`); `NothingIsLost` (`Replay`); and the type invariants of these modules.
They held on the instances above when the models were written, but nothing repeats
that. The hazards behind them (a player who never becomes ready, a game that never
ends, the wrap-around of a lag's duration, a packet that is refused in the middle, a
header that disagrees with its blocks, a `Dial` that finds its peer changed) are
therefore not covered by a run either.

In no run, but proved: `FixedRacesStay`; `PoolExclusive`, `OnceGone`; `WaitGroupCounts`;
`ListedOnce`, `ListedPlayersLag`; `CountsReaders`, `WriterAlone`; `RunKeepsConn`,
`ReplacedAreClosed`; `OneRun`, `LockedForSetup`, `PeerSetConnected`; `NoneLeftOpen`;
`CarriedOut`; `EventsTellUsers`.

## Divergences

Three runs end in a violation: `lobby_failedjoin`, `lobby_close` and `acks_stale`
(above). The models show the following as well; no run checks them, and the
properties of the passing runs are stated so as to leave them out.

- With an observers' team, a shuffle puts a player on an observer's slot and leaves
  the teams, so that there may be more players than the map has (`lobby.go:636`), and
  an observer who becomes a player may share a colour (`lobby.go:136`).
  `lobby_settings` and the two theorems about it have no such team.
- `ChangeHandicap` compares the slot's colour with the handicap to find that nothing
  has to be done (`lobby.go:726`); the guard is modelled as it is.
- Dropping stragglers sets `ackmask` to 0 (`game.go:452`). `drainAcks` then returns
  at once, and nothing is compared until somebody is marked again: `WaitsForSomeone`
  and `AcksAreCompared` are about the time before that.
- A player whose `Run` has ended, but who waits for `slotmut`, is registered when
  `Start` adds its handlers (`game.go:156`). Nobody calls `wg.Done` for it: the game
  stays in loading, and the player leaves while others load although the comment
  says "Do not leave the game until everyone is done loading" (`game.go:155`).
  `LoadingEnds` and `HandlersHold` except it by name (`Stranded`).
- `splitActions` reckons with 7 bytes beside the actions and `TimeSlot.Serialize`
  writes 8: a packet may have `mtu + 1` bytes (`game.go:87`).
- A handler registered with `Once` ("call handler h once", `events.go:114`) runs twice
  if two goroutines take their snapshots before either removes it (`OnceRunsOnce`).
- Two callers of `SetConn` close the same old connection, and the connection of the
  first is replaced without being closed (`network.go:223`): hence the assumption of
  `ReplacedAreClosedAlways`. No caller in the
  repository does this.
- `Host.Close` ("closes all connections to peers", `host.go:322`) deletes the peers;
  a `Dial` that waits for its answer connects its `Player` afterwards
  (`CloseDisconnects`). With a player that is registered again, a connected peer may
  be missing in `PeerSet` (`host.go:50`, `ConnectedInPeerSet` with `MaxGen` 2).
- Both game lists promise "Update{} when the output of Games() changes"
  (`gamelist_udp.go:29`, `gamelist_mdns.go:40`). `UDPGameList` hides a listed game in
  silence when a CreateGame arrives twice or late (line 232, `UpdateWhenGamesChange` in
  `MCLan`). `MDNSGameList` does likewise: an answer with the PTR record, but without
  the game's data, replaces the record of a listed game (`gamelist_mdns.go:256`), which is
  hidden in silence until the data has been asked for. `ChangesTold` excepts these two
  steps. Besides, `UDPGameList.Games()` compares ages in whole seconds
  (`gamelist_udp.go:87`) and the order of a map decides between equal ones, so that two
  calls may differ with no event between them; `ChangesTold` is about the entries that
  may be returned. A game whose advertiser listens on another port is not found again
  after a lost datagram (`HostedAreListedAnyPort`).
- After the start a player who leaves changes the slot table of the game, and the
  others are not sent it (`game.go:378`), as intended: they are sent `PlayerLeft`.
  `PlayersSeeSlots` is about the time before.
- `RecordDecoder.Read` peeks further only after `io.ErrShortBuffer`. A `SlotInfo`,
  `GameInfo` or `PlayerInfo` record of more than 1024 bytes may fail with
  `ErrInvalidPacketSize` (`w3gs/packets.go:540`) or `ErrNoCStringTerminatorFound`
  (`records.go:116`, `228`) instead, and then ends the reading (`serialization.go:146`).
  `AllReadBack` names this case.
- A field that `Deserialize` leaves alone keeps the value of the packet decoded
  before into the cached struct. The BNCS host counter is written without leading
  zeros (`bncs/packets.go:638`), so that some counters are read back as others
  (`DecodesSerialized`). `ReadsWhatWasWritten` excepts the first and is checked with
  counters that the second does not concern.

Read in the code, and not in the models: `OffAll` before any handler was added
writes to a nil map (`events.go:140`); the delay of `SendRL` is rounded before it is
multiplied (`network.go:484`); `CAPIConn.Send` unlocks twice when `NextWriter` fails
(`network.go:613`).

## Not modelled

- `W3GSPacketConn`, the rate limit of `BNCSConn`, and the websocket of `CAPIConn`: the
  first has no connection to replace, the second is about time, the third is an
  external library.
- `lan.go`: constructors and `FindGame`, which waits for the events of a list.
- The chat bot's `Connect` and user list: one call at the start, and handlers of
  single events without concurrency beyond that of `BnetChat`.
- The dummy player: a scripted client for tests. The lobby is checked against
  arbitrary clients.
- `w3m`, `blp`, `mpq`, `fs`: readers of file formats and bindings to C libraries, with
  no state between calls and no writer to compare with.
- The command line tools: flags, printing and calls of the packages above.
- Arithmetic inside a field of a packet, bit sets (which are sets here), zlib, JSON
  and the C library behind `bncsutil`.
