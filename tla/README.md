# chatd: a verification project

chatd is a chat server written in Rust on tokio. Browsers connect to it over TLS
websockets, authenticate as guests or as agents, and talk in channels. These TLA+
modules model how its tasks share the clients and the channels, TLC checks them on
small instances, and TLAPS proves the main invariants for every instance. Other modules
model the locks, the health task's clock, what is kept on disk, and what the web pages show.

Paths are relative to `src/chatd/src/` unless they say otherwise.

## 1. The system

### Components

| component | code | state | operations | what makes it correct |
|---|---|---|---|---|
| connection task, one per client | `main.rs` 247-304, 309-344 | its read half of the socket | register the client, look it up again, turn each text into a request on the pipe, on an error take the client out | it only ever takes out its own client; once it failed, the client leaves the server completely |
| dispatcher ("mpsc eater") | `main.rs` 168-196, 420-651, `commands.rs` | the request it carries out | authenticate, join, part, kick, kill, kline, modes, topic, messages, typing, channel list | every request is served; requests act for registered clients with the right to make them |
| health task | `main.rs` 203-208, 346-418 | the expired clients it has found | ping, declare zombies, take them out | the silent leave, nobody else does; nothing of them stays behind |
| server | `server.rs` | clients map, channels map, bans, message texts | look-ups, insertions, removals, wallops | maps and memberships agree |
| client | `client.rs` | status, type, options, its own channel list | setters | options and type are fixed by one authentication |
| channel | `channel.rs` | members (copies of the clients), options, owner, topic | add and remove members, toggle options, broadcasts | a channel without `Persist` exists while it has members; `AgentOnly` and the like hold for those inside |
| accept loop | `main.rs` 219-245 | - | refuse the banned, spawn a connection task | the banned stay out |
| ban list | `ban.rs`, `server.rs` 58-110 | bans, bans file | add, look up, save, load | what was saved is loaded (the expiry of a ban is stored and never looked at) |
| authentication | `auth.rs` | agents table | look up by name and password | unknown agents are refused |
| web client | `src/public_html/chat.js` | channels and members it has been told of | show joins, parts, quits | its member lists agree with the server's |

### How they interact

The tasks share one `Mutex<Server>`; inside it the clients map and the channels map
have a mutex each; every client and every channel is behind an `RwLock` of its own,
and references to both are handed out as `Arc`s that outlive their place in the map.
Connection tasks send requests to the dispatcher over an unbounded mpsc pipe and
never hear back: answers go straight to the socket. Clients and channels know each
other twice: `Channel::members` has the members, `Client::channels` lists the channels.
To take a client out of the server, three pieces of code (`handle_client_error`,
`check_client_pings`, `CommandHandler::kill`) copy the client's list and walk through it:
look the channel up, remove the member, read `Persist`, count, perhaps remove the
channel, each under a lock of its own; at the end they remove the client.

### What is hard

- Three purge loops can work on the same client, or on the same channel, at once,
  and the dispatcher can add the client to a channel while they run: each loop works
  from a copy.
- Look-ups, checks and effects are separate critical sections: the status before an
  authentication, `Persist` before a removal, the count before a removal.
- One dispatcher serves everyone: whatever stops it stops the server.
- Locks are nested in several orders.
- Time: the ping, the idle time, and the health task's own pauses.
- The bans file is written at the end of a kline, in one write.

`PROJECT.json` lists each of these hazards at its line, with the properties about it.

## 2. Modules

| module | models |
|---|---|
| `ChatServer` | tasks, clients, channels, memberships, purges, requests |
| `Lounge` | what `ChatServer` promises, without tasks, queue and copies of lists |
| `LockOrder` | the locks each handler takes and releases, and tokio's queues for them |
| `PingTimeout` | the health task's clock: pings, idle time, expiry |
| `Storage` | start up, configuration, database of agents, bans file, accept loop, kline, crashes |
| `RoomView` | the option word of a channel, its broadcasts, and the user list of every page |
| `MCChatServer`, `MCStorage`, `MCRoomView` | small instances for TLC |
| `ChatServerProofs`, `PingTimeoutProofs`, `StorageProofs`, `RoomViewProofs`, `LockOrderProofs` | inductive invariants and theorems, one module each |
| `LoungeProofs` | that `ChatServer` implements `Lounge`; rests on `ChatServerProofs` |

`ChatServer` is the core; it is composed with `Lounge` by a refinement mapping. The others cut
the program along other lines: `LockOrder` opens the critical sections that are single steps of
`ChatServer`; `PingTimeout` says when `ChatServer`'s `HealthScan` may find somebody silent;
`Storage` adds the bans and the restart, and takes the kills of a kline as one step each;
`RoomView` adds the messages to the removals and joins.

### ChatServer

State and code:

| variable | code |
|---|---|
| `conn` | where a connection task is: not yet, registered, reading, stopped |
| `clients` | keys of `Server::clients` |
| `status`, `ctype`, `coptions`, `chanlist` | `Client::status`, `type`, `options`, `channels` |
| `life` | whether a channel is a key of `Server::channels`; ids are never used again, so: unborn, listed, removed |
| `members`, `options`, `owner` | `Channel::members`, `options`, `owner` |
| `pipe` | the sources of the requests in the mpsc pipe |
| `dpc`, `dclient`, `lobbies` | how far the dispatcher is, for whom, and the lobbies still ahead in the authentication |
| `expired` | `expired_clients` of the health task |
| `purging`, `who`, `todo`, `room` | per task, the state of its purge loop: program counter, client, rest of the copied list, channel in hand |

The three purge loops are one set of actions (`Snapshot` to `RemoveClient`) with the task as
parameter. They differ in what they clear (`Clears`) and in whether the list is copied under a write or
a read lock. What a request asks is chosen when the dispatcher carries it out, so the pipe
only keeps the sources.

**Atomicity.** A step is one critical section. Larger steps, and why they are sound:

- `Receive` joins `try_recv` to the look-up of the source: nobody else reads the pipe.
- `join` and `part` are two steps: `LockServer`, and what they then do with the server mutex in hand once the client is
  free (`JoinExisting`, `JoinCreate`, `Part`, or `NoEffect` when they refuse). In between no other task looks anything up or removes
  it (`ServerFree`), and the client may be one that the health task reads, which waits for the server mutex: both then wait for good,
  as in the code. The wallop that ends a kill keeps the mutex over its wait for the agents in the same way.
- What they do, and `Kick` and `SetChannelModes`, are one step each. Nobody
  but the dispatcher adds members or changes modes, so between the parts of them a
  purge can only remove members, and a channel twice, which commutes.
- `AuthInvalid` joins the change to `Closing` with the removal.
- `AutoJoin` is one lobby: the server mutex is held from the look-up to the end of the `if let`.
- `HealthScan` is the whole scan, made under the clients map's mutex.
- Locks that a task keeps over several of these steps are in the guards `ReadFree` and
  `WriteFree`: the dispatcher's write lock on the client during the walk through the lobbies, and the
  health task's read lock on the client it takes out; the server mutex of joins, parts and wallops is in `ServerFree`. Other locks *inside* a section are not
  modelled here, so neither are the deadlocks they allow: they are `LockOrder`'s subject, and
  liveness here is relative to it.

**Abstractions.** Names are a small set with `Lower` for `to_lowercase`; option words are sets
(`RoomView` has the words); texts, topics, logs, message bodies and the clock are left out. A request
without effect on this state, be it refused, a topic, a message, a list or a failed look-up of a name,
is `NoEffect`. A `kline` is a ban and then kills: the kills are here, the ban is `Storage`'s. Joining by
id and by name are both `JoinExisting`: with either the peer names a listed channel. Names the pattern
refuses are names nobody can create. `has_invite` always answers no, so `InviteOnly` admits admins only.
Which client stops answering is free (`MayExpire`), and so is which socket fails (`MayFail`).

**`Quiet`.** The code has a race it does not handle: a client may be taken out while
the dispatcher works for it. `Quiet = TRUE` restricts the *environment*: connections fail
and peers time out only with no request of theirs pending. Theorems and
runs under it say the purge loops themselves are right; what happens without it is in section 3
("other disagreements"). It restricts neither kills, which the dispatcher makes itself,
nor two loops on the same client.

### Lounge

| variable | in `ChatServer` |
|---|---|
| `present` | `clients` |
| `role` | `ctype` |
| `stage` | `life` |
| `inside` | `members` of the listed channels, nobody elsewhere |
| `condemned` | listed channels that a purge loop is about to remove (`"destroy"`) |

A person enters, is identified once, opens rooms, is admitted, exits, leaves. `Leave` wants the person
to be in no room: this is where three loops with three copies of the channel list have to agree. A room
is closed either by who parts last, at once, or after it was found empty; in between somebody may be
admitted (the race of `RemovalRace`), which is why the promise is not stronger. Lobbies are never closed.

### LockOrder

A task is a *script*: the sequence of locks its handler takes and releases, written with `With`, `Read`,
`Write` along the lines of the handler. Rust's rules for guards decide where a release is: a named guard at its
`drop` or the end of its scope, a temporary at the end of the statement, which for the head of a `for`, `match` or
`if let` is the end of the whole statement. The latter is what makes main.rs:387 (a read lock over the loop) and
main.rs:480, 621 (the server mutex over an `if let`) what they are. Maps are scanned in any order (`Orders`, `Lists`).
`held` counts, per task, its guards of each lock in each mode, since a task may have two of the same lock (the health task's
inner read of a client it already reads) and a drop gives up one. `queue` has, per lock, the waiting requests; tokio's locks are fair, so a reader waits behind a waiting
writer. `try_lock` does not wait. Left out are the locks whose holders wait for nothing else (sender, channel list, members,
bans, database), and refusals that take a prefix of the same locks. The dispatcher keeps the server mutex for the
100 ms it sleeps over an empty pipe (main.rs:176-181); sleeping is a step that ends.

### PingTimeout

`idle` and `quiet` are the ages of `last_action` and `last_ping`; the code compares timestamps with two limits it takes
when the pass starts, so an age is compared with what it was then (`Over`). A pass looks at one client after the other, and
time passes in between. `Ping` resets one age and not the other; `HandleCommand` resets both. During a scan the clients map
is locked and the dispatcher cannot look anybody up, so answers are not handled: `InTime` does not count that time,
`MaxGap` bounds it. `PaceAssumption` is what the figures of main.rs give: 60 s between looks and 180 s until somebody
is given up leave 120 s from the start of one pass to that of the next, and answers must be handled within 60 s.

### Storage

`stage` follows main from the configuration to the accept loop; `Crash` may come at any point. The configuration names the
other two files, so there are two of each; a configuration that is broken is replaced by the defaults. The bans
file is written in two steps (`Truncate`, `WriteBans`), as `fs::write` does. The first agent is put into the database (`AddAdmin`) and its
random password printed after that (`PrintPassword`); a crash in between leaves an admin nobody can log in as, and nothing makes up for it: the
next start finds an agent and goes on. `password` says which. `dpc` follows a kline: asked for, search, kills, save.
`late`, `spared`, `kept` and `failed` are history: who was at the handshake when banned, whom a kline found and did not kill,
what was saved last, and which file an error or a crash has cost.

### RoomView

One channel: made by one of the clients (`Create`) and entered by `Join`, or a lobby, entered by the authentication of each client (`Walk`)
and, once out, by `Join`. The two ways send the user list by different rules: `join` to agents always, the walk to nobody while it is hidden
(`GetsList`, `GetsLobbyList`). The lobby has the options of the global one, and its rule of who is told that it is in; the staff lobby tells everybody.
Who has not authenticated (`fresh`) sends no requests here: those of clients the health task made zombies are `ExpiredJoins`' subject. The option word is a number; `Has`, `Or`, `Xor` do with arithmetic what `and`, `or`, `xor` do
with bits. `entries[d][c]` is how many lines the page of `d` shows for `c`, so that a line too many is seen as well as one
too few. A page reads its messages in the order they were sent and only they change it, so a message
is applied when it is sent. Part, kick and the purges are two or more steps, in the order the code has them: a part and a
connection task remove and then tell, kick, kill and the health task tell and then remove. `opened`, `hid`, `early` and `missed` are history: who had the room
open while it hid nothing, or hid something, who was put on a list in the gap of the health task, and which members were in when an
authentication put a reader in without a list.

## 3. What TLC checks

| run | module | checks | instance, and what it shows |
|---|---|---|---|
| `Departures` | `MCChatServer` | `TypeOK`, `NoGhosts`, `ImplementsLounge` | `Quiet`; lobby and a created channel, both clients fail, expire and kill each other. Members are always registered; every step is one of `Lounge` or none. |
| `Rooms` | `MCChatServer` | `Covered`, `EmptyRoomsDoomed`, `FailedLeaves`, `EmptyRoomGoes` | `FairSpec`, not `Quiet`; one channel that can be created, one connection that may fail while its requests are served, kills of both clients. Lists cover the memberships of those that nobody is taking out, empty channels are on their way out and go, failed clients leave. |
| `Lobbies` | `MCChatServer` | `AgentRooms`, `PrivilegesFixed` | global and staff lobby, guests and agents of two kinds. Guests stay out of the staff lobby, privileges are given once. |
| `Requests` | `MCChatServer` | `RequestServed` | `FairSpec`, pipe of two, kills, kicks, modes, a connection that fails, no expiry. Every request is taken up. |
| `Locks` | `LockOrder` | `TypeOK`, `NoDeadlock`, `EveryLockGranted` | `FairSpec`; all fourteen handlers, the accept loop and a connection that fails. Nobody waits in a circle and whoever waits gets the lock. |
| `Pings` | `PingTimeout` | `TypeOK`, `ResponsiveStay`, `WarnedFirst`, `GivenUpInTime` | units of 10 s, the figures of main.rs, passes up to 120 s apart, one client that answers and one that may not. |
| `Bans` | `MCStorage` | `TypeOK`, `BannedOut`, `Saved`, `BansSurvive`, `AdminThere` | three clients from two addresses; crashes and errors everywhere. The banned are out, what was saved lasts, the first admin is told its password, up to the exceptions below. |
| `Views` | `MCRoomView` | `TypeOK`, `MembersShown`, `HiddenFromGuests`, `NoStrangers`, `ModesAgree` | an agent that is invisible and an admin, an agent that fails and expires, and a guest; a channel one of them makes, or a lobby; three mode words, one with a bit that is no option. |

Some of these properties name exceptions. They are gaps of the code, written into the property because without them it is false of the code; what
the property then says is that there are no others. It would not notice if a gap were closed:

| property | excuses | because |
|---|---|---|
| `BannedOut` | `late`, `spared` | the ban is looked up before the handshakes (main.rs:223); kill refuses the long reason of a kline (commands.rs:95) |
| `Saved`, `BansSurvive` | `failed` | a crash within the write (ban.rs:74), a file that cannot be read (ban.rs:47) or written |
| `Saved` | the ban of the kline at work, or of the one that made the dispatcher panic (commands.rs:34) | it is saved after the kills |
| `AdminThere` | a `"lost"` password | a start that goes down between the insertion and the print (main.rs:139-140) |
| `MembersShown` | `missed`; guests in `hid` | the walk through the lobbies sends agents no list that is hidden from others (commands.rs:384) |
| `NoStrangers` | `early`; readers in `hid` | the health task tells and then removes (main.rs:394-396); the broadcast of a part in a hidden channel is not sent (channel.rs:211) |

`Departures`, `Rooms`, `Lobbies`, `Requests`, `Locks` and `Views` have `CHECK_DEADLOCK FALSE`: an id connects once, a
channel is made once, or nobody has to send, so the system may really stop (in `Locks` a deadlock of *tasks* is what
`NoDeadlock` is about). `Pings` and `Bans` check for deadlock.

Runs that show a disagreement between the code and what it says about itself; each is a
finding in `PROJECT.json`:

| run | refutes | how |
|---|---|---|
| `RemovalRace` | `RemovedWhenDue` | `Persist` is set between its read and the removal (with `Join` in `Commands`: a client joins between the count and the removal) |
| `DispatcherDies` | `RequestServed` | `try_read().unwrap()` panics while a connection task writes to a lobby |
| `ExpiredJoins` | `OnlyAuthenticatedJoin` | `Zombie` overwrites `PendingAuth`, and a request still in the pipe passes for an authenticated one |
| `LockCycle` | `PassesEnd` | the health task holds a read lock on the expired client (main.rs:387), the connection's task asks for the write lock (main.rs:283), the health task asks for another read lock (main.rs:393) |

Other disagreements, seen while modelling and not kept as runs:

- The health task is left out of `Locks` because with it there are more circles: its scan has the clients map and waits for a client
  that the dispatcher has while it waits for the server mutex, which somebody has who waits for the clients map
  (main.rs:358, commands.rs:342, main.rs:268); a join has the server mutex and waits for the client the
  health task reads, which waits for the server mutex (commands.rs:580, main.rs:388). `ChatServer` shows that one too: with
  `MayExpire = {c1}`, `Requests` fails, with the dispatcher at `"server"` and the health task at `"next"` for good.
- kick leaves a channel listed that it emptied (commands.rs:180): `EmptyRoomsDoomed` is false with `Kick` in `Commands`.
- The walk through the lobbies ignores `AgentOnly` (main.rs:480-484), where join looks at it (commands.rs:564): a guest enters a
  global lobby that an agent has made agents-only. `AgentRooms` is false with mode changes.
- Without `Quiet`, a join can end after its client was taken out (commands.rs:581, main.rs:343), and leaves a
  member nobody will remove; `NoGhosts` assumes `Quiet` for this reason.
- An authentication that ends after the connection failed sets a closing client to connected (commands.rs:361, main.rs:466).
- The comment of kline says it spares admins (commands.rs:33); it spares every agent (commands.rs:44). The expiry of a ban is
  never looked at (ban.rs:40).
- The broadcast of a part to agents in a channel with hidden members is never sent (channel.rs:211), so the agents keep the line of
  who parted: `NoStrangers` is about readers of channels that were never hidden. Kick, and the quits of kill and of the health task, are
  sent to guests also where the member list is hidden from them (commands.rs:113, 179, main.rs:394); the page shows a name, and no line.
- Who joins while the health task is between its quit and its removal gets a line that stays (`early` in `NoStrangers`).
- Client option `Invisible` "wont show in users list" (client.rs:44), but user lists name every member (commands.rs:610).
- The walk through the lobbies gives agents no user list where the list is hidden from *non* agents (commands.rs:384), join does (commands.rs:607): without
  `missed`, `MembersShown` is false.

**Bounds.** Two clients are three actors on one channel besides each other (a connection task, the
health task, the dispatcher), and every race above needs two actors and one channel; a third client
adds a bystander. Two channels let a loop be between channels. `MaxPipe` is one, except in `Requests`,
where the order of two requests matters, and in `Rooms`, where a client may fail with two pending; it is the only bound that blocks an action of `ChatServer` (`Send`: the
real pipe is unbounded), and a sender that waits is one that sent later. `Commands` leaves out of each run the requests its
question does not need; `Kick` and `Modes` are left out where `EmptyRoomsDoomed` is checked
because with them it is false. In `Rooms` one connection fails: the kills, which both clients may ask for, make the second
purge of the same client or the same channel. In `Requests` nobody expires (see Fairness). `ClientSymmetry` is used in `Departures` and `Mates` in `Bans`: their constants treat these clients
alike and they check no liveness.

`Locks` has one slot for clients and one channel: the target of a kick or a kill is then the source too, and another client
takes the slot of one that left. Every handler is in, every order of every
scan. For the types and `NoDeadlock` these bounds do not matter: both are proved for any clients and channels and for kicks and kills
of anybody (section 4). `EveryLockGranted` is checked on this instance only. In `Pings`, `MaxGap` is the largest that
`PaceAssumption` allows. `Bans` has a ban's four gaps with two clients at one address and one elsewhere. In `Views` the three
words set every option that any step looks at in turn but `AgentOnly`, which only refuses (the lobby has `CanNotLeave` itself); `MaxVisits = 3` lets everybody in
once, or one client come back twice. Both agents are needed: one has the list hidden before the other authenticates.

**Fairness.** `ChatServer`'s `FairSpec` has weak fairness of the dispatcher, and strong fairness of each connection task's purge and of the health
task once it has somebody to take out. The runtime polls every task that can go on, and none of them waits for a peer in the model; the strong fairness is for the
server mutex, which the dispatcher takes over and over: tokio's mutex serves those who wait in turn, so a task that finds it free again and again gets it. Weak fairness
of the dispatcher promises nothing where it waits for a client the health task keeps: then no step of it is enabled, `RequestServed`
fails, and that is what the code does. So the run of `RequestServed` has no expiry, and it says no more than that. Peers need not send, connect, fail or fall
silent. A send to a peer that does not read blocks in the code; the model takes sends as ending, which is what
the operating system does at the latest when the connection is given up.
`Requests` leaves out the lobbies as well, because with them the dispatcher can die (`DispatcherDies`).
`LockOrder`'s `FairSpec` has weak fairness of every task inside a script and of every lock that is free for the oldest
request: tokio wakes waiters in order. No task has to start a script. The other modules have safety properties only;
`GivenUpInTime` bounds a time instead of asking for an eventual step; it holds as long as
passes end and start within `MaxGap`, and `LockCycle` shows a pass that does not end.

## 4. What is proved

Checked by TLAPS for every value of the constants that satisfies the named assumptions of each module.

`ChatServerProofs` (`ConstantsAssumption`, `LobbiesAssumption`, `TasksAssumption`):

| theorem | says |
|---|---|
| `TypeCorrect` | `Spec => []TypeOK` |
| `CoveredAlways` | `Spec => []Covered` |
| `NoGhostsAlways` | `Spec => []NoGhosts` |
| `PrivilegesFixedAlways` | `Spec => PrivilegesFixed` |
| `EmptyRoomsDoomedAlways` | `Spec => []EmptyRoomsDoomed`, when nobody kicks or changes modes |
| `AgentRoomsAlways` | `Spec => []AgentRooms`, when nobody changes modes |

None of the invariants is inductive alone. `Inv` adds:

- `PurgeShape`: a task at work on a client is at work on *somebody*; a connection task only on its own client and
  only after it stopped reading; the dispatcher only while carrying out a kill or a bad request.
- `Fresh`: nothing knows a client before it is registered. Without it a client could
  register with memberships that are not on its list.
- `ListsCover`: `Covered`, in the form that survives the end of a purge: an uncovered membership
  belongs to a client that is out, or whose list a task has just cleared on the way.
- `Unauthenticated`: who has not authenticated has no type and is in no channel, the dispatcher
  knows it during the look-ups, and has the server mutex for nobody else. This gives `PrivilegesFixed`.
- `RoomsAhead` (`Quiet`): every listed channel a leaving client is still in is ahead of every loop
  that takes it out. So when *any* of them removes the client, no membership is left.
- `LeaversQuiet` (`Quiet`): whom the other tasks take out has nothing pending, so whom the dispatcher
  serves is registered. This keeps `RoomsAhead` when members are added.

Each conjunct has a lemma (`TypeStep`, `ShapeStep`, ...) with one step per action; `InvStep` puts them together. `EmptyRoomsDoomed` rests on
`DoomedInv`, which adds that a channel in a loop's hands exists (`RoomsExist`) and that the `Persist`
that was read is the one it has (`ModeRead`), which is what a mode change breaks in `RemovalRace`.

`AgentRooms` rests on `AgentInv`: without mode changes only the staff lobby is for agents only, and while the
dispatcher works through the lobbies of a client that authenticated, the staff lobby is among them only
for an agent.

`PingTimeoutProofs` (`TimesAssumption`, `PaceAssumption`): `TypeCorrect`, `ResponsiveStayAlways`, `WarnedFirstAlways`,
`GivenUpInTimeAlways`, for any limits, pauses and delays. The heart of `PInv` is `SameAges`: while a client
has not been pinged since it was heard of, its two ages are the same, so it is pinged before it can be given up;
`IdleSincePing` and `HeardOf` tie the age since the ping to `idle` and to the pass, and `AnswersDue` says a client that
answers has answered before the scan that could give it up. `LInv` bounds the wait: a ping comes with an age of at most
`CheckIdle + MaxGap`, every further look is at most `MaxGap` later.

`StorageProofs` (`IpAssumption`): `TypeCorrect`, `BannedOutAlways`, `SavedAlways`, `BansSurviveAlways`, `AdminThereAlways`. `SInv` adds
that a kline has victims only while it kills, that with a ban in memory and not on disk a kline is on its way
to the save or the dispatcher has panicked, and only the ban being made is missing (`SavedOrHunting`), and that what is on disk has all that was kept (`KeptOnDisk`), a crash within a
write aside.

`LoungeProofs`: `ImplementsLoungeAlways`, `Spec => ImplementsLounge`, when clients leave quietly and nobody changes modes, as in
the run `Departures`. `Init` maps to `Init`, and each action of `ChatServer` maps to a step of `Lounge` or to none: one lemma per
step of `Lounge` (who exits, who leaves, which room is condemned). `Inv` gives most of it, `RoomsAhead` above
all: when a task removes the client it is in no listed room. `LoungeInv` adds three things:

- `LobbiesPersist`: lobbies exist and have `Persist`, so no loop counts their members. A mode change breaks this, and `Lounge` never
  closes a lobby.
- `Identified`: a status other than `PendingAuth` means a type was given, or that the client is leaving. The leaving ones, which
  `ExpiredJoins` is about, `Quiet` keeps away from the dispatcher.
- `RoomsExist` and `ModeRead`, of `DoomedInv`.

`RoomViewProofs` (the constants' assumption of `RoomView`): `TypeOKAlways`, `MembersShownAlways`, `HiddenFromGuestsAlways`,
`NoStrangersAlways`, `ModesAgreeAlways`, for any clients, agents, tasks' interleaving, and any natural number as a request for modes.
`NoStrangers` says that a line has a member or a task behind it, which no step preserves by itself: a departure that is told twice, or an arrival between the
telling and the removal, could leave a second line. `LinesDue` counts instead: on a page that hears of everybody there are at most as many lines of
a client as are due, one for a member whose departure was not told yet, and one for each task that has removed it and is still to tell.
`MembersShown` has a lemma for both ways of coming in (`Comes`, `GetsNames`).
`Past` ties the history of a page (`hid`, `opened`) to the options, `OpenForMembers` says a page is open for a member or for one
that is being seen off, and `TasksShape` which task may be at work on whom. The lemmas on the word (`HasBit`, `AddInviteOnly`
and the like) say, bit by bit, what `or`, `xor` and the added `InviteOnly` do to a word.

`LockOrderProofs` (`LocksAssumption`): `TypeOKAlways`, which includes that nobody drops a guard it does not have and that writers are alone, also with the
health task; and `NoDeadlockAlways`, `Spec => []NoDeadlock` when the health task makes no pass (with it `NoDeadlock` is false, section 3). The argument:

- *A discipline* (`MayLock`, `MayUnlock`): nobody asks for a lock it has; the maps are taken under the server's mutex, which is not released before
  them, and are mutexes; a task other than the dispatcher asks for a second lock only if it holds the server's alone and
  the second is a map.
- *Every script keeps it* (`ScriptsRun`): each handler is shown to be `Balanced`, part by part: whoever may
  run it ends with what it began with. Scans of a map are of any length and in any order.
- *The invariant*: `Disciplined`, every task may run the rest of its script from what it has and ends with nothing. It replaces any account of
  where in its handler a task is, so the actions need no case per handler. `MapsInside` and `Exclusive` are about
  what is held, `Queued` says that who is in a queue is about to lock just that, and once.
- *No circle* (`NoCircle`): say everybody in a set waits for somebody in it. If a member other than the dispatcher holds anything that is waited
  for, it holds the server's mutex and waits for a map; who holds the map holds something besides the server's mutex, so it is the dispatcher,
  which then has the server's mutex too: two writers. So only the dispatcher holds anything that is waited for, and it waits for itself, which the
  discipline excludes.

A waiting request counts as waiting for the older ones in the same queue as well as for the holders, so fairness of the locks is part of this:
`HolderInCircle` follows a queue to its holder. `Each` is `FlattenSeq`, a recursive function. That it is what it says, and that a scan is balanced
if each step is (`BalancedEach`), takes induction on a length; instead of the library's induction rule, which has an operator for a
parameter, `LeastNumber` and `InductionUpTo` use that `<` on the naturals is well founded, with sets in place of the operator.

**Model-checked only.** The liveness properties, because the prover has no fairness and no ENABLED: `FailedLeaves`, `EmptyRoomGoes`,
`RequestServed`, `EveryLockGranted`. Every invariant and every action property of a run that passes has a theorem; where the
theorem has a hypothesis (`Quiet`, no mode changes, no kicks, no health task) it is one under which the run
checks the property too, and section 3 says what happens without it.

## 5. Not modelled

- Message texts and their JSON, log files, TLS and the handshakes, the page's layout: input and output without state the
  properties speak of. `channel_list`, topics, messages and typing are in `LockOrder` for their locks and `NoEffect` in `ChatServer`: what
  they send depends on nothing that stays.
- Names of clients: only the dispatcher looks names up and gives them, so uniqueness is a sequential matter.
- The SQL of `auth.rs`: `Storage` has its table and first agent, the others its two answers. `AuthInvent` is unimplemented, `all` and
  `delete` do nothing.
- `remove_ban`, `save_ban_db`, `sendto_wall`, `Server::sendto_one` and the counts by type have no caller. `guest_count`, which only grows, and the
  other counters of `Server` decide nothing. `AuthDevice` is accepted by the parser and does nothing.
- `Channel::members` holds copies of the clients, with the type they had when they joined; type does not change after that
  (`PrivilegesFixed`), so the copies are not modelled apart.

## 6. Running

    tlc -config Departures.cfg MCChatServer.tla
    tlc -config Locks.cfg LockOrder.tla
    tlc -config Bans.cfg MCStorage.tla
    tlapm ChatServerProofs.tla
    tlapm LockOrderProofs.tla
