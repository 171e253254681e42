------------------------------ MODULE LockOrder ------------------------------
(***************************************************************************)
(* The locks of chatd and who waits for whom.                              *)
(*                                                                         *)
(* A task is the sequence of locks its handler takes and releases (its     *)
(* script): a guard bound to a name is released where it is dropped, one   *)
(* that is a temporary of a statement at the end of that statement, which, *)
(* for the head of a for, a match or an if let, is the end of its body.    *)
(* Tokio's locks are queues: a request that cannot be granted waits its    *)
(* turn, and everybody who comes later waits behind it, readers too.       *)
(*                                                                         *)
(* Left out are the locks whose holders wait for no other (the sender of a *)
(* client, its channel list, the members of a channel, the bans, the       *)
(* authentication database), and a way through a handler that takes no     *)
(* other locks than the first part of one that is listed.  Sections that   *)
(* follow each other at once, on the same lock and in the same mode, with  *)
(* nothing else held in one and not in the other, are one.                 *)
(***************************************************************************)
EXTENDS Naturals, Sequences, SequencesExt

CONSTANTS
    Clients,        \* slots for clients: each stands for its RwLock
    Rooms,          \* channels, likewise
    Server,         \* the server's mutex
    ClientsMap,     \* the mutex of Server::clients
    ChannelsMap,    \* the mutex of Server::channels
    Commands,       \* the handlers the peers make the dispatcher run
    MayFail,        \* clients whose socket may report a read error
    MayExpire,      \* clients the health task may find timed out
    HealthRuns,     \* whether the health task makes passes
    Dispatcher, Acceptor, Health

Tasks == Clients \cup {Dispatcher, Acceptor, Health}
Locks == Clients \cup Rooms \cup {Server, ClientsMap, ChannelsMap}
LockModes == {"read", "write"}      \* "write" is also the mode of a mutex
Grants == [lock : Locks, mode : LockModes]

AllCommands == {"Auth", "AuthInvalid", "BadRequest", "Modes", "Topic", "List", "Join",
                "Create", "Part", "Kick", "Kill", "Kline", "Typing", "Message"}

ASSUME LocksAssumption ==
    /\ Clients \cap Rooms = {}
    /\ {Server, ClientsMap, ChannelsMap} \cap (Clients \cup Rooms) = {}
    /\ Server # ClientsMap /\ Server # ChannelsMap /\ ClientsMap # ChannelsMap
    /\ {Dispatcher, Acceptor, Health} \cap Clients = {}
    /\ Dispatcher # Acceptor /\ Dispatcher # Health /\ Acceptor # Health
    /\ IsFiniteSet(Clients) /\ IsFiniteSet(Rooms)
    /\ Commands \subseteq AllCommands
    /\ MayFail \subseteq Clients
    /\ MayExpire \subseteq Clients
    /\ HealthRuns \in BOOLEAN

VARIABLES
    script,     \* per task: what its handler still has to lock and unlock
    held,       \* per task: how many guards it has of each lock in each mode
    queue       \* per lock: the requests that wait for it

vars == <<script, held, queue>>

-----------------------------------------------------------------------------
(* Scripts.                                                                 *)

Lock(l, m)    == <<[op |-> "lock", lock |-> l, mode |-> m]>>
Try(l)        == <<[op |-> "try", lock |-> l, mode |-> "write"]>>
Unlock(l, m)  == <<[op |-> "unlock", lock |-> l, mode |-> m]>>

With(l, m, body) == Lock(l, m) \o body \o Unlock(l, m)
Read(l)       == With(l, "read", <<>>)
Write(l)      == With(l, "write", <<>>)
Each(s, Body(_)) == FlattenSeq([i \in DOMAIN s |-> Body(s[i])])

\* A method of Server called on a temporary lock of it.
OnClientsMap  == With(Server, "write", Write(ClientsMap))
OnChannelsMap == With(Server, "write", Write(ChannelsMap))

\* client_name_to_uuid, channel_name_to_uuid and sendto_wallops.
ClientNames(cs)  == With(ClientsMap, "write", Each(cs, Read))
ChannelNames(rs) == With(ChannelsMap, "write", Each(rs, Read))
Wallops(cs) ==
    LET Tell(c) == Read(c) \o Write(c) IN With(ClientsMap, "write", Each(cs, Tell))

\* Taking c out of the channels rs, after an error.
HandleClientError(c, rs) ==
    LET Leave(r) == OnChannelsMap \o Write(r) \o Read(r) \o Write(r) \o Read(r) \o OnChannelsMap
    IN  Write(c) \o Each(rs, Leave) \o OnClientsMap

-----------------------------------------------------------------------------
(* The dispatcher, for client c: t is the client a request is about, r the  *)
(* channel, cs and rs the clients and channels in the order of their maps.  *)

\* Mutant of AuthAccepted: the client is not released for the look-up of the name.
AuthKeepsClient(c, cs, rs) ==
    With(c, "write", With(Server, "write", ClientNames(cs)))

\* Guests and agents alike, once the client is known.
AuthAccepted(c, cs, rs) ==
    LET Enter(r) == With(Server, "write", Write(ChannelsMap) \o Write(r))
    IN  With(Server, "write", ClientNames(cs))
        \o With(c, "write", Write(Server) \o Each(rs, Enter))

AuthInvalid(c) ==
    Write(c) \o With(Server, "write", With(c, "read", Write(ClientsMap))) \o Write(c)

\* The client's guard is dropped before the channel's.
Modes(c, r) ==
    OnChannelsMap \o Lock(c, "write") \o Read(r) \o Lock(r, "write")
        \o Unlock(c, "write") \o Unlock(r, "write")

Topic(c, r) == OnChannelsMap \o With(c, "write", Read(r) \o Write(r))

ChannelList(c, rs) ==
    LET Show(r) == With(r, "read", Read(c)) IN OnChannelsMap \o Each(rs, Show) \o Write(c)

\* By name; by id it is the same without the scan of the names.
Join(c, r, rs) ==
    With(Server, "write",
        Read(c) \o ChannelNames(rs) \o Write(ChannelsMap)
            \o With(r, "read", Read(c)) \o With(r, "write", Write(c)))

JoinRefused(c, r, rs) ==
    With(Server, "write",
        Read(c) \o ChannelNames(rs) \o Write(ChannelsMap)
            \o With(r, "read", Read(c) \o Write(c)))

Create(c, rs) ==
    With(Server, "write", Read(c) \o ChannelNames(rs) \o With(c, "write", Write(ChannelsMap)))

Part(c, r) ==
    Read(c)
    \o With(Server, "write",
           Write(ChannelsMap) \o With(r, "read", Read(c)) \o Read(c) \o Read(r)
               \o Write(c) \o Write(r) \o Read(r))
    \o With(Server, "write", Read(r) \o Write(ChannelsMap))

Kick(c, t, r) ==
    OnChannelsMap \o With(r, "read", Read(c)) \o Read(c) \o Read(r) \o OnClientsMap
        \o Read(t) \o Write(r) \o Write(t)

Kill(c, t, cs, rs) ==
    LET Leave(r) == OnChannelsMap \o Write(r) \o Read(r)
                        \o With(Server, "write", With(r, "read", Read(t)) \o Write(ChannelsMap))
    IN  Read(c) \o OnClientsMap \o Read(t) \o Each(rs, Leave) \o Write(t) \o OnClientsMap
            \o With(Server, "write", Wallops(cs))

Kline(c, cs) ==
    Read(c) \o Write(Server)
    \o With(Server, "write",
           Read(c) \o Write(ClientsMap) \o With(ClientsMap, "write", Each(cs, Write))
               \o Read(c) \o Wallops(cs))

Typing(c, r) == With(Server, "write", Write(ChannelsMap) \o Read(r) \o Read(c) \o Write(r))

\* The server stays locked for the whole of the if let.
Message(c, r) ==
    With(c, "read", With(Server, "write", Write(ChannelsMap) \o Read(r) \o Write(r) \o Read(r)))

Handlers(c, t, r, cs, rs) ==
    [ Auth        |-> {AuthAccepted(c, cs, rs)},
      AuthInvalid |-> {AuthInvalid(c)},
      BadRequest  |-> {HandleClientError(c, <<>>)},
      Modes       |-> {Modes(c, r)},
      Topic       |-> {Topic(c, r)},
      List        |-> {ChannelList(c, rs)},
      Join        |-> {Join(c, r, rs), JoinRefused(c, r, rs)},
      Create      |-> {Create(c, rs)},
      Part        |-> {Part(c, r)},
      Kick        |-> {Kick(c, t, r)},
      Kill        |-> {Kill(c, t, cs, rs)},
      Kline       |-> {Kline(c, cs), Kline(c, cs) \o Kill(c, t, cs, rs)},
      Typing      |-> {Typing(c, r)},
      Message     |-> {Message(c, r)} ]

\* One turn of the dispatcher's loop: an empty pipe, or a request.
Turn(c, t, r, cs, rs) ==
    LET poll == Try(Server) \o Unlock(Server, "write")
        head == OnClientsMap \o Write(c)
    IN  {poll} \cup {poll \o head \o h :
                        h \in UNION {Handlers(c, t, r, cs, rs)[k] : k \in Commands}}

-----------------------------------------------------------------------------
(* The other tasks.                                                         *)

\* A connection reads a message, or fails and another client takes its slot.
Connection(c, rs) ==
    {Read(c)} \cup
    (IF c \in MayFail
     THEN {Write(c) \o HandleClientError(c, rs) \o OnClientsMap \o OnClientsMap} ELSE {})

\* A socket is accepted: the bans, a counter, and the sizes of the maps.
Accept ==
    Write(Server) \o Try(Server) \o Write(ChannelsMap) \o Write(ClientsMap)
        \o Unlock(Server, "write")

\* Expired clients: the read lock on the client is held over its channels.
Expire(c, rs) ==
    LET Leave(r) == OnChannelsMap \o Read(c) \o Write(r) \o Read(r)
                        \o With(r, "read", Read(c)) \o OnChannelsMap
    IN  OnClientsMap \o With(c, "read", Each(rs, Leave)) \o Write(c) \o OnClientsMap

Pass(cs, rs, gone) ==
    LET ExpireOne(c) == Expire(c, rs)
    IN  OnClientsMap \o With(ClientsMap, "write", Each(cs, Write)) \o Each(gone, ExpireOne)

Orders == SetToSeqs(Clients)
Lists  == SetToSeqs(Rooms)

Turns == UNION {Turn(c, t, r, cs, rs) :
                    c \in Clients, t \in Clients, r \in Rooms, cs \in Orders, rs \in Lists}

Passes ==
    IF HealthRuns
    THEN {Pass(cs, rs, gone) : cs \in Orders, rs \in Lists \cup {<<>>},
              gone \in {<<>>} \cup {<<c>> : c \in MayExpire}}
    ELSE {}

Scripts ==
    [ t \in Tasks |-> CASE t = Dispatcher -> Turns
                        [] t = Acceptor   -> {Accept}
                        [] t = Health     -> Passes
                        [] OTHER -> UNION {Connection(t, rs) : rs \in Lists \cup {<<>>}} ]

-----------------------------------------------------------------------------
(* The locks.                                                               *)

Init ==
    /\ script = [t \in Tasks |-> <<>>]
    /\ held = [t \in Tasks |-> [g \in Grants |-> 0]]
    /\ queue = [l \in Locks |-> <<>>]

Grant(l, m)   == [lock |-> l, mode |-> m]
Request(t, m) == [task |-> t, mode |-> m]

Writes(t, l)  == held[t][Grant(l, "write")] > 0
Has(t, l)     == \E m \in LockModes : held[t][Grant(l, m)] > 0

\* Mutant of Excludes: a reader does not keep a writer out.
ExcludesWriters(t, l, m) == Writes(t, l)

\* What t has of l does not let another have l in mode m.
Excludes(t, l, m) == IF m = "write" THEN Has(t, l) ELSE Writes(t, l)

Free(l, m)    == \A t \in Tasks : ~Excludes(t, l, m)

Waiting(t)    == \E l \in Locks : \E i \in DOMAIN queue[l] : queue[l][i].task = t

NextOp(t, op) == script[t] # <<>> /\ Head(script[t]).op = op /\ ~Waiting(t)

Take(t, l, m) ==
    /\ held' = [held EXCEPT ![t][Grant(l, m)] = @ + 1]
    /\ script' = [script EXCEPT ![t] = Tail(@)]

Start(t) ==
    /\ script[t] = <<>>
    /\ \E s \in Scripts[t] : script' = [script EXCEPT ![t] = s]
    /\ UNCHANGED <<held, queue>>

\* Nobody waits and the lock is free: it is taken at once.
Acquire(t) ==
    /\ NextOp(t, "lock")
    /\ LET l == Head(script[t]).lock
           m == Head(script[t]).mode IN
         /\ queue[l] = <<>> /\ Free(l, m)
         /\ Take(t, l, m)
    /\ UNCHANGED queue

Enqueue(t) ==
    /\ NextOp(t, "lock")
    /\ LET l == Head(script[t]).lock
           m == Head(script[t]).mode IN
         /\ ~(queue[l] = <<>> /\ Free(l, m))
         /\ queue' = [queue EXCEPT ![l] = Append(@, Request(t, m))]
    /\ UNCHANGED <<script, held>>

\* Mutant of Granted: the youngest request is served first.
GrantedYoungest(l) ==
    /\ queue[l] # <<>>
    /\ LET req == Last(queue[l]) IN
         /\ Free(l, req.mode)
         /\ Take(req.task, l, req.mode)
    /\ queue' = [queue EXCEPT ![l] = Front(@)]

\* The oldest request is served as soon as the lock is free for it.
Granted(l) ==
    /\ queue[l] # <<>>
    /\ LET req == Head(queue[l]) IN
         /\ Free(l, req.mode)
         /\ Take(req.task, l, req.mode)
    /\ queue' = [queue EXCEPT ![l] = Tail(@)]

Release(t) ==
    /\ NextOp(t, "unlock")
    /\ LET g == Grant(Head(script[t]).lock, Head(script[t]).mode) IN
         held' = [held EXCEPT ![t][g] = @ - 1]
    /\ script' = [script EXCEPT ![t] = Tail(@)]
    /\ UNCHANGED queue

\* try_lock never waits: the dispatcher sleeps and polls again, the accept
\* loop drops the new connection.
TryLock(t) ==
    /\ NextOp(t, "try")
    /\ LET l == Head(script[t]).lock IN
         IF queue[l] = <<>> /\ Free(l, "write")
         THEN Take(t, l, "write")
         ELSE script' = [script EXCEPT ![t] = <<>>] /\ UNCHANGED held
    /\ UNCHANGED queue

Step(t) == Acquire(t) \/ Enqueue(t) \/ Release(t) \/ TryLock(t)

Next ==
    \/ \E t \in Tasks : Start(t) \/ Step(t)
    \/ \E l \in Locks : Granted(l)

Spec == Init /\ [][Next]_vars

\* The runtime runs every task that can go on and hands over every lock that
\* is released.  Sending to a peer, which happens under locks, ends.
Fairness ==
    /\ \A t \in Tasks : WF_vars(Step(t))
    /\ \A l \in Locks : WF_vars(Granted(l))

FairSpec == Spec /\ Fairness

-----------------------------------------------------------------------------
(* Properties.                                                              *)

\* Scripts name locks, nobody releases what it does not hold, and who holds a
\* lock to write holds it alone.
TypeOK ==
    LET ops == [op : {"lock", "try", "unlock"}, lock : Locks, mode : LockModes] IN
    /\ script \in [Tasks -> Seq(ops)]
    /\ held \in [Tasks -> [Grants -> Nat]]
    /\ queue \in [Locks -> Seq([task : Tasks, mode : LockModes])]
    /\ \A t, u \in Tasks, l \in Locks : (t # u /\ Writes(t, l)) => ~Has(u, l)

\* Task t has to wait for task u to go on: u has the lock, or asked before.
WaitsFor(t, u) ==
    \E l \in Locks : \E i \in DOMAIN queue[l] :
        /\ queue[l][i].task = t
        /\ \/ Excludes(u, l, queue[l][i].mode)
           \/ \E j \in 1 .. i - 1 : queue[l][j].task = u

\* No set of tasks waits for one another in a circle: whatever the dispatcher,
\* the accept loop and the connections are doing, one of them can go on.
NoDeadlock ==
    \A D \in SUBSET Tasks :
        D # {} => \E t \in D : \A u \in D : ~WaitsFor(t, u)

\* Whoever waits for a lock gets it, the connection that reports a failure and
\* the dispatcher in the middle of a request included.
EveryLockGranted == \A t \in Tasks : Waiting(t) ~> ~Waiting(t)

\* A pass of the health task ends, so that there is a next one (main.rs:
\* "background tasks spawn, mostly for checking timeouts, ect").
PassesEnd == (script[Health] # <<>>) ~> (script[Health] = <<>>)
=============================================================================
