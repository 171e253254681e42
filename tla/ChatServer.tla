----------------------------- MODULE ChatServer -----------------------------
(***************************************************************************)
(* The session and room core of chatd: the clients map, the channels map,  *)
(* the membership of every channel and the channel list of every client,  *)
(* under the tasks that change them concurrently.                          *)
(*                                                                         *)
(*   - one connection task per client (main.rs), which reads the socket,   *)
(*     sends requests down the pipe and, on a read error, takes its own    *)
(*     client out of the server (handle_client_error);                     *)
(*   - the dispatcher ("mpsc eater", main.rs), the only task that carries  *)
(*     out requests: auth, join, part, kick, kill, channel modes;          *)
(*   - the health task (check_client_pings), which takes out the clients   *)
(*     that stopped answering.                                             *)
(*                                                                         *)
(* A step is one critical section: the code between two acquisitions of    *)
(* the server mutex, of a client's RwLock or of a channel's RwLock.  join  *)
(* and part take the server mutex and keep it while they wait for their    *)
(* client, as the wallop after a kill does for the agents: until they are  *)
(* done no other task takes it.  What they then do is one step, and a kick *)
(* is one: the server mutex, or the fact that only the dispatcher adds     *)
(* members and changes modes, makes their sections commute with every step *)
(* of the other tasks.                                                     *)
(***************************************************************************)
EXTENDS Naturals, Sequences, FiniteSets

CONSTANTS
    Clients,        \* client ids; an id is a connection, used once
    Rooms,          \* channel ids; an id is an incarnation of a channel
    Names,          \* channel names
    Lower,          \* to_lowercase, as a function on Names
    RoomName,       \* the name each channel id is created with
    InitRooms,      \* the ids of the lobbies made at start up
    UsedLobbies,    \* the use_*_lobby switches of the configuration
    GuestOptions,   \* default_guest_options of the configuration
    Permissions,    \* the option sets agents have in the auth database
    ModeRequests,   \* the mode sets clients ask for
    Commands,       \* the kinds of request the peers send
    MayFail,        \* clients whose socket may report a read error
    MayExpire,      \* clients whose peer may stop answering pings
    Quiet,          \* TRUE: a client leaves only when none of its requests is pending
    MaxPipe,        \* bound on the requests waiting in the pipe
    Dispatcher, Health, NoClient, NoRoom

LobbyNames == {"Global Lobby", "Staff Lobby", "Guest Lobby"}

\* channel.rs ChannelOptions: the options a channel can have.
ChannelOptions ==
    { "ClientInvites", "AgentOnly", "InviteOnly", "SaveHistory", "Persist",
      "WaitForAgent", "RejoinClients", "CanNotLeave", "HiddenMemberList",
      "HiddenMessages", "Invisible", "Secret" }

\* The options a channel owner who is not an agent may toggle.
PublicModes == {"InviteOnly", "Secret"}

\* client.rs ClientOptions.
ClientOptions ==
    { "Admin", "JoinChannels", "PartChannels", "CreateChannels", "CanInvite",
      "FilesAllowed", "Invisible" }

AllCommands == {"AuthGuest", "AuthAgent", "Join", "Create", "Part", "Kick", "Kill", "Modes"}

ASSUME ConstantsAssumption ==
    /\ RoomName \in [Rooms -> Names]
    /\ LobbyNames \subseteq Names
    /\ InitRooms \subseteq Rooms
    /\ UsedLobbies \subseteq LobbyNames
    /\ GuestOptions \subseteq ClientOptions
    /\ Permissions \subseteq SUBSET ClientOptions
    /\ ModeRequests \subseteq SUBSET ChannelOptions
    /\ Commands \subseteq AllCommands
    /\ Quiet \in BOOLEAN
    /\ MaxPipe \in Nat

ASSUME LobbiesAssumption ==
    /\ {RoomName[r] : r \in InitRooms} = UsedLobbies
    /\ \A r, s \in InitRooms : Lower[RoomName[r]] = Lower[RoomName[s]] => r = s

ASSUME TasksAssumption ==
    /\ NoClient \notin Clients
    /\ NoRoom \notin Rooms
    /\ Dispatcher \notin Clients
    /\ Health \notin Clients
    /\ Dispatcher # Health

Tasks == Clients \cup {Dispatcher, Health}

-----------------------------------------------------------------------------
VARIABLES
    conn,       \* the connection task of each client
    clients,    \* Server::clients, the registered clients
    status,     \* Client::status
    ctype,      \* Client::type
    coptions,   \* Client::options
    chanlist,   \* Client::channels
    life,       \* a channel is in Server::channels iff its life is "listed"
    members,    \* Channel::members
    options,    \* Channel::options
    owner,      \* Channel::owner
    pipe,       \* the sources of the requests in the mpsc pipe
    dpc,        \* where the dispatcher is
    dclient,    \* the client whose request it carries out
    lobbies,    \* the lobbies that client is still to be put in
    expired,    \* clients the health task found timed out, still to be taken out
    purging,    \* per task: how far it is in taking a client out of the server
    who,        \* per task: that client
    todo,       \* per task: the channels that client is still to be taken out of
    room        \* per task: the channel it is being taken out of

clientVars == <<status, ctype, coptions, chanlist>>
roomVars   == <<life, members, options, owner>>
taskVars   == <<pipe, dpc, dclient, lobbies, expired>>
purgeVars  == <<purging, who, todo, room>>
vars == <<conn, clients, clientVars, roomVars, taskVars, purgeVars>>

Statuses == {"PendingAuth", "Connected", "Zombie", "Closing"}

PurgePcs == {"off", "snapshot", "next", "remove", "mode", "count", "destroy",
             "clear", "deregister"}

\* The options create_default_channels gives the lobby called n.
LobbyOptions(n) ==
    {"Persist", "RejoinClients", "CanNotLeave"}
    \cup (IF n = "Guest Lobby" THEN {} ELSE {"SaveHistory"})
    \cup (IF n = "Staff Lobby" THEN {"AgentOnly"} ELSE {})

Init ==
    /\ conn = [c \in Clients |-> "new"]
    /\ clients = {}
    /\ status = [c \in Clients |-> "PendingAuth"]
    /\ ctype = [c \in Clients |-> "None"]
    /\ coptions = [c \in Clients |-> {"JoinChannels"}]
    /\ chanlist = [c \in Clients |-> {}]
    /\ life = [r \in Rooms |-> IF r \in InitRooms THEN "listed" ELSE "unborn"]
    /\ members = [r \in Rooms |-> {}]
    /\ options = [r \in Rooms |-> IF r \in InitRooms THEN LobbyOptions(RoomName[r]) ELSE {}]
    /\ owner = [r \in Rooms |-> NoClient]
    /\ pipe = <<>>
    /\ dpc = "idle"
    /\ dclient = NoClient
    /\ lobbies = <<>>
    /\ expired = {}
    /\ purging = [t \in Tasks |-> "off"]
    /\ who = [t \in Tasks |-> NoClient]
    /\ todo = [t \in Tasks |-> {}]
    /\ room = [t \in Tasks |-> NoRoom]

-----------------------------------------------------------------------------
Listed == {r \in Rooms : life[r] = "listed"}

\* The channels a name stands for: channel_name_to_uuid ignores the case.
Named(n) == {r \in Listed : Lower[RoomName[r]] = Lower[n]}

IsAgent(c) == ctype[c] = "Agent"
IsAdmin(c) == "Admin" \in coptions[c]

\* The dispatcher keeps the client's write lock from Connected to the last
\* lobby; the health task keeps its read lock over the loop on its channels.
ReadFree(c) == ~(dpc = "lobby" /\ dclient = c)
WriteFree(c) ==
    /\ ReadFree(c)
    /\ ~(/\ who[Health] = c
         /\ purging[Health] \in {"next", "remove", "mode", "count", "destroy"})

\* The server mutex is kept over other waits by join, part and the wallop only.
ServerFree == dpc \notin {"server", "telling"}

Queued(c) == \E i \in 1 .. Len(pipe) : pipe[i] = c
Pending(c) == Queued(c) \/ dclient = c

\* A peer the health task gave up on.
Silent(c) == c \in expired \/ who[Health] = c

MayLeave(c) == Quiet => ~Pending(c)

\* Task t sets out to take client c out of the server.
StartPurge(t, c) ==
    /\ purging' = [purging EXCEPT ![t] = "snapshot"]
    /\ who' = [who EXCEPT ![t] = c]
    /\ UNCHANGED <<todo, room>>

-----------------------------------------------------------------------------
(* The connection task of a client. *)

AddClient(c) ==
    /\ conn[c] = "new"
    /\ ServerFree
    /\ conn' = [conn EXCEPT ![c] = "added"]
    /\ clients' = clients \cup {c}
    /\ UNCHANGED <<clientVars, roomVars, taskVars, purgeVars>>

\* The task looks its own client up again; it may have been killed by now.
Refind(c) ==
    /\ conn[c] = "added"
    /\ ServerFree
    /\ conn' = [conn EXCEPT ![c] = IF c \in clients THEN "reading" ELSE "done"]
    /\ UNCHANGED <<clients, clientVars, roomVars, taskVars, purgeVars>>

Send(c) ==
    /\ conn[c] = "reading"
    /\ ReadFree(c)
    /\ Len(pipe) < MaxPipe
    /\ Quiet => ~Silent(c)
    /\ pipe' = Append(pipe, c)
    /\ UNCHANGED <<conn, clients, clientVars, roomVars, dpc, dclient, lobbies, purgeVars, expired>>

\* A read error, or a text that is no message.
ReadFails(c) ==
    /\ c \in MayFail
    /\ conn[c] = "reading"
    /\ MayLeave(c)
    /\ WriteFree(c)
    /\ conn' = [conn EXCEPT ![c] = "done"]
    /\ status' = [status EXCEPT ![c] = "Closing"]
    /\ StartPurge(c, c)
    /\ UNCHANGED <<clients, ctype, coptions, chanlist, roomVars, taskVars>>

\* The stream ends without an error: the client stays until it times out.
StreamEnds(c) ==
    /\ c \in MayFail
    /\ conn[c] = "reading"
    /\ conn' = [conn EXCEPT ![c] = "done"]
    /\ UNCHANGED <<clients, clientVars, roomVars, taskVars, purgeVars>>

-----------------------------------------------------------------------------
(* Taking a client out: the loop that handle_client_error, the health task  *)
(* and kill each have a copy of.                                            *)

Advance(t, pc) == purging' = [purging EXCEPT ![t] = pc]

\* kill and the health task clear the client's channel list at the end.
Clears(t) == t = Health \/ (t = Dispatcher /\ dpc = "kill")

\* The list is read under a write lock in handle_client_error only.
Snapshot(t) ==
    /\ purging[t] = "snapshot"
    /\ ReadFree(who[t])
    /\ Clears(t) \/ WriteFree(who[t])
    /\ todo' = [todo EXCEPT ![t] = chanlist[who[t]]]
    /\ Advance(t, "next")
    /\ UNCHANGED <<conn, clients, clientVars, roomVars, taskVars, who, room>>

\* Mutant of NextRoom: the channel stays on the list.
NextRoomAgain(t) ==
    /\ purging[t] = "next"
    /\ ServerFree
    /\ \E r \in todo[t] :
         /\ room' = [room EXCEPT ![t] = r]
         /\ Advance(t, IF r \in Listed THEN "remove" ELSE "next")
    /\ UNCHANGED <<conn, clients, clientVars, roomVars, taskVars, who, todo>>

NextRoom(t) ==
    /\ purging[t] = "next"
    /\ ServerFree
    /\ \E r \in todo[t] :
         /\ todo' = [todo EXCEPT ![t] = @ \ {r}]
         /\ room' = [room EXCEPT ![t] = r]
         /\ Advance(t, IF r \in Listed THEN "remove" ELSE "next")
    /\ UNCHANGED <<conn, clients, clientVars, roomVars, taskVars, who>>

RemoveMember(t) ==
    /\ purging[t] = "remove"
    /\ members' = [members EXCEPT ![room[t]] = @ \ {who[t]}]
    /\ Advance(t, "mode")
    /\ UNCHANGED <<conn, clients, clientVars, life, options, owner, taskVars, who, todo, room>>

\* Mutant of ReadPersist: the test the wrong way round.
ReadPersistInverted(t) ==
    /\ purging[t] = "mode"
    /\ Advance(t, IF "Persist" \in options[room[t]] THEN "count" ELSE "next")
    /\ UNCHANGED <<conn, clients, clientVars, roomVars, taskVars, who, todo, room>>

\* A channel that persists is not removed, whatever its count will be.
ReadPersist(t) ==
    /\ purging[t] = "mode"
    /\ Advance(t, IF "Persist" \in options[room[t]] THEN "next" ELSE "count")
    /\ UNCHANGED <<conn, clients, clientVars, roomVars, taskVars, who, todo, room>>

\* Mutant of CountMembers: as if the member were still to be removed.
CountMembersOffByOne(t) ==
    /\ purging[t] = "count"
    /\ Advance(t, IF Cardinality(members[room[t]]) = 1 THEN "destroy" ELSE "next")
    /\ UNCHANGED <<conn, clients, clientVars, roomVars, taskVars, who, todo, room>>

CountMembers(t) ==
    /\ purging[t] = "count"
    /\ Advance(t, IF members[room[t]] = {} THEN "destroy" ELSE "next")
    /\ UNCHANGED <<conn, clients, clientVars, roomVars, taskVars, who, todo, room>>

RemoveChannel(t) ==
    /\ purging[t] = "destroy"
    /\ ServerFree
    /\ life' = [life EXCEPT ![room[t]] = "removed"]
    /\ Advance(t, "next")
    /\ UNCHANGED <<conn, clients, clientVars, members, options, owner, taskVars, who, todo, room>>

\* Mutant of LoopEnds: the loop stops at the first channel it has dealt with.
LoopBreaks(t) ==
    /\ purging[t] = "next"
    /\ room[t] # NoRoom \/ todo[t] = {}
    /\ room' = [room EXCEPT ![t] = NoRoom]
    /\ Advance(t, IF Clears(t) THEN "clear" ELSE "deregister")
    /\ UNCHANGED <<conn, clients, clientVars, roomVars, taskVars, who, todo>>

LoopEnds(t) ==
    /\ purging[t] = "next"
    /\ todo[t] = {}
    /\ room' = [room EXCEPT ![t] = NoRoom]
    /\ Advance(t, IF Clears(t) THEN "clear" ELSE "deregister")
    /\ UNCHANGED <<conn, clients, clientVars, roomVars, taskVars, who, todo>>

ClearChannels(t) ==
    /\ purging[t] = "clear"
    /\ WriteFree(who[t])
    /\ chanlist' = [chanlist EXCEPT ![who[t]] = {}]
    /\ Advance(t, "deregister")
    /\ UNCHANGED <<conn, clients, status, ctype, coptions, roomVars, taskVars, who, todo, room>>

RemoveClient(t) ==
    /\ purging[t] = "deregister"
    /\ ServerFree
    /\ clients' = clients \ {who[t]}
    /\ Advance(t, "off")
    /\ who' = [who EXCEPT ![t] = NoClient]
    /\ IF t = Dispatcher
       THEN /\ dpc' = IF Clears(t) THEN "wallops" ELSE "idle"
            /\ dclient' = NoClient
       ELSE UNCHANGED <<dpc, dclient>>
    /\ UNCHANGED <<conn, clientVars, roomVars, pipe, lobbies, expired, todo, room>>

PurgeStep(t) ==
    \/ Snapshot(t)
    \/ NextRoom(t)
    \/ RemoveMember(t)
    \/ ReadPersist(t)
    \/ CountMembers(t)
    \/ RemoveChannel(t)
    \/ LoopEnds(t)
    \/ ClearChannels(t)
    \/ RemoveClient(t)

-----------------------------------------------------------------------------
(* The dispatcher.  What a request asks is chosen when it is carried out.   *)

\* Mutant of Receive: the youngest request first.
ReceiveYoungest ==
    /\ dpc = "idle"
    /\ pipe # <<>>
    /\ pipe' = SubSeq(pipe, 1, Len(pipe) - 1)
    /\ IF pipe[Len(pipe)] \in clients
       THEN dpc' = "handle" /\ dclient' = pipe[Len(pipe)]
       ELSE UNCHANGED <<dpc, dclient>>
    /\ UNCHANGED <<conn, clients, clientVars, roomVars, lobbies, purgeVars, expired>>

\* The request is dropped when its source is not a registered client.
Receive ==
    /\ dpc = "idle"
    /\ pipe # <<>>
    /\ pipe' = Tail(pipe)
    /\ IF Head(pipe) \in clients
       THEN dpc' = "handle" /\ dclient' = Head(pipe)
       ELSE UNCHANGED <<dpc, dclient>>
    /\ UNCHANGED <<conn, clients, clientVars, roomVars, lobbies, purgeVars, expired>>

Finish == dpc' = "idle" /\ dclient' = NoClient

\* A refused request, or one that changes none of this state.
NoEffect ==
    /\ dpc \in {"handle", "guest", "agent", "server"}
    /\ WriteFree(dclient)
    /\ Finish
    /\ UNCHANGED <<conn, clients, clientVars, roomVars, pipe, lobbies, purgeVars, expired>>

\* Mutant of AuthStart: the status is not looked at.
AuthStartAgain(kind) ==
    /\ (IF kind = "guest" THEN "AuthGuest" ELSE "AuthAgent") \in Commands
    /\ dpc = "handle"
    /\ WriteFree(dclient)
    /\ dpc' = kind
    /\ UNCHANGED <<conn, clients, clientVars, roomVars, pipe, dclient, lobbies, purgeVars, expired>>

\* The client lock is released here, for the name or the database lookup.
AuthStart(kind) ==
    /\ (IF kind = "guest" THEN "AuthGuest" ELSE "AuthAgent") \in Commands
    /\ dpc = "handle"
    /\ WriteFree(dclient)
    /\ status[dclient] = "PendingAuth"
    /\ dpc' = kind
    /\ UNCHANGED <<conn, clients, clientVars, roomVars, pipe, dclient, lobbies, purgeVars, expired>>

\* Mutant of Accept: the guests walk through the lobbies of the agents.
AcceptToStaff(kind, opts) ==
    /\ dpc = kind
    /\ WriteFree(dclient)
    /\ status' = [status EXCEPT ![dclient] = "Connected"]
    /\ ctype' = [ctype EXCEPT ![dclient] = IF kind = "agent" THEN "Agent" ELSE "Guest"]
    /\ coptions' = [coptions EXCEPT ![dclient] = opts]
    /\ dpc' = "lobby"
    /\ lobbies' = <<"Global Lobby", "Staff Lobby">>
    /\ UNCHANGED <<conn, clients, chanlist, roomVars, pipe, dclient, purgeVars, expired>>

\* Mutant of Accept: set_type is left out, the client has options and no type.
AcceptUntyped(kind, opts) ==
    /\ dpc = kind
    /\ WriteFree(dclient)
    /\ status' = [status EXCEPT ![dclient] = "Connected"]
    /\ coptions' = [coptions EXCEPT ![dclient] = opts]
    /\ dpc' = "lobby"
    /\ lobbies' = IF kind = "agent" THEN <<"Global Lobby", "Staff Lobby">>
                                    ELSE <<"Global Lobby", "Guest Lobby">>
    /\ UNCHANGED <<conn, clients, ctype, chanlist, roomVars, pipe, dclient, purgeVars, expired>>

Accept(kind, opts) ==
    /\ dpc = kind
    /\ WriteFree(dclient)
    /\ status' = [status EXCEPT ![dclient] = "Connected"]
    /\ ctype' = [ctype EXCEPT ![dclient] = IF kind = "agent" THEN "Agent" ELSE "Guest"]
    /\ coptions' = [coptions EXCEPT ![dclient] = opts]
    /\ dpc' = "lobby"
    /\ lobbies' = IF kind = "agent" THEN <<"Global Lobby", "Staff Lobby">>
                                    ELSE <<"Global Lobby", "Guest Lobby">>
    /\ UNCHANGED <<conn, clients, chanlist, roomVars, pipe, dclient, purgeVars, expired>>

AuthAccepted ==
    \/ Accept("guest", GuestOptions)
    \/ \E opts \in Permissions : Accept("agent", opts)

\* Unknown user name or password: the client is closed and removed at once.
AuthInvalid ==
    /\ dpc = "agent"
    /\ WriteFree(dclient)
    /\ status' = [status EXCEPT ![dclient] = "Closing"]
    /\ clients' = clients \ {dclient}
    /\ Finish
    /\ UNCHANGED <<conn, ctype, coptions, chanlist, roomVars, pipe, lobbies, purgeVars, expired>>

\* The next lobby, if it is in use and there is a channel of exactly that name.
AutoJoin ==
    LET c == dclient
        found == {r \in Listed : lobbies # <<>> /\ RoomName[r] = Head(lobbies)} IN
    /\ dpc = "lobby"
    /\ lobbies # <<>>
    /\ lobbies' = Tail(lobbies)
    /\ IF Head(lobbies) \in UsedLobbies /\ found # {}
       THEN \E r \in found :
              /\ members' = [members EXCEPT ![r] = @ \cup {c}]
              /\ chanlist' = [chanlist EXCEPT ![c] = @ \cup {r}]
       ELSE UNCHANGED <<members, chanlist>>
    /\ UNCHANGED <<conn, clients, status, ctype, coptions, life, options, owner,
                   pipe, dpc, dclient, purgeVars, expired>>

\* get_channel_by_name unwraps try_read: another task that holds the write
\* lock of a listed channel, to remove the member or (handle_client_error,
\* before it counts) to tell the others, makes the dispatcher panic, for good.
AutoJoinPanics ==
    /\ dpc = "lobby"
    /\ lobbies # <<>>
    /\ Head(lobbies) \in UsedLobbies
    /\ \E t \in Clients \cup {Health} :
         /\ purging[t] = "remove" \/ (purging[t] = "mode" /\ t # Health)
         /\ room[t] \in Listed
    /\ dpc' = "panicked"
    /\ dclient' = NoClient
    /\ lobbies' = <<>>
    /\ UNCHANGED <<conn, clients, clientVars, roomVars, pipe, purgeVars, expired>>

AuthDone ==
    /\ dpc = "lobby"
    /\ lobbies = <<>>
    /\ Finish
    /\ UNCHANGED <<conn, clients, clientVars, roomVars, pipe, lobbies, purgeVars, expired>>

\* Anything but a request to authenticate, from a client that has not.
BadRequest ==
    /\ dpc = "handle"
    /\ WriteFree(dclient)
    /\ status[dclient] = "PendingAuth"
    /\ status' = [status EXCEPT ![dclient] = "Closing"]
    /\ dpc' = "purge"
    /\ StartPurge(Dispatcher, dclient)
    /\ UNCHANGED <<conn, clients, ctype, coptions, chanlist, roomVars, pipe,
                   dclient, lobbies, expired>>

\* What every request of an authenticated client starts with.
Request(kind) ==
    /\ kind \in Commands
    /\ dpc = "handle"
    /\ WriteFree(dclient)
    /\ status[dclient] # "PendingAuth"

\* join and part take the server mutex, and so does the wallop of a kill.
LockServer ==
    /\ \/ /\ \E kind \in {"Join", "Create", "Part"} : Request(kind)
          /\ dpc' = "server"
       \/ /\ dpc = "wallops"
          /\ dpc' = "telling"
    /\ UNCHANGED <<conn, clients, clientVars, roomVars, pipe, dclient, lobbies, purgeVars, expired>>

\* With it they wait for the client, for a reply or for its channel list.
UnderServer(kind) ==
    /\ kind \in Commands
    /\ dpc = "server"
    /\ WriteFree(dclient)

MayJoin(c, r) ==
    /\ c \notin members[r]
    /\ "AgentOnly" \in options[r] => IsAgent(c)
    /\ "InviteOnly" \in options[r] => IsAdmin(c)

\* Mutant of JoinExisting: the channel is not added to the client's list.
JoinUnlisted(r) ==
    LET c == dclient IN
    /\ UnderServer("Join")
    /\ IsAdmin(c) \/ "JoinChannels" \in coptions[c]
    /\ r \in Listed
    /\ MayJoin(c, r)
    /\ members' = [members EXCEPT ![r] = @ \cup {c}]
    /\ Finish
    /\ UNCHANGED <<conn, clients, clientVars, life, options, owner,
                   pipe, lobbies, purgeVars, expired>>

JoinExisting(r) ==
    LET c == dclient IN
    /\ UnderServer("Join")
    /\ IsAdmin(c) \/ "JoinChannels" \in coptions[c]
    /\ r \in Listed
    /\ MayJoin(c, r)
    /\ members' = [members EXCEPT ![r] = @ \cup {c}]
    /\ chanlist' = [chanlist EXCEPT ![c] = @ \cup {r}]
    /\ Finish
    /\ UNCHANGED <<conn, clients, status, ctype, coptions, life, options, owner,
                   pipe, lobbies, purgeVars, expired>>

JoinCreate(r) ==
    LET c == dclient IN
    /\ UnderServer("Create")
    /\ IsAdmin(c) \/ "JoinChannels" \in coptions[c]
    /\ IsAgent(c) \/ "CreateChannels" \in coptions[c]
    /\ Named(RoomName[r]) = {}
    /\ life[r] = "unborn"
    /\ life' = [life EXCEPT ![r] = "listed"]
    /\ members' = [members EXCEPT ![r] = {c}]
    /\ options' = [options EXCEPT ![r] = {"ClientInvites", "SaveHistory"}]
    /\ owner' = [owner EXCEPT ![r] = c]
    /\ chanlist' = [chanlist EXCEPT ![c] = @ \cup {r}]
    /\ Finish
    /\ UNCHANGED <<conn, clients, status, ctype, coptions, pipe, lobbies, purgeVars, expired>>

\* Mutant of Part: the channel stays when its last member parts.
PartKeeps(r) ==
    LET c == dclient IN
    /\ UnderServer("Part")
    /\ IsAdmin(c) \/ "PartChannels" \in coptions[c]
    /\ r \in Listed
    /\ c \in members[r]
    /\ "CanNotLeave" \in options[r] => IsAgent(c) /\ IsAdmin(c)
    /\ members' = [members EXCEPT ![r] = @ \ {c}]
    /\ Finish
    /\ UNCHANGED <<conn, clients, clientVars, life, options, owner, pipe, lobbies, purgeVars, expired>>

\* The channel stays in the client's own list.
Part(r) ==
    LET c == dclient IN
    /\ UnderServer("Part")
    /\ IsAdmin(c) \/ "PartChannels" \in coptions[c]
    /\ r \in Listed
    /\ c \in members[r]
    /\ "CanNotLeave" \in options[r] => IsAgent(c) /\ IsAdmin(c)
    /\ members' = [members EXCEPT ![r] = @ \ {c}]
    /\ life' = [life EXCEPT ![r] = IF members[r] = {c} /\ "Persist" \notin options[r]
                                   THEN "removed" ELSE @]
    /\ Finish
    /\ UNCHANGED <<conn, clients, clientVars, options, owner, pipe, lobbies, purgeVars, expired>>

\* The channel stays listed, even when its last member is kicked.
Kick(r, target) ==
    /\ Request("Kick")
    /\ r \in Listed
    /\ owner[r] = dclient \/ IsAgent(dclient)
    /\ target \in members[r] \cap clients
    /\ WriteFree(target)
    /\ members' = [members EXCEPT ![r] = @ \ {target}]
    /\ chanlist' = [chanlist EXCEPT ![target] = @ \ {r}]
    /\ Finish
    /\ UNCHANGED <<conn, clients, status, ctype, coptions, life, options, owner,
                   pipe, lobbies, purgeVars, expired>>

Kill(target) ==
    /\ Request("Kill")
    /\ IsAgent(dclient)
    /\ target \in clients
    /\ ~IsAdmin(target)
    /\ dpc' = "kill"
    /\ StartPurge(Dispatcher, target)
    /\ UNCHANGED <<conn, clients, clientVars, roomVars, pipe, dclient, lobbies, expired>>

\* The wallop that ends a kill: agents it cannot be written to are closing.
SendtoWallops ==
    /\ dpc = "telling"
    /\ LET agents == {c \in clients : status[c] = "Connected" /\ IsAgent(c)} IN
         /\ \A c \in agents : WriteFree(c)
         /\ \E failed \in SUBSET (agents \cap MayFail) :
              status' = [c \in Clients |-> IF c \in failed THEN "Closing" ELSE status[c]]
    /\ Finish
    /\ UNCHANGED <<conn, clients, ctype, coptions, chanlist, roomVars, pipe, lobbies,
                   purgeVars, expired>>

\* An agent replaces the modes; an owner toggles the public ones only.
SetChannelModes(r, modes) ==
    /\ Request("Modes")
    /\ r \in Listed
    /\ owner[r] = dclient \/ IsAgent(dclient)
    /\ options' = [options EXCEPT ![r] =
                     IF IsAgent(dclient) THEN modes
                     ELSE (@ \ PublicModes) \cup (modes \cap PublicModes)]
    /\ Finish
    /\ UNCHANGED <<conn, clients, clientVars, life, members, owner, pipe, lobbies,
                   purgeVars, expired>>

-----------------------------------------------------------------------------
(* The health task. *)

\* A pass over the clients map: those silent for too long become zombies.
HealthScan(gone) ==
    /\ gone \in SUBSET (clients \cap MayExpire)
    /\ gone # {}
    /\ expired = {}
    /\ purging[Health] = "off"
    /\ ServerFree
    /\ \A c \in gone : MayLeave(c) /\ WriteFree(c)
    /\ status' = [c \in Clients |-> IF c \in gone THEN "Zombie" ELSE status[c]]
    /\ expired' = gone
    /\ UNCHANGED <<conn, clients, ctype, coptions, chanlist, roomVars, pipe, dpc,
                   dclient, lobbies, purgeVars>>

\* The next of them, unless it has left the clients map in the meantime.
HealthNext(c) ==
    /\ c \in expired
    /\ purging[Health] = "off"
    /\ ServerFree
    /\ expired' = expired \ {c}
    /\ IF c \in clients THEN StartPurge(Health, c) ELSE UNCHANGED purgeVars
    /\ UNCHANGED <<conn, clients, clientVars, roomVars, pipe, dpc, dclient, lobbies>>

-----------------------------------------------------------------------------
ConnectionStep(c) ==
    AddClient(c) \/ Refind(c) \/ Send(c) \/ ReadFails(c) \/ StreamEnds(c) \/ PurgeStep(c)

DispatcherStep ==
    \/ Receive
    \/ NoEffect
    \/ LockServer
    \/ AuthStart("guest")
    \/ AuthStart("agent")
    \/ AuthAccepted
    \/ AuthInvalid
    \/ AutoJoin
    \/ AutoJoinPanics
    \/ AuthDone
    \/ BadRequest
    \/ \E r \in Rooms : JoinExisting(r) \/ JoinCreate(r) \/ Part(r)
    \/ \E r \in Rooms, c \in Clients : Kick(r, c)
    \/ \E c \in Clients : Kill(c)
    \/ SendtoWallops
    \/ \E r \in Rooms, modes \in ModeRequests : SetChannelModes(r, modes)
    \/ PurgeStep(Dispatcher)

HealthStep ==
    \/ \E gone \in SUBSET Clients : HealthScan(gone)
    \/ \E c \in Clients : HealthNext(c)
    \/ PurgeStep(Health)

Next ==
    \/ \E c \in Clients : ConnectionStep(c)
    \/ DispatcherStep
    \/ HealthStep

Spec == Init /\ [][Next]_vars

\* The runtime keeps polling every task that can go on, and tokio's mutex is
\* given to those who wait for it in turn: a task that finds the server mutex
\* free again and again gets it.  Peers are free to send or not, and the
\* health task to find somebody silent or not.
Fairness ==
    /\ WF_vars(DispatcherStep)
    /\ \A c \in Clients : SF_vars(PurgeStep(c))
    /\ SF_vars(PurgeStep(Health) \/ \E c \in Clients : HealthNext(c))

FairSpec == Spec /\ Fairness

-----------------------------------------------------------------------------
(* Properties. *)

\* Every variable has the type the code declares for it, and a client without
\* a type has the options Client::new gave it.
TypeOK ==
    /\ conn \in [Clients -> {"new", "added", "reading", "done"}]
    /\ clients \subseteq Clients
    /\ status \in [Clients -> Statuses]
    /\ ctype \in [Clients -> {"None", "Agent", "Guest"}]
    /\ coptions \in [Clients -> SUBSET ClientOptions]
    /\ \A c \in Clients : ctype[c] = "None" => coptions[c] = {"JoinChannels"}
    /\ chanlist \in [Clients -> SUBSET Rooms]
    /\ life \in [Rooms -> {"unborn", "listed", "removed"}]
    /\ members \in [Rooms -> SUBSET Clients]
    /\ options \in [Rooms -> SUBSET ChannelOptions]
    /\ owner \in [Rooms -> Clients \cup {NoClient}]
    /\ pipe \in Seq(Clients)
    /\ dpc \in {"idle", "handle", "guest", "agent", "lobby", "server", "purge", "kill",
               "wallops", "telling", "panicked"}
    /\ dclient \in Clients \cup {NoClient}
    /\ lobbies \in Seq(LobbyNames)
    /\ expired \subseteq Clients
    /\ purging \in [Tasks -> PurgePcs]
    /\ who \in [Tasks -> Clients \cup {NoClient}]
    /\ todo \in [Tasks -> SUBSET Rooms]
    /\ room \in [Tasks -> Rooms \cup {NoRoom}]

\* A registered client that nobody is taking out has every channel it is a
\* member of in its own channel list: the list is all that the three purge
\* loops (main.rs, commands.rs) look at when they take the client out.
Covered ==
    \A c \in clients :
        (\A t \in Tasks : who[t] # c) =>
            {r \in Rooms : c \in members[r]} \subseteq chanlist[c]

\* When clients leave only with no request pending, no channel keeps a member
\* that has left the server, whichever of the connection task, the health task
\* and a kill took it out, and even when several did at once.
NoGhosts ==
    Quiet => \A r \in Listed : members[r] \subseteq clients

\* Where nobody kicks or changes modes:
\* a listed channel without members and without Persist is about to go: some
\* task is between taking its last member out and removing it.
EmptyRoomsDoomed ==
    \A r \in Listed :
        (members[r] = {} /\ "Persist" \notin options[r]) =>
            \E t \in Tasks : room[t] = r /\ purging[t] \in {"mode", "count", "destroy"}

\* The members of a channel for agents only are agents: the lobbies an
\* authentication walks through never put a guest into the staff's.
AgentRooms ==
    \A r \in Rooms : "AgentOnly" \in options[r] => \A c \in members[r] : IsAgent(c)

\* What a client may do is settled by one authentication and never again:
\* no later request, expiry or failure gives it another type or other options.
PrivilegesFixed ==
    [][\A c \in Clients : ctype[c] # "None" =>
          ctype'[c] = ctype[c] /\ coptions'[c] = coptions[c]]_vars

\* The server as Lounge sees it.
Promise == INSTANCE Lounge WITH
    Lobbies   <- InitRooms,
    present   <- clients,
    role      <- ctype,
    stage     <- life,
    inside    <- [r \in Rooms |-> IF r \in Listed THEN members[r] ELSE {}],
    condemned <- {r \in Listed : \E t \in Tasks : room[t] = r /\ purging[t] = "destroy"}

\* Where nobody changes modes and clients leave with no request pending, the
\* tasks keep the promise of Lounge, whatever their interleaving: nobody leaves
\* the clients map while inside a listed channel, nobody enters one without an
\* authentication, and no channel is removed that was not found empty.
ImplementsLounge == Promise!Spec

\* A client whose connection failed is eventually out of the clients map.
FailedLeaves ==
    \A c \in Clients : (purging[c] = "snapshot") ~> (c \notin clients)

\* A channel left without members and without Persist is eventually removed,
\* unless it gets a member again.
EmptyRoomGoes ==
    \A r \in Rooms :
        (r \in Listed /\ members[r] = {} /\ "Persist" \notin options[r])
            ~> (r \notin Listed \/ members[r] # {})

\* Every request in the pipe is taken up by the dispatcher (main.rs: "this
\* processes pipe data from any of our internal websockets").
RequestServed ==
    \A c \in Clients : Queued(c) ~> (dclient = c \/ c \notin clients)

\* A channel is removed only when it has neither members nor Persist
\* (channel.rs: "persist channel even if members = 0").
RemovedWhenDue ==
    [][\A r \in Rooms : (life[r] = "listed" /\ life'[r] = "removed") =>
          members[r] = {} /\ "Persist" \notin options[r]]_vars

\* Nobody enters a channel before an authentication was accepted (main.rs: "if
\* we have no auth, we must have auth").
OnlyAuthenticatedJoin ==
    [][\A r \in Rooms : \A c \in members'[r] \ members[r] : ctype'[c] # "None"]_vars
=============================================================================
