------------------------------ MODULE RoomView ------------------------------
(***************************************************************************)
(* Who is told what of one channel: the option word of the channel         *)
(* (channel.rs), the joins, departures and user lists the server sends     *)
(* under these options, and the user list every member's web page          *)
(* (chat.js) builds from them.                                             *)
(*                                                                         *)
(* ChatServer has the tasks that add and remove members; this module has   *)
(* the messages they send in between.  They do so in different orders: a   *)
(* connection task removes its client and then tells the others, kill and  *)
(* the health task tell them and then remove it, each in a section of its  *)
(* own.                                                                    *)
(*                                                                         *)
(* Either everybody is authenticated at the start and the channel is made  *)
(* by one of them; or it is a lobby, and everybody is put in by its        *)
(* authentication, which sends the user list by a rule of its own, and     *)
(* sends no requests before it.                                            *)
(*                                                                         *)
(* A page reads its messages in the order they were sent and nothing else  *)
(* touches it, so a message is applied when it is sent: the page is what   *)
(* it will be when it has read everything.                                 *)
(***************************************************************************)
EXTENDS Naturals

CONSTANTS
    Clients,
    Agents,         \* the clients of type Agent
    Admins,         \* those with the option Admin
    Unseen,         \* those with the client option Invisible
    MayFail,        \* clients whose socket may report a read error
    MayExpire,      \* clients the health task may give up
    Requests,       \* the mode words clients send, any u64
    MaxVisits,      \* bound on how often somebody comes in
    Dispatcher, Health, NoClient

ASSUME ConstantsAssumption ==
    /\ Agents \cup Admins \cup Unseen \cup MayFail \cup MayExpire \subseteq Clients
    /\ Requests \subseteq Nat
    /\ MaxVisits \in Nat
    /\ NoClient \notin Clients
    /\ {Dispatcher, Health} \cap Clients = {}
    /\ Dispatcher # Health

Tasks == Clients \cup {Dispatcher, Health}

\* channel.rs ChannelOptions, as bits.
Bit == [ ClientInvites |-> 1, AgentOnly |-> 2, InviteOnly |-> 4, SaveHistory |-> 8,
         Persist |-> 16, WaitForAgent |-> 32, RejoinClients |-> 64, CanNotLeave |-> 128,
         HiddenMemberList |-> 256, HiddenMessages |-> 512, Invisible |-> 1024,
         Secret |-> 2048 ]

ChannelOptions == DOMAIN Bit

PublicModes == {"InviteOnly", "Secret"}

VARIABLES
    stage,      \* the channel is "unborn", "listed" or "removed"
    options,    \* Channel::options, a word
    owner,      \* Channel::owner
    members,    \* Channel::members
    clients,    \* Server::clients
    listing,    \* the clients whose own channel list has the channel
    purging,    \* per task: how far it is in taking a client out
    who,        \* per task: that client
    dpc,        \* the dispatcher's: "idle", or inside a part, kick or kill
    tab,        \* the pages that have the room open
    entries,    \* per page: how often its user list shows each client
    fresh,      \* the clients not yet authenticated
    visits,     \* how often somebody came in
    opened,     \* pages that had the room open while the member list was not hidden
    hid,        \* pages that had it open while the channel was hidden from guests
    early,      \* <<d, c>>: c got on d's list between c's Quit and its removal
    missed      \* <<d, c>>: c was in when d's authentication put it in without a list

room  == <<stage, options, owner, members>>
tasks == <<clients, listing, purging, who, dpc>>
pages == <<tab, entries>>
comings == <<fresh, visits>>
past  == <<comings, opened, hid, early, missed>>
vars  == <<room, tasks, pages, past>>

-----------------------------------------------------------------------------
(* The option word. *)

\* has_option: the bit of o is set.
Has(word, o) == (word \div Bit[o]) % 2 = 1

\* What or and xor with the bit of o make of a word.
Or(word, o)  == IF Has(word, o) THEN word ELSE word + Bit[o]
Xor(word, o) == IF Has(word, o) THEN word - Bit[o] ELSE word + Bit[o]

\* Mutant of FromU64: whatever was asked.
FromU64Raw == [modes \in Requests |-> modes]

\* get_options_from_u64: every option is looked for, and bits that are none are
\* dropped. What or adds to None, bit by bit, is a sum: no two options share one.
FromU64 ==
    [modes \in Requests |->
        LET Bits(o) == IF Has(modes, o) THEN Bit[o] ELSE 0 IN
          Bits("ClientInvites") + Bits("AgentOnly") + Bits("InviteOnly")
        + Bits("SaveHistory") + Bits("Persist") + Bits("WaitForAgent")
        + Bits("RejoinClients") + Bits("CanNotLeave") + Bits("HiddenMemberList")
        + Bits("HiddenMessages") + Bits("Invisible") + Bits("Secret")]

\* Mutant of Toggle: remove_option is an xor, and adds what was not there.
ToggleBlindly(word, asked, o) ==
    IF Has(asked, o) THEN Or(word, o) ELSE Xor(word, o)

\* add_option, or remove_option, which is an xor.
Toggle(word, asked, o) ==
    IF Has(asked, o) = Has(word, o) THEN word
    ELSE IF Has(asked, o) THEN Or(word, o)
    ELSE Xor(word, o)

\* The options as the set ChatServer has.
Decode(word) == {o \in ChannelOptions : Has(word, o)}

\* The channel shows less to guests.
Hides(word) == \E o \in {"HiddenMemberList", "Invisible"} : Has(word, o)

\* Mutant of FromGuests: the test of has_option, which wants both bits.
FromGuestsBoth(word) == Has(word, "HiddenMemberList") /\ Has(word, "Invisible")

\* broadcast_join and broadcast_part go to agents only.
FromGuests(word) == Has(word, "HiddenMemberList") \/ Has(word, "Invisible")

-----------------------------------------------------------------------------
(* What the pages do. *)

Nobody == [c \in Clients |-> 0]

\* Every page of ds that has the room open gets a line for c.
Shown(ds, c) ==
    [d \in Clients |-> IF d \in ds \cap tab THEN [entries[d] EXCEPT ![c] = @ + 1]
                       ELSE entries[d]]

\* Every page of ds loses one line of c; the handler throws if there is none.
Struck(ds, c) ==
    [d \in Clients |-> IF d \in ds /\ entries[d][c] > 0
                       THEN [entries[d] EXCEPT ![c] = @ - 1]
                       ELSE entries[d]]

\* The page of c closes the room, on its own Part or Kick or with its socket;
\* who reads nothing has no past.
Close(c, table) ==
    /\ tab' = tab \ {c}
    /\ entries' = [table EXCEPT ![c] = Nobody]
    /\ opened' = opened \ {c}
    /\ hid' = hid \ {c}
    /\ early' = {p \in early : p[1] # c}
    /\ missed' = {p \in missed : p[1] # c}

-----------------------------------------------------------------------------
\* The options create_default_channels gives the global lobby.
LobbyModes == Bit.SaveHistory + Bit.Persist + Bit.RejoinClients + Bit.CanNotLeave

Init ==
    /\ \/ stage = "unborn" /\ options = 0 /\ fresh = {}
       \/ stage = "listed" /\ options = LobbyModes /\ fresh = Clients
    /\ owner = NoClient
    /\ members = {}
    /\ clients = Clients
    /\ listing = {}
    /\ purging = [t \in Tasks |-> "off"]
    /\ who = [t \in Tasks |-> NoClient]
    /\ dpc = "idle"
    /\ tab = {}
    /\ entries = [d \in Clients |-> Nobody]
    /\ visits = 0
    /\ opened = {}
    /\ hid = {}
    /\ early = {}
    /\ missed = {}

\* A request of c is carried out; c may be about to leave.
Request(c) == dpc = "idle" /\ c \in clients \ fresh

Visit ==
    /\ visits < MaxVisits
    /\ visits' = visits + 1

\* The connection task or the health task has not found the socket dead.
Connected(c) == who[c] # c /\ who[Health] # c

\* The health task has told of c's departure and not yet removed it.
Quitting(c) == who[Health] = c /\ purging[Health] = "remove"

Create(c) ==
    /\ Request(c)
    /\ Visit
    /\ stage = "unborn"
    /\ stage' = "listed"
    /\ options' = Bit.ClientInvites + Bit.SaveHistory
    /\ owner' = c
    /\ members' = {c}
    /\ listing' = listing \cup {c}
    /\ tab' = IF Connected(c) THEN {c} ELSE {}
    /\ entries' = [entries EXCEPT ![c][c] = IF Connected(c) THEN 1 ELSE 0]
    /\ opened' = tab'
    /\ UNCHANGED <<clients, purging, who, dpc, fresh, hid, early, missed>>

\* Whom the senders of Channel reach; none of them looks at the options.
SendtoAgents       == members \cap Agents
SendtoNonagents    == members \ Agents
SendtoAllButOne(c) == members \ {c}
SendtoAll          == members

\* Who is told that c joins; an invisible client is never announced.
ToldOfJoin(c) ==
    IF c \in Unseen THEN {}
    ELSE IF FromGuests(options) THEN SendtoAgents
    ELSE SendtoNonagents \cup SendtoAgents

\* c is told itself, and its page opens the room.
Sees(c) == Connected(c) /\ (Has(options, "Invisible") => c \in Agents)

\* Mutant of GetsList: in a hidden channel nobody gets one, nor do agents.
GetsListUnlessHidden(c) == Sees(c) /\ ~Has(options, "HiddenMemberList")

\* c is sent the names of all members.
GetsList(c) == Sees(c) /\ (Has(options, "HiddenMemberList") => c \in Agents)

\* add_member tells the others; c is told that it is in, and, if it is to have
\* the list, who else is.
Enter(c, listed) ==
    /\ Visit
    /\ stage = "listed"
    /\ members' = members \cup {c}
    /\ listing' = listing \cup {c}
    /\ tab' = IF Sees(c) THEN tab \cup {c} ELSE tab
    /\ entries' = [Shown(ToldOfJoin(c), c) EXCEPT ![c] =
                     [x \in Clients |-> IF \/ x = c /\ Sees(c)
                                           \/ x \in members /\ listed
                                        THEN 1 ELSE 0]]
    /\ opened' = IF Sees(c) /\ ~Has(options, "HiddenMemberList") THEN opened \cup {c} ELSE opened
    /\ hid' = IF Sees(c) /\ Hides(options) THEN hid \cup {c} ELSE hid
    /\ early' = early \cup {p \in ((members \cap tab) \X {c}) \cup ({c} \X members) :
                                Quitting(p[2]) /\ p[1] \in tab'}
    /\ UNCHANGED <<stage, options, owner, clients, purging, who, dpc>>

\* What is left of missed when c comes in, by whichever way.
MissedBut(c) == {p \in missed : c \notin {p[1], p[2]}}

Join(c) ==
    /\ Request(c)
    /\ c \notin members
    /\ Has(options, "AgentOnly") => c \in Agents
    /\ Has(options, "InviteOnly") => c \in Admins
    /\ Enter(c, GetsList(c))
    /\ missed' = MissedBut(c)
    /\ UNCHANGED fresh

\* The walk through the lobbies sends the list to nobody while it is hidden,
\* agents included.
GetsLobbyList(c) == Sees(c) /\ ~Has(options, "HiddenMemberList")

\* c's authentication is accepted, and puts it in whatever AgentOnly and
\* InviteOnly say.
Walk(c) ==
    /\ dpc = "idle"
    /\ c \in clients \cap fresh
    /\ fresh' = fresh \ {c}
    /\ Enter(c, GetsLobbyList(c))
    /\ missed' = MissedBut(c) \cup (IF Has(options, "HiddenMemberList") THEN {c} \X members ELSE {})

\* The channel goes if nobody is left and it does not persist.
Abandoned(inside) == inside = {} /\ ~Has(options, "Persist")

\* The client's page closes the room before the client is removed from it.
PartLeave(c) ==
    /\ Request(c)
    /\ stage = "listed"
    /\ c \in members
    /\ Has(options, "CanNotLeave") => c \in Agents \cap Admins
    /\ members' = members \ {c}
    /\ Close(c, entries)
    /\ dpc' = "part"
    /\ who' = [who EXCEPT ![Dispatcher] = c]
    /\ UNCHANGED <<stage, options, owner, clients, listing, purging, comings>>

\* In a hidden channel the broadcast is made and never sent: it is not awaited.
PartTell ==
    /\ dpc = "part"
    /\ entries' = IF FromGuests(options) THEN entries
                  ELSE Struck(SendtoNonagents \cup SendtoAgents, who[Dispatcher])
    /\ stage' = IF Abandoned(members) THEN "removed" ELSE stage
    /\ dpc' = "idle"
    /\ who' = [who EXCEPT ![Dispatcher] = NoClient]
    /\ UNCHANGED <<options, owner, members, clients, listing, purging, tab, past>>

KickTell(c, target) ==
    /\ Request(c)
    /\ stage = "listed"
    /\ owner = c \/ c \in Agents
    /\ target \in members \cap clients
    /\ Close(target, Struck(SendtoAll, target))
    /\ dpc' = "kick"
    /\ who' = [who EXCEPT ![Dispatcher] = target]
    /\ UNCHANGED <<room, clients, listing, purging, comings>>

KickRemove ==
    /\ dpc = "kick"
    /\ members' = members \ {who[Dispatcher]}
    /\ listing' = listing \ {who[Dispatcher]}
    /\ dpc' = "idle"
    /\ who' = [who EXCEPT ![Dispatcher] = NoClient]
    /\ UNCHANGED <<stage, options, owner, clients, purging, pages, past>>

SetModes(c, modes) ==
    LET asked == FromU64[modes] IN
    /\ Request(c)
    /\ stage = "listed"
    /\ owner = c \/ c \in Agents
    /\ options' = IF c \in Agents THEN asked
                  ELSE Toggle(Toggle(options, asked, "InviteOnly"), asked, "Secret")
    /\ opened' = IF Has(options', "HiddenMemberList") THEN opened ELSE opened \cup tab
    /\ hid' = IF Hides(options') THEN hid \cup tab ELSE hid
    /\ UNCHANGED <<stage, owner, members, tasks, pages, comings, early, missed>>

-----------------------------------------------------------------------------
(* Taking a client out of the server. *)

\* The task takes its look at the client's channel list.
Look(t, c) ==
    /\ purging' = [purging EXCEPT ![t] =
                     IF c \notin listing \/ stage # "listed" THEN "deregister"
                     ELSE IF t \in Clients THEN "remove" ELSE "tell"]
    /\ who' = [who EXCEPT ![t] = c]

ReadFails(c) ==
    /\ c \in MayFail \cap clients
    /\ purging[c] = "off"
    /\ Look(c, c)
    /\ Close(c, entries)
    /\ UNCHANGED <<room, clients, listing, dpc, comings>>

Kill(c, target) ==
    /\ Request(c)
    /\ c \in Agents
    /\ target \in clients \ Admins
    /\ Look(Dispatcher, target)
    /\ dpc' = "kill"
    /\ UNCHANGED <<room, clients, listing, pages, past>>

Expire(c) ==
    /\ c \in MayExpire \cap clients
    /\ purging[Health] = "off"
    /\ Look(Health, c)
    /\ Close(c, entries)
    /\ UNCHANGED <<room, clients, listing, dpc, comings>>

Remove(t) ==
    /\ purging[t] = "remove"
    /\ members' = members \ {who[t]}
    /\ purging' = [purging EXCEPT ![t] = IF t \in Clients THEN "tell" ELSE "count"]
    /\ UNCHANGED <<stage, options, owner, clients, listing, who, dpc, pages, past>>

\* Mutant of Tell: the client that left is told, the others are not.
TellItself(t) ==
    /\ purging[t] = "tell"
    /\ entries' = Struck({who[t]}, who[t])
    /\ purging' = [purging EXCEPT ![t] = IF t \in Clients THEN "count" ELSE "remove"]
    /\ UNCHANGED <<room, clients, listing, who, dpc, tab, past>>

\* Only the connection task minds that the channel is hidden.
Tell(t) ==
    /\ purging[t] = "tell"
    /\ entries' = Struck(IF t \in Clients /\ FromGuests(options) THEN SendtoAgents
                         ELSE SendtoAllButOne(who[t]), who[t])
    /\ purging' = [purging EXCEPT ![t] = IF t \in Clients THEN "count" ELSE "remove"]
    /\ UNCHANGED <<room, clients, listing, who, dpc, tab, past>>

Count(t) ==
    /\ purging[t] = "count"
    /\ purging' = [purging EXCEPT ![t] = IF Abandoned(members) THEN "destroy" ELSE "deregister"]
    /\ UNCHANGED <<room, clients, listing, who, dpc, pages, past>>

Destroy(t) ==
    /\ purging[t] = "destroy"
    /\ stage' = "removed"
    /\ purging' = [purging EXCEPT ![t] = "deregister"]
    /\ UNCHANGED <<options, owner, members, clients, listing, who, dpc, pages, past>>

Deregister(t) ==
    /\ purging[t] = "deregister"
    /\ clients' = clients \ {who[t]}
    /\ purging' = [purging EXCEPT ![t] = "off"]
    /\ who' = [who EXCEPT ![t] = NoClient]
    /\ dpc' = IF t = Dispatcher THEN "idle" ELSE dpc
    /\ Close(who[t], entries)
    /\ UNCHANGED <<room, listing, comings>>

-----------------------------------------------------------------------------
Next ==
    \/ \E c \in Clients : Create(c) \/ Join(c) \/ Walk(c) \/ PartLeave(c) \/ ReadFails(c) \/ Expire(c)
    \/ \E c, target \in Clients : KickTell(c, target) \/ Kill(c, target)
    \/ \E c \in Clients, modes \in Requests : SetModes(c, modes)
    \/ PartTell
    \/ KickRemove
    \/ \E t \in Tasks : Remove(t) \/ Tell(t) \/ Count(t) \/ Destroy(t) \/ Deregister(t)

Spec == Init /\ [][Next]_vars

-----------------------------------------------------------------------------
(* Properties. *)

\* Every variable has its type; no page has more lines of a client than there
\* were entries.
TypeOK ==
    /\ stage \in {"unborn", "listed", "removed"}
    /\ options \in 0 .. 4095
    /\ owner \in Clients \cup {NoClient}
    /\ members \subseteq Clients
    /\ clients \subseteq Clients
    /\ listing \subseteq Clients
    /\ purging \in [Tasks -> {"off", "remove", "tell", "count", "destroy", "deregister"}]
    /\ who \in [Tasks -> Clients \cup {NoClient}]
    /\ dpc \in {"idle", "part", "kick", "kill"}
    /\ tab \subseteq Clients
    /\ visits \in 0 .. MaxVisits
    /\ \A d, c \in Clients : entries[d][c] \in 0 .. visits
    /\ opened \subseteq Clients
    /\ hid \subseteq Clients
    /\ early \subseteq Clients \X Clients
    /\ missed \subseteq Clients \X Clients
    /\ fresh \subseteq Clients

\* A client nobody is taking out of the channel or the server.
Settled(c) == c \in clients /\ \A t \in Tasks : who[t] # c

\* The reader of a page whose connection is up.
Reads(d) == Settled(d) /\ d \in members /\ d \in tab

\* A member that is not invisible itself is on the user list of every agent in
\* the channel, whatever the modes were when either came and however the
\* departures of others were told (add_member, join, chat.js), unless that agent
\* was put in by its authentication, with the list hidden, after the member; and
\* on everybody's, guests too, if the channel was not hidden since they came in.
MembersShown ==
    \A d, c \in Clients :
        (/\ Reads(d)
         /\ Settled(c) /\ c \in members \ Unseen
         /\ (d \in Agents /\ <<d, c>> \notin missed) \/ d \notin hid) => entries[d][c] > 0

\* A guest who came in while the member list was hidden from guests, and for
\* whom it has been hidden ever since, has nobody else on the list, whoever
\* joins, is kicked or disconnects (channel.rs broadcast_join, commands.rs join).
HiddenFromGuests ==
    \A d \in Clients \ Agents :
        d \notin opened => \A c \in Clients \ {d} : entries[d][c] = 0

\* In a channel that was not hidden since the reader came in, nobody is shown
\* that is no member, except while a task is about to tell of the departure;
\* and except, for good, who got on that list between the health task's Quit
\* for it and its removal (main.rs check_client_pings).
NoStrangers ==
    \A d, c \in Clients :
        (Reads(d) /\ d \notin hid /\ entries[d][c] > 0) =>
            \/ c \in members
            \/ \E t \in Tasks : who[t] = c
            \/ <<d, c>> \in early

\* Setting modes does to the word what ChatServer does to its set of options,
\* with bits that are no option in the request and with an xor to remove a mode
\* (channel.rs remove_option): an agent's request replaces the modes, an
\* owner's changes the two public ones and leaves the others alone.
ModesAgree ==
    [][\A c \in Clients, modes \in Requests :
          SetModes(c, modes) =>
              Decode(options') =
                  IF c \in Agents THEN Decode(modes)
                  ELSE (Decode(options) \ PublicModes) \cup (Decode(modes) \cap PublicModes)]_vars
=============================================================================
