------------------------------- MODULE Storage -------------------------------
(***************************************************************************)
(* What chatd keeps on disk and what a start makes of it: the              *)
(* configuration file, the agents' database and the bans file; and the     *)
(* bans at work, from the accept loop to a kline and back to the file.     *)
(* The configuration names the other two files: the edited one names files *)
(* of its own.                                                             *)
(*                                                                         *)
(* The process may go down at any point.  fs::write empties the file and   *)
(* then writes it: a crash in between leaves an empty file, and a file     *)
(* that cannot be parsed is read as an empty one.                          *)
(*                                                                         *)
(* The expiry of a ban is kept with it and nothing ever looks at it: there *)
(* is no clock here.                                                       *)
(***************************************************************************)
EXTENDS Naturals

CONSTANTS
    Clients,    \* a slot is taken by one connection after the other
    Ips,
    IpOf,       \* the address each client connects from
    NoIp

ASSUME IpAssumption == IpOf \in [Clients -> Ips] /\ NoIp \notin Ips

Confs == {"default", "edited"}

VARIABLES
    conffile, agents, banfile,              \* on disk
    password,                               \* the admin's: "none", "shown" or "lost"
    stage, conf, bans, conn, agent,         \* in memory
    dpc, ip, hunt,                          \* the dispatcher at a kline
    late,                                   \* clients at the handshake when they were banned
    spared,                                 \* clients a kline found and did not kill
    kept,                                   \* per configuration: what its last save had in it
    failed                                  \* files that an error or a crash has cost

agentVars      == <<agents, password>>
diskVars       == <<conffile, agentVars, banfile>>
dispatcherVars == <<dpc, ip, hunt>>
historyVars    == <<late, spared, kept, failed>>
vars == <<diskVars, stage, conf, bans, conn, agent, dispatcherVars, historyVars>>

In == {c \in Clients : conn[c] = "in"}

Init ==
    /\ conffile = "absent" /\ agents = [f \in Confs |-> "absent"]
    /\ banfile = [f \in Confs |-> {}]
    /\ password = [f \in Confs |-> "none"]
    /\ stage = "down" /\ conf = "default"
    /\ bans = {}
    /\ conn = [c \in Clients |-> "out"]
    /\ agent = {}
    /\ dpc = "idle" /\ ip = NoIp /\ hunt = {}
    /\ late = {} /\ spared = {} /\ failed = {}
    /\ kept = [f \in Confs |-> {}]

-----------------------------------------------------------------------------
(* Start up, in the order of main.                                          *)

Boot(from, to) ==
    /\ stage = from
    /\ stage' = to
    /\ UNCHANGED <<conn, agent, dispatcherVars, late, spared, kept>>

\* The operator edits the file, rightly or with a mistake in it.  It is read
\* at the start only: an edit is as good as one made before the next start.
EditConfig ==
    /\ stage = "down"
    /\ conffile # "absent"
    /\ conffile' \in {"edited", "broken"}
    /\ UNCHANGED <<agentVars, banfile, stage, conf, bans, conn, agent, dispatcherVars, historyVars>>

\* A file that cannot be read or parsed is replaced by the defaults.
LoadConfig ==
    /\ Boot("down", "config")
    /\ conffile' \in IF conffile \in {"default", "edited"} THEN {conffile}
                                                           ELSE {conffile, "default"}
    /\ conf' = IF conffile = "edited" THEN "edited" ELSE "default"
    /\ UNCHANGED <<agentVars, banfile, bans, failed>>

CreateTables ==
    /\ Boot("config", "tables")
    /\ \/ /\ agents' = [agents EXCEPT ![conf] = IF @ = "absent" THEN "empty" ELSE @]
          /\ UNCHANGED failed
       \/ /\ failed' = failed \cup {"agents"}
          /\ UNCHANGED agents
    /\ UNCHANGED <<conffile, conf, banfile, bans, password>>

\* Mutant of AddAdmin: has_any the wrong way round.
AddAdminInverted ==
    /\ \/ /\ Boot("tables", IF agents[conf] = "empty" THEN "agents" ELSE "password")
          /\ UNCHANGED failed
       \/ /\ Boot("tables", "agents")
          /\ failed' = failed \cup {"agents"}
    /\ UNCHANGED <<conffile, conf, agentVars, banfile, bans>>

\* The first admin is made up, and is in the database before anybody is told.
AddAdmin ==
    /\ \/ /\ Boot("tables", IF agents[conf] = "empty" THEN "password" ELSE "agents")
          /\ agents' = [agents EXCEPT ![conf] = IF @ = "empty" THEN "admin" ELSE @]
          /\ UNCHANGED failed
       \/ /\ Boot("tables", "agents")
          /\ failed' = failed \cup {"agents"}
          /\ UNCHANGED agents
    /\ UNCHANGED <<conffile, conf, banfile, bans, password>>

\* The random password goes to the standard output, once and nowhere else.
PrintPassword ==
    /\ Boot("password", "agents")
    /\ password' = [password EXCEPT ![conf] = "shown"]
    /\ UNCHANGED <<conffile, conf, agents, banfile, bans, failed>>

\* Mutant of LoadBans: the server starts with no ban.
LoadNone ==
    /\ Boot("agents", "up")
    /\ bans' = {}
    /\ UNCHANGED <<conffile, conf, agentVars, banfile, failed>>

\* A file that exists and cannot be read is emptied, if it can be written, as
\* if it did not exist.
LoadBans ==
    /\ Boot("agents", "up")
    /\ \/ /\ bans' = banfile[conf]
          /\ UNCHANGED <<banfile, failed>>
       \/ /\ bans' = {}
          /\ banfile' \in {banfile, [banfile EXCEPT ![conf] = {}]}
          /\ failed' = failed \cup {"bans"}
    /\ UNCHANGED <<conffile, conf, agentVars>>

\* The process ends, or is ended, wherever it is.
Crash ==
    /\ stage # "down"
    /\ stage' = "down"
    /\ bans' = {}
    /\ conn' = [c \in Clients |-> "out"]
    /\ agent' = {}
    /\ dpc' = "idle" /\ ip' = NoIp /\ hunt' = {}
    /\ late' = {} /\ spared' = {}
    /\ failed' = IF dpc = "write" THEN failed \cup {"bans"} ELSE failed
    /\ password' = [password EXCEPT ![conf] = IF stage = "password" THEN "lost" ELSE @]
    /\ UNCHANGED <<conffile, agents, banfile, conf, kept>>

-----------------------------------------------------------------------------
(* Connections.                                                             *)

\* Ban::exists: by the address alone.
BanExists(i) == i \in bans

\* Mutant of Accept: the bans are not looked at.
AcceptAll(c) ==
    /\ stage = "up"
    /\ conn[c] = "out" /\ c \notin hunt
    /\ conn' = [conn EXCEPT ![c] = "handshake"]
    /\ UNCHANGED <<diskVars, stage, conf, bans, agent, dispatcherVars, historyVars>>

\* The ban is looked up when the socket is accepted, before the handshakes.
Accept(c) ==
    /\ stage = "up"
    /\ conn[c] = "out" /\ c \notin hunt
    /\ ~BanExists(IpOf[c])
    /\ conn' = [conn EXCEPT ![c] = "handshake"]
    /\ UNCHANGED <<diskVars, stage, conf, bans, agent, dispatcherVars, historyVars>>

AddClient(c) ==
    /\ conn[c] = "handshake"
    /\ conn' = [conn EXCEPT ![c] = "in"]
    /\ UNCHANGED <<diskVars, stage, conf, bans, agent, dispatcherVars, historyVars>>

\* Mutant of Drop: the slot keeps the rights of the client that left.
DropKeepsAgent(c) ==
    /\ conn' = [conn EXCEPT ![c] = "out"]
    /\ late' = late \ {c}
    /\ spared' = spared \ {c}
    /\ UNCHANGED agent

Drop(c) ==
    /\ conn' = [conn EXCEPT ![c] = "out"]
    /\ agent' = agent \ {c}
    /\ late' = late \ {c}
    /\ spared' = spared \ {c}

\* A handshake fails, a connection ends, a peer times out.
Leave(c) ==
    /\ conn[c] # "out"
    /\ Drop(c)
    /\ UNCHANGED <<diskVars, stage, conf, bans, dispatcherVars, kept, failed>>

AuthAgent(c) ==
    /\ dpc = "idle"
    /\ c \in In \ agent
    /\ agents[conf] = "admin" /\ password[conf] = "shown"
    /\ agent' = agent \cup {c}
    /\ UNCHANGED <<diskVars, stage, conf, bans, conn, dispatcherVars, historyVars>>

-----------------------------------------------------------------------------
(* CommandHandler::kline, in the dispatcher.                                *)

\* Asked for by an agent, who may be gone when the hunt begins.
Kline(i) ==
    /\ dpc = "idle"
    /\ agent # {}
    /\ ~BanExists(i)
    /\ dpc' = "kline"
    /\ ip' = i
    /\ UNCHANGED <<diskVars, stage, conf, bans, conn, agent, hunt, historyVars>>

\* The ban and the search, both under the server's mutex.
Hunt ==
    /\ dpc = "kline"
    /\ In # {}
    /\ bans' = bans \cup {ip}
    /\ hunt' = {c \in In \ agent : IpOf[c] = ip}
    /\ late' = late \cup {c \in Clients : conn[c] = "handshake" /\ IpOf[c] = ip}
    /\ dpc' = "kill"
    /\ UNCHANGED <<diskVars, stage, conf, conn, agent, ip, spared, kept, failed>>

\* The expiry is beyond what SystemTime can hold: nothing is banned.
ExpiryPanics ==
    /\ dpc = "kline"
    /\ dpc' = "panicked"
    /\ UNCHANGED <<diskVars, stage, conf, bans, conn, agent, ip, hunt, historyVars>>

\* Nobody is registered: get_clients().unwrap() ends the dispatcher.
HuntPanics ==
    /\ dpc = "kline"
    /\ In = {}
    /\ bans' = bans \cup {ip}
    /\ late' = late \cup {c \in Clients : conn[c] = "handshake" /\ IpOf[c] = ip}
    /\ dpc' = "panicked"
    /\ UNCHANGED <<diskVars, stage, conf, conn, agent, ip, hunt, spared, kept, failed>>

KillOne(c) ==
    /\ dpc = "kill"
    /\ c \in hunt
    /\ hunt' = hunt \ {c}
    /\ Drop(c)
    /\ UNCHANGED <<diskVars, stage, conf, bans, dpc, ip, kept, failed>>

\* kill refuses reasons of more than 255 characters; kline has made its reason
\* longer, and does not look at the result.
KillRefused(c) ==
    /\ dpc = "kill"
    /\ c \in hunt
    /\ hunt' = hunt \ {c}
    /\ spared' = IF c \in In THEN spared \cup {c} ELSE spared
    /\ UNCHANGED <<diskVars, stage, conf, bans, conn, agent, dpc, ip, late, kept, failed>>

\* Mutant of KillsEnd: nothing is saved when nobody was found.
KillsEndUnsaved ==
    /\ dpc = "kill"
    /\ hunt = {}
    /\ dpc' = IF \E c \in In : IpOf[c] = ip THEN "save" ELSE "idle"
    /\ UNCHANGED <<diskVars, stage, conf, bans, conn, agent, ip, hunt, historyVars>>

KillsEnd ==
    /\ dpc = "kill"
    /\ hunt = {}
    /\ dpc' = "save"
    /\ UNCHANGED <<diskVars, stage, conf, bans, conn, agent, ip, hunt, historyVars>>

Truncate ==
    /\ dpc = "save"
    /\ banfile' = [banfile EXCEPT ![conf] = {}]
    /\ dpc' = "write"
    /\ UNCHANGED <<conffile, agentVars, stage, conf, bans, conn, agent, ip, hunt, historyVars>>

WriteBans ==
    /\ dpc = "write"
    /\ banfile' = [banfile EXCEPT ![conf] = bans]
    /\ kept' = [kept EXCEPT ![conf] = bans]
    /\ dpc' = "idle"
    /\ UNCHANGED <<conffile, agentVars, stage, conf, bans, conn, agent, ip, hunt, late, spared, failed>>

\* The result of save_to_disk is dropped.
SaveFails ==
    /\ dpc \in {"save", "write"}
    /\ dpc' = "idle"
    /\ failed' = failed \cup {"bans"}
    /\ UNCHANGED <<diskVars, stage, conf, bans, conn, agent, ip, hunt, late, spared, kept>>

-----------------------------------------------------------------------------
Start == LoadConfig \/ CreateTables \/ AddAdmin \/ PrintPassword \/ LoadBans

Dispatch ==
    \/ \E c \in Clients : AuthAgent(c)
    \/ \E i \in Ips : Kline(i)
    \/ Hunt \/ ExpiryPanics \/ HuntPanics
    \/ \E c \in Clients : KillOne(c) \/ KillRefused(c)
    \/ KillsEnd \/ Truncate \/ WriteBans \/ SaveFails

Next ==
    \/ EditConfig \/ Start \/ Crash
    \/ \E c \in Clients : Accept(c) \/ AddClient(c) \/ Leave(c)
    \/ Dispatch

Spec == Init /\ [][Next]_vars

-----------------------------------------------------------------------------
(* Properties.                                                              *)

\* The files, the connections and the kline are what the actions say; rights
\* and the kline's victims are those of the present connections.
TypeOK ==
    /\ conffile \in Confs \cup {"absent", "broken"} /\ conf \in Confs
    /\ agents \in [Confs -> {"absent", "empty", "admin"}]
    /\ password \in [Confs -> {"none", "shown", "lost"}]
    /\ banfile \in [Confs -> SUBSET Ips] /\ kept \in [Confs -> SUBSET Ips]
    /\ bans \subseteq Ips
    /\ stage \in {"down", "config", "tables", "password", "agents", "up"}
    /\ conn \in [Clients -> {"out", "handshake", "in"}]
    /\ agent \subseteq In /\ spared \subseteq In /\ hunt \subseteq Clients
    /\ late \subseteq {c \in Clients : conn[c] # "out"}
    /\ dpc \in {"idle", "kline", "kill", "save", "write", "panicked"}
    /\ ip \in Ips \cup {NoIp}
    /\ failed \subseteq {"agents", "bans"}

\* A registered client with a banned address is an agent, is about to be
\* killed, was at its handshake when the ban was made, or was spared for the
\* length of the reason: the look-up of the accept loop (main.rs) and the
\* search of kline leave no other gap.
BannedOut ==
    \A c \in In : IpOf[c] \in bans => c \in agent \cup hunt \cup late \cup spared

\* While no kline is at work a crash costs no ban: all of them are on disk.  At
\* any other time but within the write, and for good once the dispatcher has
\* panicked (get_clients().unwrap()), it costs the ban being made and no other.
Saved ==
    (stage = "up" /\ dpc # "write" /\ "bans" \notin failed) =>
        /\ banfile[conf] \subseteq bans
        /\ bans \subseteq banfile[conf] \cup (IF dpc = "idle" THEN {} ELSE {ip})

\* What was saved once is in force after every restart with that
\* configuration, also one in the middle of a later kline, until an error, or
\* a crash within a write, costs a file.
BansSurvive ==
    (stage = "up" /\ "bans" \notin failed) => kept[conf] \subseteq bans

\* A server that is up has an admin in its database, even when an earlier start
\* did not get that far (main.rs: "no agents found in database, generating");
\* and its password was printed, unless a start went down between the two.
AdminThere ==
    (stage = "up" /\ "agents" \notin failed) =>
        agents[conf] = "admin" /\ password[conf] \in {"shown", "lost"}
=============================================================================
