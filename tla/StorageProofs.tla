---------------------------- MODULE StorageProofs ----------------------------
(***************************************************************************)
(* Every property of Storage, for any clients and addresses.               *)
(*                                                                         *)
(* SInv strengthens them with what the code relies on between the steps:   *)
(* nothing is at work unless the server is up, who is found is killed      *)
(* before the kline goes on, a banned handshake is a late one, and the     *)
(* files hold what was saved but for the moment between fs::write's        *)
(* truncation and its write.                                               *)
(***************************************************************************)
EXTENDS Storage, TLAPS

\* While the server is not up there is nobody, no ban and no kline.
Quiescent ==
    stage # "up" => /\ \A c \in Clients : conn[c] = "out"
                    /\ bans = {}
                    /\ dpc = "idle"

HuntInKill ==
    /\ dpc # "kill" => hunt = {}
    /\ dpc = "kline" => ip \in Ips

\* The gap of the accept loop: its look-up comes before the handshake.
BannedLate == \A c \in Clients : (conn[c] = "handshake" /\ IpOf[c] \in bans) => c \in late

\* Memory and file agree until the kline begins its hunt, and from then on they
\* differ by its ban at most.
SavedOrHunting ==
    (stage = "up" /\ dpc # "write" /\ "bans" \notin failed) =>
        /\ banfile[conf] \subseteq bans
        /\ bans \subseteq banfile[conf] \cup (IF dpc \in {"idle", "kline"} THEN {} ELSE {ip})

\* What was saved is in its file, unless that file is being written.
KeptOnDisk ==
    "bans" \notin failed =>
        \A f \in Confs : kept[f] \subseteq banfile[f] \/ (dpc = "write" /\ f = conf)

\* The tables come before the admin, and the admin before the bans.
AdminInTime ==
    "agents" \notin failed =>
        /\ stage = "tables" => agents[conf] # "absent"
        /\ stage \in {"password", "agents", "up"} => agents[conf] = "admin"

\* An admin's password is on its way to the operator, or was shown or lost.
Told ==
    \A f \in Confs :
        agents[f] = "admin" =>
            password[f] \in {"shown", "lost"} \/ (stage = "password" /\ conf = f)

Work == TypeOK /\ Quiescent /\ HuntInKill
Ban == BannedLate /\ BannedOut
Disk == SavedOrHunting /\ KeptOnDisk /\ BansSurvive /\ AdminInTime /\ Told

SInv == Work /\ Ban /\ Disk

-----------------------------------------------------------------------------
LEMMA SInit == Init => SInv
  BY IpAssumption
  DEF Init, SInv, Work, Ban, Disk, TypeOK, Quiescent, HuntInKill, BannedLate, BannedOut,
      SavedOrHunting, KeptOnDisk, BansSurvive, AdminInTime, Told, In, Confs

\* Types, and what is at work when.
LEMMA WorkStep ==
  ASSUME SInv, [Next]_vars
  PROVE  Work'
<1> USE IpAssumption
    DEF SInv, Work, TypeOK, Quiescent, HuntInKill, In, Confs, agentVars, diskVars,
        dispatcherVars, historyVars
<1>1. ASSUME NEW c \in Clients, Accept(c) PROVE Work'
  BY <1>1 DEF Accept, BanExists
<1>2. ASSUME NEW c \in Clients, AddClient(c) PROVE Work'
  BY <1>2 DEF AddClient
<1>3. ASSUME NEW c \in Clients, Leave(c) PROVE Work'
  BY <1>3 DEF Leave, Drop
<1>4. ASSUME NEW c \in Clients, AuthAgent(c) PROVE Work'
  BY <1>4 DEF AuthAgent
<1>5. ASSUME NEW c \in Clients, KillOne(c) PROVE Work'
  BY <1>5 DEF KillOne, Drop
<1>6. ASSUME NEW c \in Clients, KillRefused(c) PROVE Work'
  BY <1>6 DEF KillRefused
<1>7. ASSUME NEW i \in Ips, Kline(i) PROVE Work'
  BY <1>7 DEF Kline
<1>8. CASE EditConfig
  BY <1>8 DEF EditConfig
<1>9. CASE LoadConfig
  BY <1>9 DEF LoadConfig, Boot
<1>10. CASE CreateTables
  <2>1. agents' \in [Confs -> {"absent", "empty", "admin"}]
    BY <1>10 DEF CreateTables
  <2>2. /\ stage = "config" /\ stage' = "tables" /\ failed' \subseteq {"agents", "bans"}
        /\ UNCHANGED <<conffile, conf, password, banfile, bans, conn, agent, dispatcherVars,
                      late, spared, kept>>
    BY <1>10 DEF CreateTables, Boot
  <2>3. QED
    BY <2>1, <2>2
<1>11. CASE AddAdmin
  <2>1. agents' \in [Confs -> {"absent", "empty", "admin"}]
    BY <1>11 DEF AddAdmin
  <2>2. /\ stage = "tables" /\ stage' \in {"password", "agents"}
        /\ failed' \subseteq {"agents", "bans"}
        /\ UNCHANGED <<conffile, conf, password, banfile, bans, conn, agent, dispatcherVars,
                      late, spared, kept>>
    BY <1>11 DEF AddAdmin, Boot
  <2>3. QED
    BY <2>1, <2>2
<1>12. CASE LoadBans
  BY <1>12 DEF LoadBans, Boot
<1>13. CASE Crash
  BY <1>13 DEF Crash
<1>14. CASE Hunt
  BY <1>14 DEF Hunt
<1>15. CASE ExpiryPanics
  BY <1>15 DEF ExpiryPanics
<1>16. CASE HuntPanics
  BY <1>16 DEF HuntPanics
<1>17. CASE KillsEnd
  BY <1>17 DEF KillsEnd
<1>18. CASE Truncate
  BY <1>18 DEF Truncate
<1>19. CASE WriteBans
  BY <1>19 DEF WriteBans
<1>20. CASE SaveFails
  BY <1>20 DEF SaveFails
<1>21. CASE UNCHANGED vars
  BY <1>21 DEF vars
<1>22. CASE PrintPassword
  BY <1>22 DEF PrintPassword, Boot
<1>23. QED
  BY <1>1, <1>2, <1>3, <1>4, <1>5, <1>6, <1>7, <1>8, <1>9, <1>10,
      <1>11, <1>12, <1>13, <1>14, <1>15, <1>16, <1>17, <1>18, <1>19,
      <1>20, <1>21, <1>22
  DEF Next, Start, Dispatch

\* Who has a banned address.
LEMMA BanStep ==
  ASSUME SInv, [Next]_vars
  PROVE  Ban'
<1> USE IpAssumption
    DEF SInv, Work, TypeOK, Quiescent, HuntInKill, In, Confs, agentVars, diskVars,
        dispatcherVars, historyVars,
        Ban, BannedLate, BannedOut
<1>1. ASSUME NEW c \in Clients, Accept(c) PROVE Ban'
  BY <1>1 DEF Accept, BanExists
<1>2. ASSUME NEW c \in Clients, AddClient(c) PROVE Ban'
  BY <1>2 DEF AddClient
<1>3. ASSUME NEW c \in Clients, Leave(c) PROVE Ban'
  BY <1>3 DEF Leave, Drop
<1>4. ASSUME NEW c \in Clients, AuthAgent(c) PROVE Ban'
  BY <1>4 DEF AuthAgent
<1>5. ASSUME NEW c \in Clients, KillOne(c) PROVE Ban'
  BY <1>5 DEF KillOne, Drop
<1>6. ASSUME NEW c \in Clients, KillRefused(c) PROVE Ban'
  BY <1>6 DEF KillRefused
<1>7. ASSUME NEW i \in Ips, Kline(i) PROVE Ban'
  BY <1>7 DEF Kline
<1>8. CASE EditConfig
  BY <1>8 DEF EditConfig
<1>9. CASE LoadConfig
  BY <1>9 DEF LoadConfig, Boot
<1>10. CASE CreateTables
  BY <1>10 DEF CreateTables, Boot
<1>11. CASE AddAdmin
  BY <1>11 DEF AddAdmin, Boot
<1>12. CASE LoadBans
  BY <1>12 DEF LoadBans, Boot
<1>13. CASE Crash
  BY <1>13 DEF Crash
<1>14. CASE Hunt
  BY <1>14 DEF Hunt
<1>15. CASE ExpiryPanics
  BY <1>15 DEF ExpiryPanics
<1>16. CASE HuntPanics
  BY <1>16 DEF HuntPanics
<1>17. CASE KillsEnd
  BY <1>17 DEF KillsEnd
<1>18. CASE Truncate
  BY <1>18 DEF Truncate
<1>19. CASE WriteBans
  BY <1>19 DEF WriteBans
<1>20. CASE SaveFails
  BY <1>20 DEF SaveFails
<1>21. CASE UNCHANGED vars
  BY <1>21 DEF vars
<1>22. CASE PrintPassword
  BY <1>22 DEF PrintPassword, Boot
<1>23. QED
  BY <1>1, <1>2, <1>3, <1>4, <1>5, <1>6, <1>7, <1>8, <1>9, <1>10,
      <1>11, <1>12, <1>13, <1>14, <1>15, <1>16, <1>17, <1>18, <1>19,
      <1>20, <1>21, <1>22
  DEF Next, Start, Dispatch

\* The files against the memory.
LEMMA DiskStep ==
  ASSUME SInv, [Next]_vars
  PROVE  Disk'
<1> USE IpAssumption
    DEF SInv, Work, TypeOK, Quiescent, HuntInKill, In, Confs, agentVars, diskVars,
        dispatcherVars, historyVars,
        Disk, SavedOrHunting, KeptOnDisk, BansSurvive, AdminInTime, Told
<1>1. ASSUME NEW c \in Clients, Accept(c) PROVE Disk'
  BY <1>1 DEF Accept, BanExists
<1>2. ASSUME NEW c \in Clients, AddClient(c) PROVE Disk'
  BY <1>2 DEF AddClient
<1>3. ASSUME NEW c \in Clients, Leave(c) PROVE Disk'
  BY <1>3 DEF Leave, Drop
<1>4. ASSUME NEW c \in Clients, AuthAgent(c) PROVE Disk'
  BY <1>4 DEF AuthAgent
<1>5. ASSUME NEW c \in Clients, KillOne(c) PROVE Disk'
  BY <1>5 DEF KillOne, Drop
<1>6. ASSUME NEW c \in Clients, KillRefused(c) PROVE Disk'
  BY <1>6 DEF KillRefused
<1>7. ASSUME NEW i \in Ips, Kline(i) PROVE Disk'
  BY <1>7 DEF Kline
<1>8. CASE EditConfig
  BY <1>8 DEF EditConfig
<1>9. CASE LoadConfig
  BY <1>9 DEF LoadConfig, Boot
<1>10. CASE CreateTables
  BY <1>10 DEF CreateTables, Boot
<1>11. CASE AddAdmin
  BY <1>11 DEF AddAdmin, Boot
<1>12. CASE LoadBans
  BY <1>12 DEF LoadBans, Boot
<1>13. CASE Crash
  BY <1>13 DEF Crash
<1>14. CASE Hunt
  BY <1>14 DEF Hunt
<1>15. CASE ExpiryPanics
  BY <1>15 DEF ExpiryPanics
<1>16. CASE HuntPanics
  BY <1>16 DEF HuntPanics
<1>17. CASE KillsEnd
  BY <1>17 DEF KillsEnd
<1>18. CASE Truncate
  BY <1>18 DEF Truncate
<1>19. CASE WriteBans
  BY <1>19 DEF WriteBans
<1>20. CASE SaveFails
  BY <1>20 DEF SaveFails
<1>21. CASE UNCHANGED vars
  BY <1>21 DEF vars
<1>22. CASE PrintPassword
  BY <1>22 DEF PrintPassword, Boot
<1>23. QED
  BY <1>1, <1>2, <1>3, <1>4, <1>5, <1>6, <1>7, <1>8, <1>9, <1>10,
      <1>11, <1>12, <1>13, <1>14, <1>15, <1>16, <1>17, <1>18, <1>19,
      <1>20, <1>21, <1>22
  DEF Next, Start, Dispatch

LEMMA SInvAlways == Spec => []SInv
<1>1. SInv /\ [Next]_vars => SInv'
  BY WorkStep, BanStep, DiskStep DEF SInv
<1>2. QED
  BY SInit, <1>1, PTL DEF Spec

-----------------------------------------------------------------------------
\* TypeOK: rights and victims are those of present connections.
THEOREM TypeCorrect == Spec => []TypeOK
  BY SInvAlways, PTL DEF SInv, Work

\* BannedOut: the accept loop's look-up and kline's search leave no gap but
\* the handshake and the reason that is too long.
THEOREM BannedOutAlways == Spec => []BannedOut
  BY SInvAlways, PTL DEF SInv, Ban

\* Saved: between klines the bans file holds the bans at work; within one, and
\* after a panic, at most the ban being made is missing from it.
THEOREM SavedAlways == Spec => []Saved
<1>1. SInv => Saved
  BY DEF SInv, Disk, SavedOrHunting, Saved
<1>2. QED
  BY <1>1, SInvAlways, PTL

\* BansSurvive: what was saved is in force after every restart.
THEOREM BansSurviveAlways == Spec => []BansSurvive
  BY SInvAlways, PTL DEF SInv, Disk

\* AdminThere: a server that is up has an admin in its database, whose password
\* was printed unless a start went down between the two.
THEOREM AdminThereAlways == Spec => []AdminThere
<1>1. SInv => AdminThere
  BY DEF SInv, Work, TypeOK, Disk, AdminInTime, Told, AdminThere
<1>2. QED
  BY <1>1, SInvAlways, PTL
=============================================================================
