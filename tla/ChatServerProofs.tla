-------------------------- MODULE ChatServerProofs --------------------------
EXTENDS ChatServer, TLAPS
-----------------------------------------------------------------------------
(* What makes Covered and NoGhosts hold: the inductive invariant.           *)

Taking(t)   == purging[t] # "off"
LoopPcs     == {"next", "remove", "mode", "count", "destroy"}
RoomPcs     == {"remove", "mode", "count", "destroy"}
HandlingPcs == {"handle", "guest", "agent", "server", "lobby"}

\* A task takes out a client, its connection task only its own and only once
\* it stopped reading, and the dispatcher only while it carries out a request.
PurgeShape ==
    /\ \A t \in Tasks : Taking(t) <=> who[t] \in Clients
    /\ \A t \in Tasks : purging[t] \in RoomPcs => room[t] \in Rooms
    /\ \A c \in Clients : Taking(c) => who[c] = c /\ conn[c] = "done"
    /\ Taking(Dispatcher) <=> dpc \in {"purge", "kill"}
    /\ dpc \in HandlingPcs => dclient \in Clients

\* A client that has not connected is known to nobody.
Fresh ==
    \A c \in Clients : conn[c] = "new" =>
        /\ c \notin clients
        /\ ~Pending(c)
        /\ c \notin expired
        /\ \A r \in Rooms : c \notin members[r]
        /\ \A t \in Tasks : who[t] # c

\* A membership is in the member's channel list, until the list is cleared.
ListsCover ==
    \A c \in Clients, r \in Rooms : c \in members[r] =>
        \/ r \in chanlist[c]
        \/ c \notin clients
        \/ \E t \in Tasks : who[t] = c /\ purging[t] = "deregister"

\* A client that has not authenticated is in no channel and has no type.
Unauthenticated ==
    /\ \A c \in Clients : status[c] = "PendingAuth" =>
           ctype[c] = "None" /\ \A r \in Rooms : c \notin members[r]
    /\ dpc \in {"guest", "agent"} => ctype[dclient] = "None"
    /\ dpc \in {"server", "lobby"} => status[dclient] # "PendingAuth"

\* A task that takes a client out still has its listed channels ahead of it.
RoomsAhead ==
    \A t \in Tasks, r \in Listed :
        (Taking(t) /\ who[t] \in members[r]) =>
            \/ purging[t] = "snapshot"
            \/ purging[t] \in LoopPcs /\ r \in todo[t]
            \/ purging[t] = "remove" /\ r = room[t]

\* Whom the connection and health tasks take out has no request pending, so
\* whoever the dispatcher serves is registered and, to authenticate, pending.
LeaversQuiet ==
    /\ \A t \in Clients \cup {Health} : Taking(t) => ~Pending(who[t])
    /\ \A c \in expired : ~Pending(c)
    /\ dpc \in HandlingPcs => dclient \in clients
    /\ dpc \in {"guest", "agent"} => status[dclient] = "PendingAuth"

Inv ==
    /\ TypeOK
    /\ PurgeShape
    /\ Fresh
    /\ ListsCover
    /\ Unauthenticated
    /\ NoGhosts
    /\ Quiet => RoomsAhead /\ LeaversQuiet

\* The same for EmptyRoomsDoomed, where nobody kicks or changes modes: a
\* channel that is being emptied exists, the mode that was read of it is the
\* one it has, and if it is empty then somebody is about to remove it.
RoomsExist ==
    \A t \in Tasks : purging[t] \in RoomPcs => life[room[t]] # "unborn"

ModeRead ==
    \A t \in Tasks : purging[t] \in {"count", "destroy"} => "Persist" \notin options[room[t]]

DoomedInv == RoomsExist /\ ModeRead /\ EmptyRoomsDoomed

-----------------------------------------------------------------------------

\* Every action keeps the type of every variable.
LEMMA TypeStep ==
    ASSUME TypeOK, PurgeShape, Next
    PROVE  TypeOK'
<1>1. ASSUME NEW c \in Clients, AddClient(c) PROVE TypeOK'
  BY <1>1 DEF AddClient, clientVars, roomVars, taskVars, purgeVars, TypeOK
<1>2. ASSUME NEW c \in Clients, Refind(c) PROVE TypeOK'
  BY <1>2 DEF Refind, clientVars, roomVars, taskVars, purgeVars, TypeOK
<1>3. ASSUME NEW c \in Clients, Send(c) PROVE TypeOK'
  BY <1>3 DEF Send, clientVars, roomVars, purgeVars, TypeOK
<1>4. ASSUME NEW c \in Clients, ReadFails(c) PROVE TypeOK'
  BY <1>4 DEF ReadFails, roomVars, taskVars, StartPurge, TypeOK, PurgePcs, Statuses
<1>5. ASSUME NEW c \in Clients, StreamEnds(c) PROVE TypeOK'
  BY <1>5 DEF StreamEnds, clientVars, roomVars, taskVars, purgeVars, TypeOK
<1>6. ASSUME NEW t \in Tasks, Snapshot(t) PROVE TypeOK'
  BY <1>6 DEF Snapshot, clientVars, roomVars, taskVars, Advance, TypeOK, PurgePcs,
         PurgeShape, Taking
<1>7. ASSUME NEW t \in Tasks, NextRoom(t) PROVE TypeOK'
  BY <1>7 DEF NextRoom, clientVars, roomVars, taskVars, Advance, TypeOK, PurgePcs
<1>8. ASSUME NEW t \in Tasks, RemoveMember(t) PROVE TypeOK'
  BY <1>8 DEF RemoveMember, clientVars, taskVars, Advance, TypeOK, PurgePcs
<1>9. ASSUME NEW t \in Tasks, ReadPersist(t) PROVE TypeOK'
  BY <1>9 DEF ReadPersist, clientVars, roomVars, taskVars, Advance, TypeOK, PurgePcs
<1>10. ASSUME NEW t \in Tasks, CountMembers(t) PROVE TypeOK'
  BY <1>10 DEF CountMembers, clientVars, roomVars, taskVars, Advance, TypeOK, PurgePcs
<1>11. ASSUME NEW t \in Tasks, RemoveChannel(t) PROVE TypeOK'
  BY <1>11 DEF RemoveChannel, clientVars, taskVars, Advance, TypeOK, PurgePcs
<1>12. ASSUME NEW t \in Tasks, LoopEnds(t) PROVE TypeOK'
  BY <1>12 DEF LoopEnds, clientVars, roomVars, taskVars, Advance, TypeOK, PurgePcs
<1>13. ASSUME NEW t \in Tasks, ClearChannels(t) PROVE TypeOK'
  BY <1>13 DEF ClearChannels, roomVars, taskVars, Advance, TypeOK, PurgePcs
<1>14. ASSUME NEW t \in Tasks, RemoveClient(t) PROVE TypeOK'
  BY <1>14 DEF RemoveClient, clientVars, roomVars, Advance, TypeOK, PurgePcs
<1>15. ASSUME Receive PROVE TypeOK'
  BY <1>15 DEF Receive, clientVars, roomVars, purgeVars, TypeOK
<1>16. ASSUME NoEffect PROVE TypeOK'
  BY <1>16 DEF NoEffect, clientVars, roomVars, purgeVars, Finish, TypeOK
<1>17. ASSUME NEW kind \in {"guest", "agent"}, AuthStart(kind) PROVE TypeOK'
  BY <1>17 DEF AuthStart, clientVars, roomVars, purgeVars, TypeOK
<1>18. ASSUME NEW kind \in {"guest", "agent"}, NEW opts \in SUBSET ClientOptions,
              Accept(kind, opts)
       PROVE  TypeOK'
  <2>1. lobbies' \in Seq(LobbyNames)
    <3>1. <<"Global Lobby", "Staff Lobby">> \in Seq(LobbyNames)
      BY DEF LobbyNames
    <3>2. <<"Global Lobby", "Guest Lobby">> \in Seq(LobbyNames)
      BY DEF LobbyNames
    <3>3. QED BY <1>18, <3>1, <3>2 DEF Accept
  <2>2. /\ status' \in [Clients -> Statuses]
        /\ ctype' \in [Clients -> {"None", "Agent", "Guest"}]
        /\ coptions' \in [Clients -> SUBSET ClientOptions]
    BY <1>18 DEF Accept, TypeOK, Statuses
  <2>3. QED BY <1>18, <2>1, <2>2 DEF Accept, TypeOK, roomVars, purgeVars
<1>19. ASSUME AuthInvalid PROVE TypeOK'
  BY <1>19 DEF AuthInvalid, roomVars, purgeVars, Finish, TypeOK, Statuses
<1>20. ASSUME AutoJoin PROVE TypeOK'
  <2>1. dclient \in Clients
    BY <1>20 DEF AutoJoin, PurgeShape, HandlingPcs
  <2>2. lobbies' \in Seq(LobbyNames)
    BY <1>20 DEF AutoJoin, TypeOK
  <2>3. /\ members' \in [Rooms -> SUBSET Clients]
        /\ chanlist' \in [Clients -> SUBSET Rooms]
    <3>1. CASE \E r \in Rooms :
                  /\ members' = [members EXCEPT ![r] = @ \cup {dclient}]
                  /\ chanlist' = [chanlist EXCEPT ![dclient] = @ \cup {r}]
      BY <2>1, <3>1 DEF TypeOK
    <3>2. CASE UNCHANGED <<members, chanlist>>
      BY <3>2 DEF TypeOK
    <3>3. QED BY <1>20, <3>1, <3>2 DEF AutoJoin, Listed
  <2>4. QED BY <1>20, <2>2, <2>3 DEF AutoJoin, TypeOK, purgeVars
<1>21. ASSUME AutoJoinPanics PROVE TypeOK'
  BY <1>21 DEF AutoJoinPanics, clientVars, roomVars, purgeVars, TypeOK
<1>22. ASSUME AuthDone PROVE TypeOK'
  BY <1>22 DEF AuthDone, clientVars, roomVars, purgeVars, Finish, TypeOK
<1>23. ASSUME BadRequest PROVE TypeOK'
  BY <1>23 DEF BadRequest, roomVars, StartPurge, TypeOK, PurgePcs, Statuses
<1>24. ASSUME NEW r \in Rooms, JoinExisting(r) PROVE TypeOK'
  BY <1>24 DEF JoinExisting, purgeVars, Finish, UnderServer, TypeOK, HandlingPcs, PurgeShape
<1>25. ASSUME NEW r \in Rooms, JoinCreate(r) PROVE TypeOK'
  BY <1>25
     DEF JoinCreate, purgeVars, Finish, UnderServer, TypeOK, HandlingPcs, PurgeShape,
         ChannelOptions
<1>26. ASSUME NEW r \in Rooms, Part(r) PROVE TypeOK'
  BY <1>26 DEF Part, clientVars, purgeVars, Finish, UnderServer, TypeOK
<1>27. ASSUME NEW r \in Rooms, NEW c \in Clients, Kick(r, c) PROVE TypeOK'
  BY <1>27 DEF Kick, purgeVars, Finish, Request, TypeOK
<1>28. ASSUME NEW c \in Clients, Kill(c) PROVE TypeOK'
  BY <1>28 DEF Kill, clientVars, roomVars, StartPurge, Request, TypeOK, PurgePcs
<1>29. ASSUME SendtoWallops PROVE TypeOK'
  BY <1>29 DEF SendtoWallops, roomVars, purgeVars, Finish, TypeOK, Statuses
<1>30. ASSUME NEW r \in Rooms, NEW modes \in SUBSET ChannelOptions,
              SetChannelModes(r, modes)
       PROVE  TypeOK'
  BY <1>30 DEF SetChannelModes, clientVars, purgeVars, Finish, Request, TypeOK
<1>31. ASSUME NEW gone \in SUBSET Clients, HealthScan(gone) PROVE TypeOK'
  BY <1>31 DEF HealthScan, roomVars, purgeVars, TypeOK, Statuses
<1>32. ASSUME NEW c \in Clients, HealthNext(c) PROVE TypeOK'
  BY <1>32 DEF HealthNext, clientVars, roomVars, purgeVars, StartPurge, TypeOK, PurgePcs
<1>33. ASSUME LockServer PROVE TypeOK'
  BY <1>33 DEF LockServer, clientVars, roomVars, purgeVars, Request, TypeOK
<1> QED
  BY <1>1, <1>2, <1>3, <1>4, <1>5, <1>6, <1>7, <1>8, <1>9, <1>10, <1>11, <1>12, <1>13,
     <1>14, <1>15, <1>16, <1>17, <1>18, <1>19, <1>20, <1>21, <1>22, <1>23, <1>24, <1>25,
     <1>26, <1>27, <1>28, <1>29, <1>30, <1>31, <1>32, <1>33, ConstantsAssumption
     DEF Next, ConnectionStep, PurgeStep, DispatcherStep, HealthStep, AuthAccepted,
         Tasks

-----------------------------------------------------------------------------

\* Every action keeps the shape of the tasks: who takes out whom, and when.
LEMMA ShapeStep ==
    ASSUME TypeOK, PurgeShape, Next
    PROVE  PurgeShape'
<1>1. ASSUME NEW c \in Clients, AddClient(c) PROVE PurgeShape'
  BY <1>1
     DEF AddClient, roomVars, taskVars, purgeVars, TypeOK, PurgeShape, Taking, Tasks,
         RoomPcs, HandlingPcs
<1>2. ASSUME NEW c \in Clients, Refind(c) PROVE PurgeShape'
  BY <1>2
     DEF Refind, roomVars, taskVars, purgeVars, TypeOK, PurgeShape, Taking, Tasks,
         RoomPcs, HandlingPcs
<1>3. ASSUME NEW c \in Clients, Send(c) PROVE PurgeShape'
  BY <1>3 DEF Send, roomVars, purgeVars, TypeOK, PurgeShape, Taking, Tasks, RoomPcs,
         HandlingPcs
<1>4. ASSUME NEW c \in Clients, ReadFails(c) PROVE PurgeShape'
  BY <1>4, TasksAssumption
     DEF ReadFails, taskVars, StartPurge, TypeOK, PurgeShape, Taking, Tasks, RoomPcs,
         HandlingPcs
<1>5. ASSUME NEW c \in Clients, StreamEnds(c) PROVE PurgeShape'
  BY <1>5
     DEF StreamEnds, roomVars, taskVars, purgeVars, TypeOK, PurgeShape, Taking, Tasks,
         RoomPcs, HandlingPcs
<1>6. ASSUME NEW t \in Tasks, Snapshot(t) PROVE PurgeShape'
  BY <1>6
     DEF Snapshot, roomVars, taskVars, Advance, TypeOK, PurgeShape, Taking, Tasks,
         RoomPcs, HandlingPcs
<1>7. ASSUME NEW t \in Tasks, NextRoom(t) PROVE PurgeShape'
  BY <1>7
     DEF NextRoom, roomVars, taskVars, Advance, TypeOK, PurgeShape, Taking, Tasks,
         RoomPcs, HandlingPcs
<1>8. ASSUME NEW t \in Tasks, RemoveMember(t) PROVE PurgeShape'
  BY <1>8
     DEF RemoveMember, taskVars, Advance, TypeOK, PurgeShape, Taking, Tasks, RoomPcs,
         HandlingPcs
<1>9. ASSUME NEW t \in Tasks, ReadPersist(t) PROVE PurgeShape'
  BY <1>9
     DEF ReadPersist, roomVars, taskVars, Advance, TypeOK, PurgeShape, Taking, Tasks,
         RoomPcs, HandlingPcs
<1>10. ASSUME NEW t \in Tasks, CountMembers(t) PROVE PurgeShape'
  BY <1>10
     DEF CountMembers, roomVars, taskVars, Advance, TypeOK, PurgeShape, Taking, Tasks,
         RoomPcs, HandlingPcs
<1>11. ASSUME NEW t \in Tasks, RemoveChannel(t) PROVE PurgeShape'
  BY <1>11
     DEF RemoveChannel, taskVars, Advance, TypeOK, PurgeShape, Taking, Tasks, RoomPcs,
         HandlingPcs
<1>12. ASSUME NEW t \in Tasks, LoopEnds(t) PROVE PurgeShape'
  BY <1>12
     DEF LoopEnds, roomVars, taskVars, Advance, TypeOK, PurgeShape, Taking, Tasks,
         RoomPcs, HandlingPcs
<1>13. ASSUME NEW t \in Tasks, ClearChannels(t) PROVE PurgeShape'
  BY <1>13
     DEF ClearChannels, taskVars, Advance, TypeOK, PurgeShape, Taking, Tasks, RoomPcs,
         HandlingPcs
<1>14. ASSUME NEW t \in Tasks, RemoveClient(t) PROVE PurgeShape'
  BY <1>14, TasksAssumption
     DEF RemoveClient, roomVars, Advance, TypeOK, PurgeShape, Taking, Tasks, RoomPcs,
         HandlingPcs
<1>15. ASSUME Receive PROVE PurgeShape'
  BY <1>15
     DEF Receive, roomVars, purgeVars, TypeOK, PurgeShape, Taking, Tasks, RoomPcs,
         HandlingPcs
<1>16. ASSUME NoEffect PROVE PurgeShape'
  BY <1>16
     DEF NoEffect, roomVars, purgeVars, Finish, TypeOK, PurgeShape, Taking, Tasks,
         RoomPcs, HandlingPcs
<1>17. ASSUME NEW kind \in {"guest", "agent"}, AuthStart(kind) PROVE PurgeShape'
  BY <1>17
     DEF AuthStart, roomVars, purgeVars, TypeOK, PurgeShape, Taking, Tasks, RoomPcs,
         HandlingPcs
<1>18. ASSUME NEW kind \in {"guest", "agent"}, NEW opts \in SUBSET ClientOptions,
              Accept(kind, opts)
       PROVE  PurgeShape'
  BY <1>18
     DEF Accept, purgeVars, TypeOK, PurgeShape, Taking, Tasks, RoomPcs, HandlingPcs
<1>19. ASSUME AuthInvalid PROVE PurgeShape'
  BY <1>19
     DEF AuthInvalid, purgeVars, Finish, TypeOK, PurgeShape, Taking, Tasks, RoomPcs,
         HandlingPcs
<1>20. ASSUME AutoJoin PROVE PurgeShape'
  BY <1>20
     DEF AutoJoin, purgeVars, TypeOK, PurgeShape, Taking, Tasks, RoomPcs, HandlingPcs
<1>21. ASSUME AutoJoinPanics PROVE PurgeShape'
  BY <1>21 DEF AutoJoinPanics, roomVars, purgeVars, TypeOK, PurgeShape, Taking, Tasks,
         RoomPcs, HandlingPcs
<1>22. ASSUME AuthDone PROVE PurgeShape'
  BY <1>22
     DEF AuthDone, roomVars, purgeVars, Finish, TypeOK, PurgeShape, Taking, Tasks,
         RoomPcs, HandlingPcs
<1>23. ASSUME BadRequest PROVE PurgeShape'
  BY <1>23, TasksAssumption
     DEF BadRequest, StartPurge, TypeOK, PurgeShape, Taking, Tasks, RoomPcs,
         HandlingPcs
<1>24. ASSUME NEW r \in Rooms, JoinExisting(r) PROVE PurgeShape'
  BY <1>24
     DEF JoinExisting, purgeVars, Finish, UnderServer, TypeOK, PurgeShape, Taking, Tasks,
         RoomPcs, HandlingPcs
<1>25. ASSUME NEW r \in Rooms, JoinCreate(r) PROVE PurgeShape'
  BY <1>25
     DEF JoinCreate, purgeVars, Finish, UnderServer, TypeOK, PurgeShape, Taking, Tasks,
         RoomPcs, HandlingPcs
<1>26. ASSUME NEW r \in Rooms, Part(r) PROVE PurgeShape'
  BY <1>26
     DEF Part, purgeVars, Finish, UnderServer, TypeOK, PurgeShape, Taking, Tasks, RoomPcs,
         HandlingPcs
<1>27. ASSUME NEW r \in Rooms, NEW c \in Clients, Kick(r, c) PROVE PurgeShape'
  BY <1>27
     DEF Kick, purgeVars, Finish, Request, TypeOK, PurgeShape, Taking, Tasks, RoomPcs,
         HandlingPcs
<1>28. ASSUME NEW c \in Clients, Kill(c) PROVE PurgeShape'
  BY <1>28, TasksAssumption
     DEF Kill, roomVars, StartPurge, Request, TypeOK, PurgeShape, Taking, Tasks,
         RoomPcs, HandlingPcs
<1>29. ASSUME SendtoWallops PROVE PurgeShape'
  BY <1>29
     DEF SendtoWallops, purgeVars, Finish, TypeOK, PurgeShape, Taking, Tasks, RoomPcs,
         HandlingPcs
<1>30. ASSUME NEW r \in Rooms, NEW modes \in SUBSET ChannelOptions,
              SetChannelModes(r, modes)
       PROVE  PurgeShape'
  BY <1>30
     DEF SetChannelModes, purgeVars, Finish, Request, TypeOK, PurgeShape, Taking,
         Tasks, RoomPcs, HandlingPcs
<1>31. ASSUME NEW gone \in SUBSET Clients, HealthScan(gone) PROVE PurgeShape'
  BY <1>31 DEF HealthScan, purgeVars, TypeOK, PurgeShape, Taking, Tasks, RoomPcs,
         HandlingPcs
<1>32. ASSUME NEW c \in Clients, HealthNext(c) PROVE PurgeShape'
  BY <1>32, TasksAssumption
     DEF HealthNext, roomVars, purgeVars, StartPurge, TypeOK, PurgeShape, Taking,
         Tasks, RoomPcs, HandlingPcs
<1>33. ASSUME LockServer PROVE PurgeShape'
  BY <1>33
     DEF LockServer, roomVars, purgeVars, Request, TypeOK, PurgeShape, Taking, Tasks,
         RoomPcs, HandlingPcs
<1> QED
  BY <1>1, <1>2, <1>3, <1>4, <1>5, <1>6, <1>7, <1>8, <1>9, <1>10, <1>11, <1>12, <1>13,
     <1>14, <1>15, <1>16, <1>17, <1>18, <1>19, <1>20, <1>21, <1>22, <1>23, <1>24, <1>25,
     <1>26, <1>27, <1>28, <1>29, <1>30, <1>31, <1>32, <1>33, ConstantsAssumption
     DEF Next, ConnectionStep, PurgeStep, DispatcherStep, HealthStep, AuthAccepted,
         Tasks

-----------------------------------------------------------------------------

\* The walk through the lobbies adds nobody but the client it is for.
LEMMA AutoJoinMembers ==
    ASSUME members \in [Rooms -> SUBSET Clients], AutoJoin,
           NEW c \in Clients, NEW r \in Rooms, c \in members'[r]
    PROVE  c \in members[r] \/ c = dclient
<1>1. CASE members' = members
  BY <1>1
<1>2. ASSUME NEW q \in Rooms, members' = [members EXCEPT ![q] = @ \cup {dclient}]
      PROVE  c \in members[r] \/ c = dclient
  BY <1>2
<1>3. QED BY <1>1, <1>2 DEF AutoJoin, Listed

\* Nobody deals with a client before its AddClient.
LEMMA FreshStep ==
    ASSUME TypeOK, PurgeShape, Fresh, Next
    PROVE  Fresh'
<1>1. ASSUME NEW c \in Clients, AddClient(c) PROVE Fresh'
  BY <1>1
     DEF AddClient, roomVars, taskVars, purgeVars, TypeOK, Fresh, Pending, Queued,
         PurgeShape, HandlingPcs, Listed
<1>2. ASSUME NEW c \in Clients, Refind(c) PROVE Fresh'
  BY <1>2 DEF Refind, roomVars, taskVars, purgeVars, TypeOK, Fresh, Pending, Queued,
         PurgeShape, HandlingPcs, Listed
<1>3. ASSUME NEW c \in Clients, Send(c) PROVE Fresh'
  BY <1>3 DEF Send, roomVars, purgeVars, TypeOK, Fresh, Pending, Queued, PurgeShape,
         HandlingPcs, Listed
<1>4. ASSUME NEW c \in Clients, ReadFails(c) PROVE Fresh'
  BY <1>4
     DEF ReadFails, roomVars, taskVars, StartPurge, TypeOK, Fresh, Pending, Queued,
         PurgeShape, HandlingPcs, Listed
<1>5. ASSUME NEW c \in Clients, StreamEnds(c) PROVE Fresh'
  BY <1>5
     DEF StreamEnds, roomVars, taskVars, purgeVars, TypeOK, Fresh, Pending, Queued,
         PurgeShape, HandlingPcs, Listed
<1>6. ASSUME NEW t \in Tasks, Snapshot(t) PROVE Fresh'
  BY <1>6 DEF Snapshot, roomVars, taskVars, Advance, TypeOK, Fresh, Pending, Queued,
         PurgeShape, HandlingPcs, Listed
<1>7. ASSUME NEW t \in Tasks, NextRoom(t) PROVE Fresh'
  BY <1>7 DEF NextRoom, roomVars, taskVars, Advance, TypeOK, Fresh, Pending, Queued,
         PurgeShape, HandlingPcs, Listed
<1>8. ASSUME NEW t \in Tasks, RemoveMember(t) PROVE Fresh'
  BY <1>8
     DEF RemoveMember, taskVars, Advance, TypeOK, Fresh, Pending, Queued, PurgeShape,
         HandlingPcs, Listed
<1>9. ASSUME NEW t \in Tasks, ReadPersist(t) PROVE Fresh'
  BY <1>9
     DEF ReadPersist, roomVars, taskVars, Advance, TypeOK, Fresh, Pending, Queued,
         PurgeShape, HandlingPcs, Listed
<1>10. ASSUME NEW t \in Tasks, CountMembers(t) PROVE Fresh'
  BY <1>10
     DEF CountMembers, roomVars, taskVars, Advance, TypeOK, Fresh, Pending, Queued,
         PurgeShape, HandlingPcs, Listed
<1>11. ASSUME NEW t \in Tasks, RemoveChannel(t) PROVE Fresh'
  BY <1>11
     DEF RemoveChannel, taskVars, Advance, TypeOK, Fresh, Pending, Queued, PurgeShape,
         HandlingPcs, Listed
<1>12. ASSUME NEW t \in Tasks, LoopEnds(t) PROVE Fresh'
  BY <1>12 DEF LoopEnds, roomVars, taskVars, Advance, TypeOK, Fresh, Pending, Queued,
         PurgeShape, HandlingPcs, Listed
<1>13. ASSUME NEW t \in Tasks, ClearChannels(t) PROVE Fresh'
  BY <1>13
     DEF ClearChannels, roomVars, taskVars, Advance, TypeOK, Fresh, Pending, Queued,
         PurgeShape, HandlingPcs, Listed
<1>14. ASSUME NEW t \in Tasks, RemoveClient(t) PROVE Fresh'
  BY <1>14, TasksAssumption
     DEF RemoveClient, roomVars, Advance, TypeOK, Fresh, Pending, Queued, PurgeShape,
         HandlingPcs, Listed
<1>15. ASSUME Receive PROVE Fresh'
  BY <1>15
     DEF Receive, roomVars, purgeVars, TypeOK, Fresh, Pending, Queued, PurgeShape,
         HandlingPcs, Listed
<1>16. ASSUME NoEffect PROVE Fresh'
  BY <1>16, TasksAssumption
     DEF NoEffect, roomVars, purgeVars, Finish, TypeOK, Fresh, Pending, Queued,
         PurgeShape, HandlingPcs, Listed
<1>17. ASSUME NEW kind \in {"guest", "agent"}, AuthStart(kind) PROVE Fresh'
  BY <1>17
     DEF AuthStart, roomVars, purgeVars, TypeOK, Fresh, Pending, Queued, PurgeShape,
         HandlingPcs, Listed
<1>18. ASSUME NEW kind \in {"guest", "agent"}, NEW opts \in SUBSET ClientOptions,
              Accept(kind, opts)
       PROVE  Fresh'
  BY <1>18
     DEF Accept, roomVars, purgeVars, TypeOK, Fresh, Pending, Queued, PurgeShape,
         HandlingPcs, Listed
<1>19. ASSUME AuthInvalid PROVE Fresh'
  BY <1>19, TasksAssumption
     DEF AuthInvalid, roomVars, purgeVars, Finish, TypeOK, Fresh, Pending, Queued,
         PurgeShape, HandlingPcs, Listed
<1>20. ASSUME AutoJoin PROVE Fresh'
  <2>1. dclient \in Clients /\ conn[dclient] # "new"
    BY <1>20 DEF AutoJoin, PurgeShape, HandlingPcs, Fresh, Pending
  <2>2. \A c \in Clients, r \in Rooms : c \in members'[r] => c \in members[r] \/ c = dclient
    BY <1>20, AutoJoinMembers DEF TypeOK
  <2>3. UNCHANGED <<conn, clients, pipe, dclient, expired, who>>
    BY <1>20 DEF AutoJoin, purgeVars
  <2>4. QED BY <2>1, <2>2, <2>3 DEF Fresh, Pending, Queued
<1>21. ASSUME AutoJoinPanics PROVE Fresh'
  BY <1>21, TasksAssumption
     DEF AutoJoinPanics, roomVars, purgeVars, TypeOK, Fresh, Pending, Queued,
         PurgeShape, HandlingPcs, Listed
<1>22. ASSUME AuthDone PROVE Fresh'
  BY <1>22, TasksAssumption
     DEF AuthDone, roomVars, purgeVars, Finish, TypeOK, Fresh, Pending, Queued,
         PurgeShape, HandlingPcs, Listed
<1>23. ASSUME BadRequest PROVE Fresh'
  BY <1>23
     DEF BadRequest, roomVars, StartPurge, TypeOK, Fresh, Pending, Queued, PurgeShape,
         HandlingPcs, Listed
<1>24. ASSUME NEW r \in Rooms, JoinExisting(r) PROVE Fresh'
  BY <1>24, TasksAssumption
     DEF JoinExisting, purgeVars, Finish, UnderServer, TypeOK, Fresh, Pending, Queued,
         PurgeShape, HandlingPcs, Listed
<1>25. ASSUME NEW r \in Rooms, JoinCreate(r) PROVE Fresh'
  BY <1>25, TasksAssumption
     DEF JoinCreate, purgeVars, Finish, UnderServer, TypeOK, Fresh, Pending, Queued,
         PurgeShape, HandlingPcs, Listed
<1>26. ASSUME NEW r \in Rooms, Part(r) PROVE Fresh'
  BY <1>26, TasksAssumption
     DEF Part, purgeVars, Finish, UnderServer, TypeOK, Fresh, Pending, Queued, PurgeShape,
         HandlingPcs, Listed
<1>27. ASSUME NEW r \in Rooms, NEW c \in Clients, Kick(r, c) PROVE Fresh'
  BY <1>27, TasksAssumption
     DEF Kick, purgeVars, Finish, Request, TypeOK, Fresh, Pending, Queued, PurgeShape,
         HandlingPcs, Listed
<1>28. ASSUME NEW c \in Clients, Kill(c) PROVE Fresh'
  BY <1>28 DEF Kill, roomVars, StartPurge, Request, TypeOK, Fresh, Pending, Queued,
         PurgeShape, HandlingPcs, Listed
<1>29. ASSUME SendtoWallops PROVE Fresh'
  BY <1>29, TasksAssumption
     DEF SendtoWallops, roomVars, purgeVars, Finish, TypeOK, Fresh, Pending, Queued,
         PurgeShape, HandlingPcs, Listed
<1>30. ASSUME NEW r \in Rooms, NEW modes \in SUBSET ChannelOptions,
              SetChannelModes(r, modes)
       PROVE  Fresh'
  BY <1>30, TasksAssumption
     DEF SetChannelModes, purgeVars, Finish, Request, TypeOK, Fresh, Pending, Queued,
         PurgeShape, HandlingPcs, Listed
<1>31. ASSUME NEW gone \in SUBSET Clients, HealthScan(gone) PROVE Fresh'
  BY <1>31
     DEF HealthScan, roomVars, purgeVars, TypeOK, Fresh, Pending, Queued, PurgeShape,
         HandlingPcs, Listed
<1>32. ASSUME NEW c \in Clients, HealthNext(c) PROVE Fresh'
  BY <1>32
     DEF HealthNext, roomVars, purgeVars, StartPurge, TypeOK, Fresh, Pending, Queued,
         PurgeShape, HandlingPcs, Listed
<1>33. ASSUME LockServer PROVE Fresh'
  BY <1>33, TasksAssumption
     DEF LockServer, roomVars, purgeVars, Request, TypeOK, Fresh, Pending, Queued,
         PurgeShape, HandlingPcs, Listed
<1> QED
  BY <1>1, <1>2, <1>3, <1>4, <1>5, <1>6, <1>7, <1>8, <1>9, <1>10, <1>11, <1>12, <1>13,
     <1>14, <1>15, <1>16, <1>17, <1>18, <1>19, <1>20, <1>21, <1>22, <1>23, <1>24, <1>25,
     <1>26, <1>27, <1>28, <1>29, <1>30, <1>31, <1>32, <1>33, ConstantsAssumption
     DEF Next, ConnectionStep, PurgeStep, DispatcherStep, HealthStep, AuthAccepted,
         Tasks

-----------------------------------------------------------------------------

\* A client gets a type and memberships only after its authentication, and
\* stays pending through the look-ups of the dispatcher, or is closing.
LEMMA UnauthenticatedStep ==
    ASSUME TypeOK, PurgeShape, Unauthenticated, Next
    PROVE  Unauthenticated'
<1>1. ASSUME NEW c \in Clients, AddClient(c) PROVE Unauthenticated'
  BY <1>1 DEF AddClient, clientVars, roomVars, taskVars, purgeVars, TypeOK,
         Unauthenticated, PurgeShape, HandlingPcs, WriteFree, ReadFree
<1>2. ASSUME NEW c \in Clients, Refind(c) PROVE Unauthenticated'
  BY <1>2
     DEF Refind, clientVars, roomVars, taskVars, purgeVars, TypeOK, Unauthenticated,
         PurgeShape, HandlingPcs, WriteFree, ReadFree
<1>3. ASSUME NEW c \in Clients, Send(c) PROVE Unauthenticated'
  BY <1>3
     DEF Send, clientVars, roomVars, purgeVars, TypeOK, Unauthenticated, PurgeShape,
         HandlingPcs, WriteFree, ReadFree
<1>4. ASSUME NEW c \in Clients, ReadFails(c) PROVE Unauthenticated'
  BY <1>4 DEF ReadFails, roomVars, taskVars, StartPurge, TypeOK, Unauthenticated,
         PurgeShape, HandlingPcs, WriteFree, ReadFree
<1>5. ASSUME NEW c \in Clients, StreamEnds(c) PROVE Unauthenticated'
  BY <1>5 DEF StreamEnds, clientVars, roomVars, taskVars, purgeVars, TypeOK,
         Unauthenticated, PurgeShape, HandlingPcs, WriteFree, ReadFree
<1>6. ASSUME NEW t \in Tasks, Snapshot(t) PROVE Unauthenticated'
  BY <1>6
     DEF Snapshot, clientVars, roomVars, taskVars, Advance, TypeOK, Unauthenticated,
         PurgeShape, HandlingPcs, WriteFree, ReadFree
<1>7. ASSUME NEW t \in Tasks, NextRoom(t) PROVE Unauthenticated'
  BY <1>7
     DEF NextRoom, clientVars, roomVars, taskVars, Advance, TypeOK, Unauthenticated,
         PurgeShape, HandlingPcs, WriteFree, ReadFree
<1>8. ASSUME NEW t \in Tasks, RemoveMember(t) PROVE Unauthenticated'
  BY <1>8 DEF RemoveMember, clientVars, taskVars, Advance, TypeOK, Unauthenticated,
         PurgeShape, HandlingPcs, WriteFree, ReadFree
<1>9. ASSUME NEW t \in Tasks, ReadPersist(t) PROVE Unauthenticated'
  BY <1>9 DEF ReadPersist, clientVars, roomVars, taskVars, Advance, TypeOK,
         Unauthenticated, PurgeShape, HandlingPcs, WriteFree, ReadFree
<1>10. ASSUME NEW t \in Tasks, CountMembers(t) PROVE Unauthenticated'
  BY <1>10 DEF CountMembers, clientVars, roomVars, taskVars, Advance, TypeOK,
         Unauthenticated, PurgeShape, HandlingPcs, WriteFree, ReadFree
<1>11. ASSUME NEW t \in Tasks, RemoveChannel(t) PROVE Unauthenticated'
  BY <1>11 DEF RemoveChannel, clientVars, taskVars, Advance, TypeOK, Unauthenticated,
         PurgeShape, HandlingPcs, WriteFree, ReadFree
<1>12. ASSUME NEW t \in Tasks, LoopEnds(t) PROVE Unauthenticated'
  BY <1>12
     DEF LoopEnds, clientVars, roomVars, taskVars, Advance, TypeOK, Unauthenticated,
         PurgeShape, HandlingPcs, WriteFree, ReadFree
<1>13. ASSUME NEW t \in Tasks, ClearChannels(t) PROVE Unauthenticated'
  BY <1>13 DEF ClearChannels, roomVars, taskVars, Advance, TypeOK, Unauthenticated,
         PurgeShape, HandlingPcs, WriteFree, ReadFree
<1>14. ASSUME NEW t \in Tasks, RemoveClient(t) PROVE Unauthenticated'
  BY <1>14 DEF RemoveClient, clientVars, roomVars, Advance, TypeOK, Unauthenticated,
         PurgeShape, HandlingPcs, WriteFree, ReadFree
<1>15. ASSUME Receive PROVE Unauthenticated'
  BY <1>15 DEF Receive, clientVars, roomVars, purgeVars, TypeOK, Unauthenticated,
         PurgeShape, HandlingPcs, WriteFree, ReadFree
<1>16. ASSUME NoEffect PROVE Unauthenticated'
  BY <1>16
     DEF NoEffect, clientVars, roomVars, purgeVars, Finish, TypeOK, Unauthenticated,
         PurgeShape, HandlingPcs, WriteFree, ReadFree
<1>17. ASSUME NEW kind \in {"guest", "agent"}, AuthStart(kind) PROVE Unauthenticated'
  BY <1>17 DEF AuthStart, clientVars, roomVars, purgeVars, TypeOK, Unauthenticated,
         PurgeShape, HandlingPcs, WriteFree, ReadFree
<1>18. ASSUME NEW kind \in {"guest", "agent"}, NEW opts \in SUBSET ClientOptions,
              Accept(kind, opts)
       PROVE  Unauthenticated'
  <2>1. dclient \in Clients
    BY <1>18 DEF Accept, PurgeShape, HandlingPcs
  <2>2. /\ status'[dclient] = "Connected"
        /\ \A c \in Clients : c # dclient => status'[c] = status[c] /\ ctype'[c] = ctype[c]
    BY <1>18, <2>1 DEF Accept, TypeOK
  <2>3. dpc' = "lobby" /\ UNCHANGED <<members, dclient>>
    BY <1>18 DEF Accept, roomVars
  <2>4. QED BY <2>1, <2>2, <2>3 DEF Unauthenticated
<1>19. ASSUME AuthInvalid PROVE Unauthenticated'
  BY <1>19 DEF AuthInvalid, roomVars, purgeVars, Finish, TypeOK, Unauthenticated,
         PurgeShape, HandlingPcs, WriteFree, ReadFree
<1>20. ASSUME AutoJoin PROVE Unauthenticated'
  <2>1. dclient \in Clients /\ status[dclient] # "PendingAuth"
    BY <1>20 DEF AutoJoin, PurgeShape, HandlingPcs, Unauthenticated
  <2>2. \A c \in Clients, r \in Rooms : c \in members'[r] => c \in members[r] \/ c = dclient
    BY <1>20, AutoJoinMembers DEF TypeOK
  <2>3. dpc = "lobby" /\ UNCHANGED <<status, ctype, dpc, dclient>>
    BY <1>20 DEF AutoJoin
  <2>4. QED BY <2>1, <2>2, <2>3 DEF Unauthenticated
<1>21. ASSUME AutoJoinPanics PROVE Unauthenticated'
  BY <1>21
     DEF AutoJoinPanics, clientVars, roomVars, purgeVars, TypeOK, Unauthenticated,
         PurgeShape, HandlingPcs, WriteFree, ReadFree
<1>22. ASSUME AuthDone PROVE Unauthenticated'
  BY <1>22
     DEF AuthDone, clientVars, roomVars, purgeVars, Finish, TypeOK, Unauthenticated,
         PurgeShape, HandlingPcs, WriteFree, ReadFree
<1>23. ASSUME BadRequest PROVE Unauthenticated'
  BY <1>23 DEF BadRequest, roomVars, StartPurge, TypeOK, Unauthenticated, PurgeShape,
         HandlingPcs, WriteFree, ReadFree
<1>24. ASSUME NEW r \in Rooms, JoinExisting(r) PROVE Unauthenticated'
  BY <1>24 DEF JoinExisting, Finish, UnderServer, TypeOK, Unauthenticated, PurgeShape,
         HandlingPcs, WriteFree, ReadFree
<1>25. ASSUME NEW r \in Rooms, JoinCreate(r) PROVE Unauthenticated'
  BY <1>25 DEF JoinCreate, Finish, UnderServer, TypeOK, Unauthenticated, PurgeShape,
         HandlingPcs, WriteFree, ReadFree
<1>26. ASSUME NEW r \in Rooms, Part(r) PROVE Unauthenticated'
  BY <1>26 DEF Part, clientVars, purgeVars, Finish, UnderServer, TypeOK, Unauthenticated,
         PurgeShape, HandlingPcs, WriteFree, ReadFree
<1>27. ASSUME NEW r \in Rooms, NEW c \in Clients, Kick(r, c) PROVE Unauthenticated'
  BY <1>27
     DEF Kick, Finish, Request, TypeOK, Unauthenticated, PurgeShape, HandlingPcs,
         WriteFree, ReadFree
<1>28. ASSUME NEW c \in Clients, Kill(c) PROVE Unauthenticated'
  BY <1>28
     DEF Kill, clientVars, roomVars, StartPurge, Request, TypeOK, Unauthenticated,
         PurgeShape, HandlingPcs, WriteFree, ReadFree
<1>29. ASSUME SendtoWallops PROVE Unauthenticated'
  BY <1>29 DEF SendtoWallops, roomVars, purgeVars, Finish, TypeOK, Unauthenticated,
         PurgeShape, HandlingPcs, WriteFree, ReadFree
<1>30. ASSUME NEW r \in Rooms, NEW modes \in SUBSET ChannelOptions,
              SetChannelModes(r, modes)
       PROVE  Unauthenticated'
  BY <1>30 DEF SetChannelModes, clientVars, purgeVars, Finish, Request, TypeOK,
         Unauthenticated, PurgeShape, HandlingPcs, WriteFree, ReadFree
<1>31. ASSUME NEW gone \in SUBSET Clients, HealthScan(gone) PROVE Unauthenticated'
  BY <1>31 DEF HealthScan, roomVars, purgeVars, TypeOK, Unauthenticated, PurgeShape,
         HandlingPcs, WriteFree, ReadFree
<1>32. ASSUME NEW c \in Clients, HealthNext(c) PROVE Unauthenticated'
  BY <1>32 DEF HealthNext, clientVars, roomVars, purgeVars, StartPurge, TypeOK,
         Unauthenticated, PurgeShape, HandlingPcs, WriteFree, ReadFree
<1>33. ASSUME LockServer PROVE Unauthenticated'
  BY <1>33
     DEF LockServer, clientVars, roomVars, purgeVars, Request, TypeOK, Unauthenticated,
         PurgeShape, HandlingPcs, WriteFree, ReadFree
<1> QED
  BY <1>1, <1>2, <1>3, <1>4, <1>5, <1>6, <1>7, <1>8, <1>9, <1>10, <1>11, <1>12, <1>13,
     <1>14, <1>15, <1>16, <1>17, <1>18, <1>19, <1>20, <1>21, <1>22, <1>23, <1>24, <1>25,
     <1>26, <1>27, <1>28, <1>29, <1>30, <1>31, <1>32, <1>33, ConstantsAssumption
     DEF Next, ConnectionStep, PurgeStep, DispatcherStep, HealthStep, AuthAccepted,
         Tasks

-----------------------------------------------------------------------------

\* Whoever adds a member adds the channel to the member's list as well.
LEMMA ListsCoverStep ==
    ASSUME TypeOK, PurgeShape, Fresh, ListsCover, Next
    PROVE  ListsCover'
<1>1. ASSUME NEW c \in Clients, AddClient(c) PROVE ListsCover'
  BY <1>1 DEF AddClient, clientVars, roomVars, taskVars, purgeVars, ListsCover, Fresh
<1>2. ASSUME NEW c \in Clients, Refind(c) PROVE ListsCover'
  BY <1>2 DEF Refind, clientVars, roomVars, taskVars, purgeVars, ListsCover
<1>3. ASSUME NEW c \in Clients, Send(c) PROVE ListsCover'
  BY <1>3 DEF Send, clientVars, roomVars, purgeVars, ListsCover
<1>4. ASSUME NEW c \in Clients, ReadFails(c) PROVE ListsCover'
  BY <1>4
     DEF ReadFails, roomVars, taskVars, StartPurge, ListsCover, TypeOK, PurgeShape,
         Tasks, Taking
<1>5. ASSUME NEW c \in Clients, StreamEnds(c) PROVE ListsCover'
  BY <1>5 DEF StreamEnds, clientVars, roomVars, taskVars, purgeVars, ListsCover
<1>6. ASSUME NEW t \in Tasks, Snapshot(t) PROVE ListsCover'
  BY <1>6 DEF Snapshot, clientVars, roomVars, taskVars, Advance, ListsCover, TypeOK,
         PurgeShape, Tasks, Taking
<1>7. ASSUME NEW t \in Tasks, NextRoom(t) PROVE ListsCover'
  BY <1>7 DEF NextRoom, clientVars, roomVars, taskVars, Advance, ListsCover, TypeOK,
         PurgeShape, Tasks, Taking
<1>8. ASSUME NEW t \in Tasks, RemoveMember(t) PROVE ListsCover'
  BY <1>8 DEF RemoveMember, clientVars, Advance, ListsCover, TypeOK
<1>9. ASSUME NEW t \in Tasks, ReadPersist(t) PROVE ListsCover'
  BY <1>9
     DEF ReadPersist, clientVars, roomVars, taskVars, Advance, ListsCover, TypeOK,
         PurgeShape, Tasks, Taking
<1>10. ASSUME NEW t \in Tasks, CountMembers(t) PROVE ListsCover'
  BY <1>10
     DEF CountMembers, clientVars, roomVars, taskVars, Advance, ListsCover, TypeOK,
         PurgeShape, Tasks, Taking
<1>11. ASSUME NEW t \in Tasks, RemoveChannel(t) PROVE ListsCover'
  BY <1>11
     DEF RemoveChannel, clientVars, taskVars, Advance, ListsCover, TypeOK, PurgeShape,
         Tasks, Taking
<1>12. ASSUME NEW t \in Tasks, LoopEnds(t) PROVE ListsCover'
  BY <1>12 DEF LoopEnds, clientVars, roomVars, taskVars, Advance, ListsCover, TypeOK,
         PurgeShape, Tasks, Taking
<1>13. ASSUME NEW t \in Tasks, ClearChannels(t) PROVE ListsCover'
  BY <1>13 DEF ClearChannels, roomVars, Advance, ListsCover, TypeOK
<1>14. ASSUME NEW t \in Tasks, RemoveClient(t) PROVE ListsCover'
  BY <1>14
     DEF RemoveClient, clientVars, roomVars, Advance, ListsCover, TypeOK, PurgeShape,
         Tasks, Taking
<1>15. ASSUME Receive PROVE ListsCover'
  BY <1>15 DEF Receive, clientVars, roomVars, purgeVars, ListsCover
<1>16. ASSUME NoEffect PROVE ListsCover'
  BY <1>16 DEF NoEffect, clientVars, roomVars, purgeVars, Finish, ListsCover
<1>17. ASSUME NEW kind \in {"guest", "agent"}, AuthStart(kind) PROVE ListsCover'
  BY <1>17 DEF AuthStart, clientVars, roomVars, purgeVars, ListsCover
<1>18. ASSUME NEW kind \in {"guest", "agent"}, NEW opts \in SUBSET ClientOptions,
              Accept(kind, opts)
       PROVE  ListsCover'
  BY <1>18 DEF Accept, roomVars, purgeVars, ListsCover
<1>19. ASSUME AuthInvalid PROVE ListsCover'
  BY <1>19 DEF AuthInvalid, roomVars, purgeVars, Finish, ListsCover
<1>20. ASSUME AutoJoin PROVE ListsCover'
  <2>1. dclient \in Clients
    BY <1>20 DEF AutoJoin, PurgeShape, HandlingPcs
  <2>2. CASE \E r \in Rooms :
               /\ members' = [members EXCEPT ![r] = @ \cup {dclient}]
               /\ chanlist' = [chanlist EXCEPT ![dclient] = @ \cup {r}]
    BY <1>20, <2>1, <2>2 DEF AutoJoin, TypeOK, ListsCover, purgeVars
  <2>3. CASE UNCHANGED <<members, chanlist>>
    BY <1>20, <2>3 DEF AutoJoin, ListsCover, purgeVars
  <2>4. QED BY <1>20, <2>2, <2>3 DEF AutoJoin, Listed
<1>21. ASSUME AutoJoinPanics PROVE ListsCover'
  BY <1>21 DEF AutoJoinPanics, clientVars, roomVars, purgeVars, ListsCover
<1>22. ASSUME AuthDone PROVE ListsCover'
  BY <1>22 DEF AuthDone, clientVars, roomVars, purgeVars, Finish, ListsCover
<1>23. ASSUME BadRequest PROVE ListsCover'
  BY <1>23
     DEF BadRequest, roomVars, StartPurge, ListsCover, TypeOK, PurgeShape, Tasks,
         Taking, HandlingPcs
<1>24. ASSUME NEW r \in Rooms, JoinExisting(r) PROVE ListsCover'
  BY <1>24
     DEF JoinExisting, purgeVars, UnderServer, ListsCover, TypeOK, PurgeShape, HandlingPcs
<1>25. ASSUME NEW r \in Rooms, JoinCreate(r) PROVE ListsCover'
  BY <1>25
     DEF JoinCreate, purgeVars, UnderServer, ListsCover, TypeOK, PurgeShape, HandlingPcs
<1>26. ASSUME NEW r \in Rooms, Part(r) PROVE ListsCover'
  BY <1>26 DEF Part, clientVars, purgeVars, Finish, UnderServer, ListsCover, TypeOK
<1>27. ASSUME NEW r \in Rooms, NEW c \in Clients, Kick(r, c) PROVE ListsCover'
  BY <1>27 DEF Kick, purgeVars, Request, ListsCover, TypeOK
<1>28. ASSUME NEW c \in Clients, Kill(c) PROVE ListsCover'
  BY <1>28 DEF Kill, clientVars, roomVars, StartPurge, Request, ListsCover, TypeOK,
         PurgeShape, Tasks, Taking, HandlingPcs
<1>29. ASSUME SendtoWallops PROVE ListsCover'
  BY <1>29 DEF SendtoWallops, roomVars, purgeVars, Finish, ListsCover
<1>30. ASSUME NEW r \in Rooms, NEW modes \in SUBSET ChannelOptions,
              SetChannelModes(r, modes)
       PROVE  ListsCover'
  BY <1>30 DEF SetChannelModes, clientVars, purgeVars, Finish, Request, ListsCover
<1>31. ASSUME NEW gone \in SUBSET Clients, HealthScan(gone) PROVE ListsCover'
  BY <1>31 DEF HealthScan, roomVars, purgeVars, ListsCover
<1>32. ASSUME NEW c \in Clients, HealthNext(c) PROVE ListsCover'
  <2>1. Health \in Tasks /\ purging[Health] = "off"
    BY <1>32 DEF HealthNext, Tasks
  <2>2. UNCHANGED <<members, chanlist, clients>>
    BY <1>32 DEF HealthNext, clientVars, roomVars
  <2>3. \A t \in Tasks : purging[t] = "deregister" => purging'[t] = purging[t] /\ who'[t] = who[t]
    BY <1>32, <2>1 DEF HealthNext, StartPurge, purgeVars, TypeOK
  <2>4. QED BY <2>2, <2>3 DEF ListsCover
<1>33. ASSUME LockServer PROVE ListsCover'
  BY <1>33 DEF LockServer, clientVars, roomVars, purgeVars, Request, ListsCover
<1> QED
  BY <1>1, <1>2, <1>3, <1>4, <1>5, <1>6, <1>7, <1>8, <1>9, <1>10, <1>11, <1>12, <1>13,
     <1>14, <1>15, <1>16, <1>17, <1>18, <1>19, <1>20, <1>21, <1>22, <1>23, <1>24, <1>25,
     <1>26, <1>27, <1>28, <1>29, <1>30, <1>31, <1>32, <1>33, ConstantsAssumption
     DEF Next, ConnectionStep, PurgeStep, DispatcherStep, HealthStep, AuthAccepted,
         Tasks

-----------------------------------------------------------------------------

\* Under Quiet, those whom the other tasks take out have nothing pending, and
\* stay that way.
LEMMA LeaversQuietStep ==
    ASSUME Quiet, TypeOK, PurgeShape, Fresh, LeaversQuiet, Next
    PROVE  LeaversQuiet'
<1>1. ASSUME NEW c \in Clients, AddClient(c) PROVE LeaversQuiet'
  BY <1>1
     DEF AddClient, clientVars, roomVars, taskVars, purgeVars, LeaversQuiet, TypeOK,
         PurgeShape, Pending, Queued, Taking, Tasks, HandlingPcs
<1>2. ASSUME NEW c \in Clients, Refind(c) PROVE LeaversQuiet'
  BY <1>2 DEF Refind, clientVars, roomVars, taskVars, purgeVars, LeaversQuiet, TypeOK,
         PurgeShape, Pending, Queued, Taking, Tasks, HandlingPcs
<1>3. ASSUME NEW c \in Clients, Send(c) PROVE LeaversQuiet'
  BY <1>3 DEF Send, clientVars, roomVars, purgeVars, LeaversQuiet, TypeOK, PurgeShape,
         Pending, Queued, Taking, Tasks, HandlingPcs, MayLeave, Silent
<1>4. ASSUME NEW c \in Clients, ReadFails(c) PROVE LeaversQuiet'
  <2>1. UNCHANGED <<clients, pipe, dpc, dclient, expired>>
    BY <1>4 DEF ReadFails, taskVars
  <2>2. /\ ~Pending(c)
        /\ dclient # c
    BY <1>4 DEF ReadFails, MayLeave, Pending
  <2>3. \A t \in Clients \cup {Health} :
           (who'[t] = who[t] /\ purging'[t] = purging[t]) \/ who'[t] = c
    BY <1>4 DEF ReadFails, StartPurge, TypeOK, Tasks
  <2>4. dpc \in {"guest", "agent"} => status'[dclient] = status[dclient]
    BY <1>4, <2>2 DEF ReadFails, HandlingPcs
  <2>5. QED BY <2>1, <2>2, <2>3, <2>4 DEF LeaversQuiet, Pending, Queued, Taking
<1>5. ASSUME NEW c \in Clients, StreamEnds(c) PROVE LeaversQuiet'
  BY <1>5
     DEF StreamEnds, clientVars, roomVars, taskVars, purgeVars, LeaversQuiet, TypeOK,
         PurgeShape, Pending, Queued, Taking, Tasks, HandlingPcs
<1>6. ASSUME NEW t \in Tasks, Snapshot(t) PROVE LeaversQuiet'
  BY <1>6 DEF Snapshot, clientVars, roomVars, taskVars, Advance, LeaversQuiet, TypeOK,
         PurgeShape, Pending, Queued, Taking, Tasks, HandlingPcs
<1>7. ASSUME NEW t \in Tasks, NextRoom(t) PROVE LeaversQuiet'
  BY <1>7 DEF NextRoom, clientVars, roomVars, taskVars, Advance, LeaversQuiet, TypeOK,
         PurgeShape, Pending, Queued, Taking, Tasks, HandlingPcs
<1>8. ASSUME NEW t \in Tasks, RemoveMember(t) PROVE LeaversQuiet'
  BY <1>8 DEF RemoveMember, clientVars, taskVars, Advance, LeaversQuiet, TypeOK,
         PurgeShape, Pending, Queued, Taking, Tasks, HandlingPcs
<1>9. ASSUME NEW t \in Tasks, ReadPersist(t) PROVE LeaversQuiet'
  BY <1>9
     DEF ReadPersist, clientVars, roomVars, taskVars, Advance, LeaversQuiet, TypeOK,
         PurgeShape, Pending, Queued, Taking, Tasks, HandlingPcs
<1>10. ASSUME NEW t \in Tasks, CountMembers(t) PROVE LeaversQuiet'
  BY <1>10
     DEF CountMembers, clientVars, roomVars, taskVars, Advance, LeaversQuiet, TypeOK,
         PurgeShape, Pending, Queued, Taking, Tasks, HandlingPcs
<1>11. ASSUME NEW t \in Tasks, RemoveChannel(t) PROVE LeaversQuiet'
  BY <1>11 DEF RemoveChannel, clientVars, taskVars, Advance, LeaversQuiet, TypeOK,
         PurgeShape, Pending, Queued, Taking, Tasks, HandlingPcs
<1>12. ASSUME NEW t \in Tasks, LoopEnds(t) PROVE LeaversQuiet'
  BY <1>12
     DEF LoopEnds, clientVars, roomVars, taskVars, Advance, LeaversQuiet, TypeOK,
         PurgeShape, Pending, Queued, Taking, Tasks, HandlingPcs
<1>13. ASSUME NEW t \in Tasks, ClearChannels(t) PROVE LeaversQuiet'
  BY <1>13
     DEF ClearChannels, taskVars, Advance, LeaversQuiet, TypeOK, PurgeShape, Pending,
         Queued, Taking, Tasks, HandlingPcs
<1>14. ASSUME NEW t \in Tasks, RemoveClient(t) PROVE LeaversQuiet'
  BY <1>14 DEF RemoveClient, clientVars, roomVars, Advance, LeaversQuiet, TypeOK,
         PurgeShape, Pending, Queued, Taking, Tasks, HandlingPcs
<1>15. ASSUME Receive PROVE LeaversQuiet'
  BY <1>15
     DEF Receive, clientVars, roomVars, purgeVars, LeaversQuiet, TypeOK, PurgeShape,
         Pending, Queued, Taking, Tasks, HandlingPcs
<1>16. ASSUME NoEffect PROVE LeaversQuiet'
  BY <1>16
     DEF NoEffect, roomVars, purgeVars, Finish, LeaversQuiet, TypeOK, PurgeShape,
         Pending, Queued, Taking, Tasks, HandlingPcs
<1>17. ASSUME NEW kind \in {"guest", "agent"}, AuthStart(kind) PROVE LeaversQuiet'
  BY <1>17
     DEF AuthStart, clientVars, roomVars, purgeVars, LeaversQuiet, TypeOK, PurgeShape,
         Pending, Queued, Taking, Tasks, HandlingPcs
<1>18. ASSUME NEW kind \in {"guest", "agent"}, NEW opts \in SUBSET ClientOptions,
              Accept(kind, opts)
       PROVE  LeaversQuiet'
  BY <1>18, TasksAssumption
     DEF Accept, purgeVars, LeaversQuiet, TypeOK, PurgeShape, Pending, Queued, Taking,
         Tasks, HandlingPcs
<1>19. ASSUME AuthInvalid PROVE LeaversQuiet'
  BY <1>19
     DEF AuthInvalid, purgeVars, Finish, LeaversQuiet, TypeOK, PurgeShape, Pending,
         Queued, Taking, Tasks, HandlingPcs
<1>20. ASSUME AutoJoin PROVE LeaversQuiet'
  BY <1>20 DEF AutoJoin, purgeVars, LeaversQuiet, TypeOK, PurgeShape, Pending, Queued,
         Taking, Tasks, HandlingPcs
<1>21. ASSUME AutoJoinPanics PROVE LeaversQuiet'
  BY <1>21 DEF AutoJoinPanics, roomVars, purgeVars, LeaversQuiet, TypeOK, PurgeShape,
         Pending, Queued, Taking, Tasks, HandlingPcs
<1>22. ASSUME AuthDone PROVE LeaversQuiet'
  BY <1>22
     DEF AuthDone, roomVars, purgeVars, Finish, LeaversQuiet, TypeOK, PurgeShape,
         Pending, Queued, Taking, Tasks, HandlingPcs
<1>23. ASSUME BadRequest PROVE LeaversQuiet'
  BY <1>23, TasksAssumption
     DEF BadRequest, StartPurge, LeaversQuiet, TypeOK, PurgeShape, Pending, Queued,
         Taking, Tasks, HandlingPcs
<1>24. ASSUME NEW r \in Rooms, JoinExisting(r) PROVE LeaversQuiet'
  BY <1>24
     DEF JoinExisting, purgeVars, Finish, UnderServer, LeaversQuiet, TypeOK, PurgeShape,
         Pending, Queued, Taking, Tasks, HandlingPcs
<1>25. ASSUME NEW r \in Rooms, JoinCreate(r) PROVE LeaversQuiet'
  <2>1. dpc' = "idle" /\ dclient' = NoClient
    BY <1>25 DEF JoinCreate, Finish
  <2>2. UNCHANGED <<clients, status, pipe, expired, purging, who>>
    BY <1>25 DEF JoinCreate, purgeVars
  <2>3. \A t \in Tasks : Taking(t) => who[t] \in Clients
    BY DEF PurgeShape
  <2>4. \A c \in Clients : ~Pending(c) => ~Pending(c)'
    BY <2>1, <2>2, TasksAssumption DEF Pending, Queued
  <2>5. expired \subseteq Clients
    BY DEF TypeOK
  <2>6. QED BY <2>1, <2>2, <2>3, <2>4, <2>5 DEF LeaversQuiet, Taking, Tasks, HandlingPcs
<1>26. ASSUME NEW r \in Rooms, Part(r) PROVE LeaversQuiet'
  BY <1>26
     DEF Part, purgeVars, Finish, UnderServer, LeaversQuiet, TypeOK, PurgeShape, Pending,
         Queued, Taking, Tasks, HandlingPcs
<1>27. ASSUME NEW r \in Rooms, NEW c \in Clients, Kick(r, c) PROVE LeaversQuiet'
  BY <1>27
     DEF Kick, purgeVars, Finish, Request, LeaversQuiet, TypeOK, PurgeShape, Pending,
         Queued, Taking, Tasks, HandlingPcs
<1>28. ASSUME NEW c \in Clients, Kill(c) PROVE LeaversQuiet'
  BY <1>28, TasksAssumption
     DEF Kill, roomVars, StartPurge, Request, LeaversQuiet, TypeOK, PurgeShape,
         Pending, Queued, Taking, Tasks, HandlingPcs
<1>29. ASSUME SendtoWallops PROVE LeaversQuiet'
  BY <1>29
     DEF SendtoWallops, purgeVars, Finish, LeaversQuiet, TypeOK, PurgeShape, Pending,
         Queued, Taking, Tasks, HandlingPcs
<1>30. ASSUME NEW r \in Rooms, NEW modes \in SUBSET ChannelOptions,
              SetChannelModes(r, modes)
       PROVE  LeaversQuiet'
  BY <1>30 DEF SetChannelModes, purgeVars, Finish, Request, LeaversQuiet, TypeOK,
         PurgeShape, Pending, Queued, Taking, Tasks, HandlingPcs
<1>31. ASSUME NEW gone \in SUBSET Clients, HealthScan(gone) PROVE LeaversQuiet'
  BY <1>31
     DEF HealthScan, purgeVars, LeaversQuiet, TypeOK, PurgeShape, Pending, Queued,
         Taking, Tasks, HandlingPcs, MayLeave, Silent
<1>32. ASSUME NEW c \in Clients, HealthNext(c) PROVE LeaversQuiet'
  BY <1>32 DEF HealthNext, clientVars, roomVars, purgeVars, StartPurge, LeaversQuiet,
         TypeOK, PurgeShape, Pending, Queued, Taking, Tasks, HandlingPcs
<1>33. ASSUME LockServer PROVE LeaversQuiet'
  BY <1>33
     DEF LockServer, roomVars, purgeVars, Request, LeaversQuiet, TypeOK, PurgeShape,
         Pending, Queued, Taking, Tasks, HandlingPcs
<1> QED
  BY <1>1, <1>2, <1>3, <1>4, <1>5, <1>6, <1>7, <1>8, <1>9, <1>10, <1>11, <1>12, <1>13,
     <1>14, <1>15, <1>16, <1>17, <1>18, <1>19, <1>20, <1>21, <1>22, <1>23, <1>24, <1>25,
     <1>26, <1>27, <1>28, <1>29, <1>30, <1>31, <1>32, <1>33, ConstantsAssumption
     DEF Next, ConnectionStep, PurgeStep, DispatcherStep, HealthStep, AuthAccepted,
         Tasks

-----------------------------------------------------------------------------

\* Under Quiet, the client whose request is carried out is registered and no
\* task is taking it out.
LEMMA ServedStays ==
    ASSUME Quiet, TypeOK, PurgeShape, LeaversQuiet, dpc \in HandlingPcs
    PROVE  /\ dclient \in clients
           /\ \A t \in Tasks : Taking(t) => who[t] # dclient
  BY DEF PurgeShape, LeaversQuiet, Pending, Taking, Tasks, HandlingPcs


\* Under Quiet, no step puts a membership behind the loop of a task that
\* takes the member out.
LEMMA RoomsAheadStep ==
    ASSUME Quiet, TypeOK, PurgeShape, ListsCover, NoGhosts, LeaversQuiet, RoomsAhead, Next
    PROVE  RoomsAhead'
<1>1. ASSUME NEW c \in Clients, AddClient(c) PROVE RoomsAhead'
  BY <1>1
     DEF AddClient, roomVars, taskVars, purgeVars, RoomsAhead, TypeOK, PurgeShape,
         LeaversQuiet, Taking, Tasks, Listed, LoopPcs
<1>2. ASSUME NEW c \in Clients, Refind(c) PROVE RoomsAhead'
  BY <1>2 DEF Refind, roomVars, taskVars, purgeVars, RoomsAhead, TypeOK, PurgeShape,
         LeaversQuiet, Taking, Tasks, Listed, LoopPcs
<1>3. ASSUME NEW c \in Clients, Send(c) PROVE RoomsAhead'
  BY <1>3 DEF Send, roomVars, purgeVars, RoomsAhead, TypeOK, PurgeShape, LeaversQuiet,
         Taking, Tasks, Listed, LoopPcs
<1>4. ASSUME NEW c \in Clients, ReadFails(c) PROVE RoomsAhead'
  BY <1>4
     DEF ReadFails, roomVars, taskVars, StartPurge, RoomsAhead, TypeOK, PurgeShape,
         LeaversQuiet, Taking, Tasks, Listed, LoopPcs
<1>5. ASSUME NEW c \in Clients, StreamEnds(c) PROVE RoomsAhead'
  BY <1>5
     DEF StreamEnds, roomVars, taskVars, purgeVars, RoomsAhead, TypeOK, PurgeShape,
         LeaversQuiet, Taking, Tasks, Listed, LoopPcs
<1>6. ASSUME NEW t \in Tasks, Snapshot(t) PROVE RoomsAhead'
  <2>1. \A r \in Listed : who[t] \in members[r] => r \in chanlist[who[t]]
    <3> SUFFICES ASSUME NEW r \in Listed, who[t] \in members[r]
                 PROVE  r \in chanlist[who[t]]
      OBVIOUS
    <3>1. /\ Taking(t)
          /\ who[t] \in Clients
          /\ r \in Rooms
      BY <1>6 DEF Snapshot, PurgeShape, Taking, Listed
    <3>2. who[t] \in clients
      BY DEF NoGhosts
    <3>3. ~ \E u \in Tasks : who[u] = who[t] /\ purging[u] = "deregister"
      BY DEF RoomsAhead, Taking, LoopPcs
    <3>4. QED BY <3>1, <3>2, <3>3 DEF ListsCover
  <2>2. QED BY <1>6, <2>1
               DEF Snapshot, Advance, roomVars, taskVars, TypeOK, RoomsAhead, Taking,
                   Listed, LoopPcs
<1>7. ASSUME NEW t \in Tasks, NextRoom(t) PROVE RoomsAhead'
  BY <1>7 DEF NextRoom, roomVars, taskVars, Advance, RoomsAhead, TypeOK, PurgeShape,
         LeaversQuiet, Taking, Tasks, Listed, LoopPcs
<1>8. ASSUME NEW t \in Tasks, RemoveMember(t) PROVE RoomsAhead'
  BY <1>8 DEF RemoveMember, taskVars, Advance, RoomsAhead, TypeOK, PurgeShape,
         LeaversQuiet, Taking, Tasks, Listed, LoopPcs
<1>9. ASSUME NEW t \in Tasks, ReadPersist(t) PROVE RoomsAhead'
  BY <1>9
     DEF ReadPersist, roomVars, taskVars, Advance, RoomsAhead, TypeOK, PurgeShape,
         LeaversQuiet, Taking, Tasks, Listed, LoopPcs
<1>10. ASSUME NEW t \in Tasks, CountMembers(t) PROVE RoomsAhead'
  BY <1>10
     DEF CountMembers, roomVars, taskVars, Advance, RoomsAhead, TypeOK, PurgeShape,
         LeaversQuiet, Taking, Tasks, Listed, LoopPcs
<1>11. ASSUME NEW t \in Tasks, RemoveChannel(t) PROVE RoomsAhead'
  BY <1>11 DEF RemoveChannel, taskVars, Advance, RoomsAhead, TypeOK, PurgeShape,
         LeaversQuiet, Taking, Tasks, Listed, LoopPcs
<1>12. ASSUME NEW t \in Tasks, LoopEnds(t) PROVE RoomsAhead'
  BY <1>12 DEF LoopEnds, roomVars, taskVars, Advance, RoomsAhead, TypeOK, PurgeShape,
         LeaversQuiet, Taking, Tasks, Listed, LoopPcs
<1>13. ASSUME NEW t \in Tasks, ClearChannels(t) PROVE RoomsAhead'
  BY <1>13
     DEF ClearChannels, roomVars, taskVars, Advance, RoomsAhead, TypeOK, PurgeShape,
         LeaversQuiet, Taking, Tasks, Listed, LoopPcs
<1>14. ASSUME NEW t \in Tasks, RemoveClient(t) PROVE RoomsAhead'
  BY <1>14 DEF RemoveClient, roomVars, Advance, RoomsAhead, TypeOK, PurgeShape,
         LeaversQuiet, Taking, Tasks, Listed, LoopPcs
<1>15. ASSUME Receive PROVE RoomsAhead'
  BY <1>15
     DEF Receive, roomVars, purgeVars, RoomsAhead, TypeOK, PurgeShape, LeaversQuiet,
         Taking, Tasks, Listed, LoopPcs
<1>16. ASSUME NoEffect PROVE RoomsAhead'
  BY <1>16 DEF NoEffect, roomVars, purgeVars, Finish, RoomsAhead, TypeOK, PurgeShape,
         LeaversQuiet, Taking, Tasks, Listed, LoopPcs
<1>17. ASSUME NEW kind \in {"guest", "agent"}, AuthStart(kind) PROVE RoomsAhead'
  BY <1>17
     DEF AuthStart, roomVars, purgeVars, RoomsAhead, TypeOK, PurgeShape, LeaversQuiet,
         Taking, Tasks, Listed, LoopPcs
<1>18. ASSUME NEW kind \in {"guest", "agent"}, NEW opts \in SUBSET ClientOptions,
              Accept(kind, opts)
       PROVE  RoomsAhead'
  BY <1>18 DEF Accept, roomVars, purgeVars, RoomsAhead, Listed, Taking
<1>19. ASSUME AuthInvalid PROVE RoomsAhead'
  BY <1>19
     DEF AuthInvalid, roomVars, purgeVars, Finish, RoomsAhead, TypeOK, PurgeShape,
         LeaversQuiet, Taking, Tasks, Listed, LoopPcs
<1>20. ASSUME AutoJoin PROVE RoomsAhead'
  <2>1. \A t \in Tasks : Taking(t) => who[t] # dclient
    BY <1>20, ServedStays DEF AutoJoin, HandlingPcs
  <2>2. CASE \E r \in Rooms : members' = [members EXCEPT ![r] = @ \cup {dclient}]
    BY <1>20, <2>1, <2>2 DEF AutoJoin, purgeVars, RoomsAhead, Taking, Listed
  <2>3. CASE UNCHANGED members
    BY <1>20, <2>3 DEF AutoJoin, purgeVars, RoomsAhead, Taking, Listed
  <2>4. QED BY <1>20, <2>2, <2>3 DEF AutoJoin, Listed
<1>21. ASSUME AutoJoinPanics PROVE RoomsAhead'
  BY <1>21 DEF AutoJoinPanics, roomVars, purgeVars, RoomsAhead, TypeOK, PurgeShape,
         LeaversQuiet, Taking, Tasks, Listed, LoopPcs
<1>22. ASSUME AuthDone PROVE RoomsAhead'
  BY <1>22 DEF AuthDone, roomVars, purgeVars, Finish, RoomsAhead, TypeOK, PurgeShape,
         LeaversQuiet, Taking, Tasks, Listed, LoopPcs
<1>23. ASSUME BadRequest PROVE RoomsAhead'
  BY <1>23 DEF BadRequest, roomVars, StartPurge, RoomsAhead, TypeOK, PurgeShape,
         LeaversQuiet, Taking, Tasks, Listed, LoopPcs
<1>24. ASSUME NEW r \in Rooms, JoinExisting(r) PROVE RoomsAhead'
  <2>1. \A t \in Tasks : Taking(t) => who[t] # dclient
    BY <1>24, ServedStays DEF JoinExisting, UnderServer, HandlingPcs
  <2>2. QED BY <1>24, <2>1 DEF JoinExisting, purgeVars, RoomsAhead, Taking, Listed
<1>25. ASSUME NEW r \in Rooms, JoinCreate(r) PROVE RoomsAhead'
  <2>1. \A t \in Tasks : Taking(t) => who[t] # dclient
    BY <1>25, ServedStays DEF JoinCreate, UnderServer, HandlingPcs
  <2>2. QED BY <1>25, <2>1 DEF JoinCreate, purgeVars, TypeOK, RoomsAhead, Taking, Listed
<1>26. ASSUME NEW r \in Rooms, Part(r) PROVE RoomsAhead'
  BY <1>26 DEF Part, purgeVars, Finish, UnderServer, RoomsAhead, TypeOK, PurgeShape,
         LeaversQuiet, Taking, Tasks, Listed, LoopPcs
<1>27. ASSUME NEW r \in Rooms, NEW c \in Clients, Kick(r, c) PROVE RoomsAhead'
  BY <1>27 DEF Kick, purgeVars, Finish, Request, RoomsAhead, TypeOK, PurgeShape,
         LeaversQuiet, Taking, Tasks, Listed, LoopPcs
<1>28. ASSUME NEW c \in Clients, Kill(c) PROVE RoomsAhead'
  BY <1>28 DEF Kill, roomVars, StartPurge, Request, RoomsAhead, TypeOK, PurgeShape,
         LeaversQuiet, Taking, Tasks, Listed, LoopPcs
<1>29. ASSUME SendtoWallops PROVE RoomsAhead'
  BY <1>29
     DEF SendtoWallops, roomVars, purgeVars, Finish, RoomsAhead, TypeOK, PurgeShape,
         LeaversQuiet, Taking, Tasks, Listed, LoopPcs
<1>30. ASSUME NEW r \in Rooms, NEW modes \in SUBSET ChannelOptions,
              SetChannelModes(r, modes)
       PROVE  RoomsAhead'
  BY <1>30
     DEF SetChannelModes, purgeVars, Finish, Request, RoomsAhead, TypeOK, PurgeShape,
         LeaversQuiet, Taking, Tasks, Listed, LoopPcs
<1>31. ASSUME NEW gone \in SUBSET Clients, HealthScan(gone) PROVE RoomsAhead'
  BY <1>31 DEF HealthScan, roomVars, purgeVars, RoomsAhead, TypeOK, PurgeShape,
         LeaversQuiet, Taking, Tasks, Listed, LoopPcs
<1>32. ASSUME NEW c \in Clients, HealthNext(c) PROVE RoomsAhead'
  BY <1>32
     DEF HealthNext, roomVars, purgeVars, StartPurge, RoomsAhead, TypeOK, PurgeShape,
         LeaversQuiet, Taking, Tasks, Listed, LoopPcs
<1>33. ASSUME LockServer PROVE RoomsAhead'
  BY <1>33 DEF LockServer, roomVars, purgeVars, Request, RoomsAhead, TypeOK, PurgeShape,
         LeaversQuiet, Taking, Tasks, Listed, LoopPcs
<1> QED
  BY <1>1, <1>2, <1>3, <1>4, <1>5, <1>6, <1>7, <1>8, <1>9, <1>10, <1>11, <1>12, <1>13,
     <1>14, <1>15, <1>16, <1>17, <1>18, <1>19, <1>20, <1>21, <1>22, <1>23, <1>24, <1>25,
     <1>26, <1>27, <1>28, <1>29, <1>30, <1>31, <1>32, <1>33, ConstantsAssumption
     DEF Next, ConnectionStep, PurgeStep, DispatcherStep, HealthStep, AuthAccepted,
         Tasks

\* Under Quiet, the step that removes a client finds none of its memberships
\* left.
LEMMA NoGhostsStep ==
    ASSUME Quiet, TypeOK, PurgeShape, Unauthenticated, LeaversQuiet, RoomsAhead, NoGhosts, Next
    PROVE  NoGhosts'
<1>1. ASSUME NEW c \in Clients, AddClient(c) PROVE NoGhosts'
  BY <1>1 DEF AddClient, roomVars, taskVars, purgeVars, NoGhosts, TypeOK, PurgeShape,
         LeaversQuiet, Unauthenticated, Taking, Tasks, Listed, HandlingPcs
<1>2. ASSUME NEW c \in Clients, Refind(c) PROVE NoGhosts'
  BY <1>2 DEF Refind, roomVars, taskVars, purgeVars, NoGhosts, TypeOK, PurgeShape,
         LeaversQuiet, Unauthenticated, Taking, Tasks, Listed, HandlingPcs
<1>3. ASSUME NEW c \in Clients, Send(c) PROVE NoGhosts'
  BY <1>3 DEF Send, roomVars, purgeVars, NoGhosts, TypeOK, PurgeShape, LeaversQuiet,
         Unauthenticated, Taking, Tasks, Listed, HandlingPcs
<1>4. ASSUME NEW c \in Clients, ReadFails(c) PROVE NoGhosts'
  BY <1>4 DEF ReadFails, roomVars, taskVars, StartPurge, NoGhosts, TypeOK, PurgeShape,
         LeaversQuiet, Unauthenticated, Taking, Tasks, Listed, HandlingPcs
<1>5. ASSUME NEW c \in Clients, StreamEnds(c) PROVE NoGhosts'
  BY <1>5 DEF StreamEnds, roomVars, taskVars, purgeVars, NoGhosts, TypeOK, PurgeShape,
         LeaversQuiet, Unauthenticated, Taking, Tasks, Listed, HandlingPcs
<1>6. ASSUME NEW t \in Tasks, Snapshot(t) PROVE NoGhosts'
  BY <1>6 DEF Snapshot, roomVars, taskVars, Advance, NoGhosts, TypeOK, PurgeShape,
         LeaversQuiet, Unauthenticated, Taking, Tasks, Listed, HandlingPcs
<1>7. ASSUME NEW t \in Tasks, NextRoom(t) PROVE NoGhosts'
  BY <1>7 DEF NextRoom, roomVars, taskVars, Advance, NoGhosts, TypeOK, PurgeShape,
         LeaversQuiet, Unauthenticated, Taking, Tasks, Listed, HandlingPcs
<1>8. ASSUME NEW t \in Tasks, RemoveMember(t) PROVE NoGhosts'
  BY <1>8
     DEF RemoveMember, taskVars, Advance, NoGhosts, TypeOK, PurgeShape, LeaversQuiet,
         Unauthenticated, Taking, Tasks, Listed, HandlingPcs
<1>9. ASSUME NEW t \in Tasks, ReadPersist(t) PROVE NoGhosts'
  BY <1>9 DEF ReadPersist, roomVars, taskVars, Advance, NoGhosts, TypeOK, PurgeShape,
         LeaversQuiet, Unauthenticated, Taking, Tasks, Listed, HandlingPcs
<1>10. ASSUME NEW t \in Tasks, CountMembers(t) PROVE NoGhosts'
  BY <1>10
     DEF CountMembers, roomVars, taskVars, Advance, NoGhosts, TypeOK, PurgeShape,
         LeaversQuiet, Unauthenticated, Taking, Tasks, Listed, HandlingPcs
<1>11. ASSUME NEW t \in Tasks, RemoveChannel(t) PROVE NoGhosts'
  BY <1>11
     DEF RemoveChannel, taskVars, Advance, NoGhosts, TypeOK, PurgeShape, LeaversQuiet,
         Unauthenticated, Taking, Tasks, Listed, HandlingPcs
<1>12. ASSUME NEW t \in Tasks, LoopEnds(t) PROVE NoGhosts'
  BY <1>12 DEF LoopEnds, roomVars, taskVars, Advance, NoGhosts, TypeOK, PurgeShape,
         LeaversQuiet, Unauthenticated, Taking, Tasks, Listed, HandlingPcs
<1>13. ASSUME NEW t \in Tasks, ClearChannels(t) PROVE NoGhosts'
  BY <1>13
     DEF ClearChannels, roomVars, taskVars, Advance, NoGhosts, TypeOK, PurgeShape,
         LeaversQuiet, Unauthenticated, Taking, Tasks, Listed, HandlingPcs
<1>14. ASSUME NEW t \in Tasks, RemoveClient(t) PROVE NoGhosts'
  <2>1. \A r \in Listed : who[t] \notin members[r]
    BY <1>14 DEF RemoveClient, RoomsAhead, Taking, LoopPcs
  <2>2. QED BY <1>14, <2>1 DEF RemoveClient, roomVars, NoGhosts, Listed
<1>15. ASSUME Receive PROVE NoGhosts'
  BY <1>15
     DEF Receive, roomVars, purgeVars, NoGhosts, TypeOK, PurgeShape, LeaversQuiet,
         Unauthenticated, Taking, Tasks, Listed, HandlingPcs
<1>16. ASSUME NoEffect PROVE NoGhosts'
  BY <1>16 DEF NoEffect, roomVars, purgeVars, Finish, NoGhosts, TypeOK, PurgeShape,
         LeaversQuiet, Unauthenticated, Taking, Tasks, Listed, HandlingPcs
<1>17. ASSUME NEW kind \in {"guest", "agent"}, AuthStart(kind) PROVE NoGhosts'
  BY <1>17
     DEF AuthStart, roomVars, purgeVars, NoGhosts, TypeOK, PurgeShape, LeaversQuiet,
         Unauthenticated, Taking, Tasks, Listed, HandlingPcs
<1>18. ASSUME NEW kind \in {"guest", "agent"}, NEW opts \in SUBSET ClientOptions,
              Accept(kind, opts)
       PROVE  NoGhosts'
  BY <1>18
     DEF Accept, roomVars, purgeVars, NoGhosts, TypeOK, PurgeShape, LeaversQuiet,
         Unauthenticated, Taking, Tasks, Listed, HandlingPcs
<1>19. ASSUME AuthInvalid PROVE NoGhosts'
  BY <1>19 DEF AuthInvalid, roomVars, purgeVars, Finish, NoGhosts, TypeOK, PurgeShape,
         LeaversQuiet, Unauthenticated, Taking, Tasks, Listed, HandlingPcs
<1>20. ASSUME AutoJoin PROVE NoGhosts'
  <2>1. dclient \in clients
    BY <1>20, ServedStays DEF AutoJoin, HandlingPcs
  <2>2. CASE \E r \in Rooms : members' = [members EXCEPT ![r] = @ \cup {dclient}]
    BY <1>20, <2>1, <2>2 DEF AutoJoin, NoGhosts, Listed
  <2>3. CASE UNCHANGED members
    BY <1>20, <2>3 DEF AutoJoin, NoGhosts, Listed
  <2>4. QED BY <1>20, <2>2, <2>3 DEF AutoJoin, Listed
<1>21. ASSUME AutoJoinPanics PROVE NoGhosts'
  BY <1>21 DEF AutoJoinPanics, roomVars, purgeVars, NoGhosts, TypeOK, PurgeShape,
         LeaversQuiet, Unauthenticated, Taking, Tasks, Listed, HandlingPcs
<1>22. ASSUME AuthDone PROVE NoGhosts'
  BY <1>22 DEF AuthDone, roomVars, purgeVars, Finish, NoGhosts, TypeOK, PurgeShape,
         LeaversQuiet, Unauthenticated, Taking, Tasks, Listed, HandlingPcs
<1>23. ASSUME BadRequest PROVE NoGhosts'
  BY <1>23
     DEF BadRequest, roomVars, StartPurge, NoGhosts, TypeOK, PurgeShape, LeaversQuiet,
         Unauthenticated, Taking, Tasks, Listed, HandlingPcs
<1>24. ASSUME NEW r \in Rooms, JoinExisting(r) PROVE NoGhosts'
  BY <1>24
     DEF JoinExisting, Finish, UnderServer, NoGhosts, TypeOK, PurgeShape, LeaversQuiet,
         Unauthenticated, Taking, Tasks, Listed, HandlingPcs
<1>25. ASSUME NEW r \in Rooms, JoinCreate(r) PROVE NoGhosts'
  BY <1>25
     DEF JoinCreate, Finish, UnderServer, NoGhosts, TypeOK, PurgeShape, LeaversQuiet,
         Unauthenticated, Taking, Tasks, Listed, HandlingPcs
<1>26. ASSUME NEW r \in Rooms, Part(r) PROVE NoGhosts'
  BY <1>26
     DEF Part, purgeVars, Finish, UnderServer, NoGhosts, TypeOK, PurgeShape, LeaversQuiet,
         Unauthenticated, Taking, Tasks, Listed, HandlingPcs
<1>27. ASSUME NEW r \in Rooms, NEW c \in Clients, Kick(r, c) PROVE NoGhosts'
  BY <1>27 DEF Kick, Finish, Request, NoGhosts, TypeOK, PurgeShape, LeaversQuiet,
         Unauthenticated, Taking, Tasks, Listed, HandlingPcs
<1>28. ASSUME NEW c \in Clients, Kill(c) PROVE NoGhosts'
  BY <1>28 DEF Kill, roomVars, StartPurge, Request, NoGhosts, TypeOK, PurgeShape,
         LeaversQuiet, Unauthenticated, Taking, Tasks, Listed, HandlingPcs
<1>29. ASSUME SendtoWallops PROVE NoGhosts'
  BY <1>29
     DEF SendtoWallops, roomVars, purgeVars, Finish, NoGhosts, TypeOK, PurgeShape,
         LeaversQuiet, Unauthenticated, Taking, Tasks, Listed, HandlingPcs
<1>30. ASSUME NEW r \in Rooms, NEW modes \in SUBSET ChannelOptions,
              SetChannelModes(r, modes)
       PROVE  NoGhosts'
  BY <1>30
     DEF SetChannelModes, purgeVars, Finish, Request, NoGhosts, TypeOK, PurgeShape,
         LeaversQuiet, Unauthenticated, Taking, Tasks, Listed, HandlingPcs
<1>31. ASSUME NEW gone \in SUBSET Clients, HealthScan(gone) PROVE NoGhosts'
  BY <1>31
     DEF HealthScan, roomVars, purgeVars, NoGhosts, TypeOK, PurgeShape, LeaversQuiet,
         Unauthenticated, Taking, Tasks, Listed, HandlingPcs
<1>32. ASSUME NEW c \in Clients, HealthNext(c) PROVE NoGhosts'
  BY <1>32
     DEF HealthNext, roomVars, purgeVars, StartPurge, NoGhosts, TypeOK, PurgeShape,
         LeaversQuiet, Unauthenticated, Taking, Tasks, Listed, HandlingPcs
<1>33. ASSUME LockServer PROVE NoGhosts'
  BY <1>33 DEF LockServer, roomVars, purgeVars, Request, NoGhosts, TypeOK, PurgeShape,
         LeaversQuiet, Unauthenticated, Taking, Tasks, Listed, HandlingPcs
<1> QED
  BY <1>1, <1>2, <1>3, <1>4, <1>5, <1>6, <1>7, <1>8, <1>9, <1>10, <1>11, <1>12, <1>13,
     <1>14, <1>15, <1>16, <1>17, <1>18, <1>19, <1>20, <1>21, <1>22, <1>23, <1>24, <1>25,
     <1>26, <1>27, <1>28, <1>29, <1>30, <1>31, <1>32, <1>33, ConstantsAssumption
     DEF Next, ConnectionStep, PurgeStep, DispatcherStep, HealthStep, AuthAccepted,
         Tasks

-----------------------------------------------------------------------------

\* A channel in the hands of a purge loop has been created.
LEMMA RoomsExistStep ==
    ASSUME TypeOK, PurgeShape, RoomsExist, Next
    PROVE  RoomsExist'
<1>1. ASSUME NEW c \in Clients, AddClient(c) PROVE RoomsExist'
  BY <1>1
     DEF AddClient, roomVars, taskVars, purgeVars, RoomsExist, TypeOK, PurgeShape,
         Taking, Tasks, Listed, RoomPcs
<1>2. ASSUME NEW c \in Clients, Refind(c) PROVE RoomsExist'
  BY <1>2 DEF Refind, roomVars, taskVars, purgeVars, RoomsExist, TypeOK, PurgeShape,
         Taking, Tasks, Listed, RoomPcs
<1>3. ASSUME NEW c \in Clients, Send(c) PROVE RoomsExist'
  BY <1>3
     DEF Send, roomVars, purgeVars, RoomsExist, TypeOK, PurgeShape, Taking, Tasks,
         Listed, RoomPcs
<1>4. ASSUME NEW c \in Clients, ReadFails(c) PROVE RoomsExist'
  BY <1>4 DEF ReadFails, roomVars, StartPurge, RoomsExist, TypeOK, PurgeShape, Taking,
         Tasks, Listed, RoomPcs
<1>5. ASSUME NEW c \in Clients, StreamEnds(c) PROVE RoomsExist'
  BY <1>5
     DEF StreamEnds, roomVars, taskVars, purgeVars, RoomsExist, TypeOK, PurgeShape,
         Taking, Tasks, Listed, RoomPcs
<1>6. ASSUME NEW t \in Tasks, Snapshot(t) PROVE RoomsExist'
  BY <1>6 DEF Snapshot, roomVars, taskVars, Advance, RoomsExist, TypeOK, PurgeShape,
         Taking, Tasks, Listed, RoomPcs
<1>7. ASSUME NEW t \in Tasks, NextRoom(t) PROVE RoomsExist'
  BY <1>7 DEF NextRoom, roomVars, taskVars, Advance, RoomsExist, TypeOK, PurgeShape,
         Taking, Tasks, Listed, RoomPcs
<1>8. ASSUME NEW t \in Tasks, RemoveMember(t) PROVE RoomsExist'
  BY <1>8
     DEF RemoveMember, Advance, RoomsExist, TypeOK, PurgeShape, Taking, Tasks, Listed,
         RoomPcs
<1>9. ASSUME NEW t \in Tasks, ReadPersist(t) PROVE RoomsExist'
  BY <1>9
     DEF ReadPersist, roomVars, taskVars, Advance, RoomsExist, TypeOK, PurgeShape,
         Taking, Tasks, Listed, RoomPcs
<1>10. ASSUME NEW t \in Tasks, CountMembers(t) PROVE RoomsExist'
  BY <1>10
     DEF CountMembers, roomVars, taskVars, Advance, RoomsExist, TypeOK, PurgeShape,
         Taking, Tasks, Listed, RoomPcs
<1>11. ASSUME NEW t \in Tasks, RemoveChannel(t) PROVE RoomsExist'
  BY <1>11 DEF RemoveChannel, Advance, RoomsExist, TypeOK, PurgeShape, Taking, Tasks,
         Listed, RoomPcs
<1>12. ASSUME NEW t \in Tasks, LoopEnds(t) PROVE RoomsExist'
  BY <1>12 DEF LoopEnds, roomVars, taskVars, Advance, RoomsExist, TypeOK, PurgeShape,
         Taking, Tasks, Listed, RoomPcs
<1>13. ASSUME NEW t \in Tasks, ClearChannels(t) PROVE RoomsExist'
  BY <1>13
     DEF ClearChannels, roomVars, Advance, RoomsExist, TypeOK, PurgeShape, Taking,
         Tasks, Listed, RoomPcs
<1>14. ASSUME NEW t \in Tasks, RemoveClient(t) PROVE RoomsExist'
  BY <1>14
     DEF RemoveClient, roomVars, Advance, RoomsExist, TypeOK, PurgeShape, Taking,
         Tasks, Listed, RoomPcs
<1>15. ASSUME Receive PROVE RoomsExist'
  BY <1>15
     DEF Receive, roomVars, purgeVars, RoomsExist, TypeOK, PurgeShape, Taking, Tasks,
         Listed, RoomPcs
<1>16. ASSUME NoEffect PROVE RoomsExist'
  BY <1>16 DEF NoEffect, roomVars, purgeVars, Finish, RoomsExist, TypeOK, PurgeShape,
         Taking, Tasks, Listed, RoomPcs
<1>17. ASSUME NEW kind \in {"guest", "agent"}, AuthStart(kind) PROVE RoomsExist'
  BY <1>17 DEF AuthStart, roomVars, purgeVars, RoomsExist, TypeOK, PurgeShape, Taking,
         Tasks, Listed, RoomPcs
<1>18. ASSUME NEW kind \in {"guest", "agent"}, NEW opts \in SUBSET ClientOptions,
              Accept(kind, opts)
       PROVE  RoomsExist'
  BY <1>18
     DEF Accept, roomVars, purgeVars, RoomsExist, TypeOK, PurgeShape, Taking, Tasks,
         Listed, RoomPcs
<1>19. ASSUME AuthInvalid PROVE RoomsExist'
  BY <1>19
     DEF AuthInvalid, roomVars, purgeVars, Finish, RoomsExist, TypeOK, PurgeShape,
         Taking, Tasks, Listed, RoomPcs
<1>20. ASSUME AutoJoin PROVE RoomsExist'
  BY <1>20
     DEF AutoJoin, purgeVars, RoomsExist, TypeOK, PurgeShape, Taking, Tasks, Listed,
         RoomPcs
<1>21. ASSUME AutoJoinPanics PROVE RoomsExist'
  BY <1>21
     DEF AutoJoinPanics, roomVars, purgeVars, RoomsExist, TypeOK, PurgeShape, Taking,
         Tasks, Listed, RoomPcs
<1>22. ASSUME AuthDone PROVE RoomsExist'
  BY <1>22 DEF AuthDone, roomVars, purgeVars, Finish, RoomsExist, TypeOK, PurgeShape,
         Taking, Tasks, Listed, RoomPcs
<1>23. ASSUME BadRequest PROVE RoomsExist'
  BY <1>23
     DEF BadRequest, roomVars, StartPurge, RoomsExist, TypeOK, PurgeShape, Taking,
         Tasks, Listed, RoomPcs
<1>24. ASSUME NEW r \in Rooms, JoinExisting(r) PROVE RoomsExist'
  BY <1>24
     DEF JoinExisting, purgeVars, UnderServer, RoomsExist, TypeOK, PurgeShape, Taking,
         Tasks, Listed, RoomPcs
<1>25. ASSUME NEW r \in Rooms, JoinCreate(r) PROVE RoomsExist'
  BY <1>25 DEF JoinCreate, purgeVars, UnderServer, RoomsExist, TypeOK, PurgeShape, Taking,
         Tasks, Listed, RoomPcs
<1>26. ASSUME NEW r \in Rooms, Part(r) PROVE RoomsExist'
  BY <1>26
     DEF Part, purgeVars, Finish, UnderServer, RoomsExist, TypeOK, PurgeShape, Taking,
         Tasks, Listed, RoomPcs
<1>27. ASSUME NEW r \in Rooms, NEW c \in Clients, Kick(r, c) PROVE RoomsExist'
  BY <1>27
     DEF Kick, purgeVars, Request, RoomsExist, TypeOK, PurgeShape, Taking, Tasks,
         Listed, RoomPcs
<1>28. ASSUME NEW c \in Clients, Kill(c) PROVE RoomsExist'
  BY <1>28
     DEF Kill, roomVars, StartPurge, Request, RoomsExist, TypeOK, PurgeShape, Taking,
         Tasks, Listed, RoomPcs
<1>29. ASSUME SendtoWallops PROVE RoomsExist'
  BY <1>29
     DEF SendtoWallops, roomVars, purgeVars, Finish, RoomsExist, TypeOK, PurgeShape,
         Taking, Tasks, Listed, RoomPcs
<1>30. ASSUME NEW r \in Rooms, NEW modes \in SUBSET ChannelOptions,
              SetChannelModes(r, modes)
       PROVE  RoomsExist'
  BY <1>30
     DEF SetChannelModes, purgeVars, Finish, Request, RoomsExist, TypeOK, PurgeShape,
         Taking, Tasks, Listed, RoomPcs
<1>31. ASSUME NEW gone \in SUBSET Clients, HealthScan(gone) PROVE RoomsExist'
  BY <1>31
     DEF HealthScan, roomVars, purgeVars, RoomsExist, TypeOK, PurgeShape, Taking,
         Tasks, Listed, RoomPcs
<1>32. ASSUME NEW c \in Clients, HealthNext(c) PROVE RoomsExist'
  BY <1>32
     DEF HealthNext, roomVars, purgeVars, StartPurge, RoomsExist, TypeOK, Taking,
         Tasks, Listed, RoomPcs
<1>33. ASSUME LockServer PROVE RoomsExist'
  BY <1>33 DEF LockServer, roomVars, purgeVars, Request, RoomsExist, TypeOK, PurgeShape,
         Taking, Tasks, Listed, RoomPcs
<1> QED
  BY <1>1, <1>2, <1>3, <1>4, <1>5, <1>6, <1>7, <1>8, <1>9, <1>10, <1>11, <1>12, <1>13,
     <1>14, <1>15, <1>16, <1>17, <1>18, <1>19, <1>20, <1>21, <1>22, <1>23, <1>24, <1>25,
     <1>26, <1>27, <1>28, <1>29, <1>30, <1>31, <1>32, <1>33, ConstantsAssumption
     DEF Next, ConnectionStep, PurgeStep, DispatcherStep, HealthStep, AuthAccepted,
         Tasks

\* Without mode changes, the Persist that a purge loop read stays what it
\* was.
LEMMA ModeReadStep ==
    ASSUME "Modes" \notin Commands, TypeOK, PurgeShape, RoomsExist, ModeRead, Next
    PROVE  ModeRead'
<1>1. ASSUME NEW c \in Clients, AddClient(c) PROVE ModeRead'
  BY <1>1 DEF AddClient, roomVars, taskVars, purgeVars, ModeRead, RoomsExist, TypeOK,
         PurgeShape, Taking, Tasks, Listed, RoomPcs
<1>2. ASSUME NEW c \in Clients, Refind(c) PROVE ModeRead'
  BY <1>2 DEF Refind, roomVars, taskVars, purgeVars, ModeRead, RoomsExist, TypeOK,
         PurgeShape, Taking, Tasks, Listed, RoomPcs
<1>3. ASSUME NEW c \in Clients, Send(c) PROVE ModeRead'
  BY <1>3
     DEF Send, roomVars, purgeVars, ModeRead, RoomsExist, TypeOK, PurgeShape, Taking,
         Tasks, Listed, RoomPcs
<1>4. ASSUME NEW c \in Clients, ReadFails(c) PROVE ModeRead'
  BY <1>4
     DEF ReadFails, roomVars, StartPurge, ModeRead, RoomsExist, TypeOK, PurgeShape,
         Taking, Tasks, Listed, RoomPcs
<1>5. ASSUME NEW c \in Clients, StreamEnds(c) PROVE ModeRead'
  BY <1>5 DEF StreamEnds, roomVars, taskVars, purgeVars, ModeRead, RoomsExist, TypeOK,
         PurgeShape, Taking, Tasks, Listed, RoomPcs
<1>6. ASSUME NEW t \in Tasks, Snapshot(t) PROVE ModeRead'
  BY <1>6 DEF Snapshot, roomVars, taskVars, Advance, ModeRead, RoomsExist, TypeOK,
         PurgeShape, Taking, Tasks, Listed, RoomPcs
<1>7. ASSUME NEW t \in Tasks, NextRoom(t) PROVE ModeRead'
  BY <1>7 DEF NextRoom, roomVars, taskVars, Advance, ModeRead, RoomsExist, TypeOK,
         PurgeShape, Taking, Tasks, Listed, RoomPcs
<1>8. ASSUME NEW t \in Tasks, RemoveMember(t) PROVE ModeRead'
  BY <1>8 DEF RemoveMember, Advance, ModeRead, RoomsExist, TypeOK, PurgeShape, Taking,
         Tasks, Listed, RoomPcs
<1>9. ASSUME NEW t \in Tasks, ReadPersist(t) PROVE ModeRead'
  BY <1>9 DEF ReadPersist, roomVars, taskVars, Advance, ModeRead, RoomsExist, TypeOK,
         PurgeShape, Taking, Tasks, Listed, RoomPcs
<1>10. ASSUME NEW t \in Tasks, CountMembers(t) PROVE ModeRead'
  BY <1>10
     DEF CountMembers, roomVars, taskVars, Advance, ModeRead, RoomsExist, TypeOK,
         PurgeShape, Taking, Tasks, Listed, RoomPcs
<1>11. ASSUME NEW t \in Tasks, RemoveChannel(t) PROVE ModeRead'
  BY <1>11
     DEF RemoveChannel, Advance, ModeRead, RoomsExist, TypeOK, PurgeShape, Taking,
         Tasks, Listed, RoomPcs
<1>12. ASSUME NEW t \in Tasks, LoopEnds(t) PROVE ModeRead'
  BY <1>12 DEF LoopEnds, roomVars, taskVars, Advance, ModeRead, RoomsExist, TypeOK,
         PurgeShape, Taking, Tasks, Listed, RoomPcs
<1>13. ASSUME NEW t \in Tasks, ClearChannels(t) PROVE ModeRead'
  BY <1>13
     DEF ClearChannels, roomVars, Advance, ModeRead, RoomsExist, TypeOK, PurgeShape,
         Taking, Tasks, Listed, RoomPcs
<1>14. ASSUME NEW t \in Tasks, RemoveClient(t) PROVE ModeRead'
  BY <1>14
     DEF RemoveClient, roomVars, Advance, ModeRead, RoomsExist, TypeOK, PurgeShape,
         Taking, Tasks, Listed, RoomPcs
<1>15. ASSUME Receive PROVE ModeRead'
  BY <1>15 DEF Receive, roomVars, purgeVars, ModeRead, RoomsExist, TypeOK, PurgeShape,
         Taking, Tasks, Listed, RoomPcs
<1>16. ASSUME NoEffect PROVE ModeRead'
  BY <1>16 DEF NoEffect, roomVars, purgeVars, Finish, ModeRead, RoomsExist, TypeOK,
         PurgeShape, Taking, Tasks, Listed, RoomPcs
<1>17. ASSUME NEW kind \in {"guest", "agent"}, AuthStart(kind) PROVE ModeRead'
  BY <1>17
     DEF AuthStart, roomVars, purgeVars, ModeRead, RoomsExist, TypeOK, PurgeShape,
         Taking, Tasks, Listed, RoomPcs
<1>18. ASSUME NEW kind \in {"guest", "agent"}, NEW opts \in SUBSET ClientOptions,
              Accept(kind, opts)
       PROVE  ModeRead'
  BY <1>18 DEF Accept, roomVars, purgeVars, ModeRead, RoomsExist, TypeOK, PurgeShape,
         Taking, Tasks, Listed, RoomPcs
<1>19. ASSUME AuthInvalid PROVE ModeRead'
  BY <1>19 DEF AuthInvalid, roomVars, purgeVars, Finish, ModeRead, RoomsExist, TypeOK,
         PurgeShape, Taking, Tasks, Listed, RoomPcs
<1>20. ASSUME AutoJoin PROVE ModeRead'
  BY <1>20
     DEF AutoJoin, purgeVars, ModeRead, RoomsExist, TypeOK, PurgeShape, Taking, Tasks,
         Listed, RoomPcs
<1>21. ASSUME AutoJoinPanics PROVE ModeRead'
  BY <1>21 DEF AutoJoinPanics, roomVars, purgeVars, ModeRead, RoomsExist, TypeOK,
         PurgeShape, Taking, Tasks, Listed, RoomPcs
<1>22. ASSUME AuthDone PROVE ModeRead'
  BY <1>22 DEF AuthDone, roomVars, purgeVars, Finish, ModeRead, RoomsExist, TypeOK,
         PurgeShape, Taking, Tasks, Listed, RoomPcs
<1>23. ASSUME BadRequest PROVE ModeRead'
  BY <1>23
     DEF BadRequest, roomVars, StartPurge, ModeRead, RoomsExist, TypeOK, PurgeShape,
         Taking, Tasks, Listed, RoomPcs
<1>24. ASSUME NEW r \in Rooms, JoinExisting(r) PROVE ModeRead'
  BY <1>24
     DEF JoinExisting, purgeVars, UnderServer, ModeRead, RoomsExist, TypeOK, PurgeShape,
         Taking, Tasks, Listed, RoomPcs
<1>25. ASSUME NEW r \in Rooms, JoinCreate(r) PROVE ModeRead'
  BY <1>25
     DEF JoinCreate, purgeVars, UnderServer, ModeRead, RoomsExist, TypeOK, PurgeShape,
         Taking, Tasks, Listed, RoomPcs
<1>26. ASSUME NEW r \in Rooms, Part(r) PROVE ModeRead'
  BY <1>26
     DEF Part, purgeVars, Finish, UnderServer, ModeRead, RoomsExist, TypeOK, PurgeShape,
         Taking, Tasks, Listed, RoomPcs
<1>27. ASSUME NEW r \in Rooms, NEW c \in Clients, Kick(r, c) PROVE ModeRead'
  BY <1>27
     DEF Kick, purgeVars, Request, ModeRead, RoomsExist, TypeOK, PurgeShape, Taking,
         Tasks, Listed, RoomPcs
<1>28. ASSUME NEW c \in Clients, Kill(c) PROVE ModeRead'
  BY <1>28 DEF Kill, roomVars, StartPurge, Request, ModeRead, RoomsExist, TypeOK,
         PurgeShape, Taking, Tasks, Listed, RoomPcs
<1>29. ASSUME SendtoWallops PROVE ModeRead'
  BY <1>29
     DEF SendtoWallops, roomVars, purgeVars, Finish, ModeRead, RoomsExist, TypeOK,
         PurgeShape, Taking, Tasks, Listed, RoomPcs
<1>30. ASSUME NEW r \in Rooms, NEW modes \in SUBSET ChannelOptions,
              SetChannelModes(r, modes)
       PROVE  ModeRead'
  BY <1>30 DEF SetChannelModes, Request
<1>31. ASSUME NEW gone \in SUBSET Clients, HealthScan(gone) PROVE ModeRead'
  BY <1>31
     DEF HealthScan, roomVars, purgeVars, ModeRead, RoomsExist, TypeOK, PurgeShape,
         Taking, Tasks, Listed, RoomPcs
<1>32. ASSUME NEW c \in Clients, HealthNext(c) PROVE ModeRead'
  BY <1>32
     DEF HealthNext, roomVars, purgeVars, StartPurge, ModeRead, RoomsExist, TypeOK,
         Taking, Tasks, Listed, RoomPcs
<1>33. ASSUME LockServer PROVE ModeRead'
  BY <1>33 DEF LockServer, roomVars, purgeVars, Request, ModeRead, RoomsExist, TypeOK,
         PurgeShape, Taking, Tasks, Listed, RoomPcs
<1> QED
  BY <1>1, <1>2, <1>3, <1>4, <1>5, <1>6, <1>7, <1>8, <1>9, <1>10, <1>11, <1>12, <1>13,
     <1>14, <1>15, <1>16, <1>17, <1>18, <1>19, <1>20, <1>21, <1>22, <1>23, <1>24, <1>25,
     <1>26, <1>27, <1>28, <1>29, <1>30, <1>31, <1>32, <1>33, ConstantsAssumption
     DEF Next, ConnectionStep, PurgeStep, DispatcherStep, HealthStep, AuthAccepted,
         Tasks

\* Without kicks and mode changes, the step that empties a channel is made by
\* a task that will count its members, and a count that finds none leads to
\* the removal.
LEMMA DoomedStep ==
    ASSUME "Kick" \notin Commands, "Modes" \notin Commands,
           TypeOK, PurgeShape, RoomsExist, ModeRead, EmptyRoomsDoomed, Next
    PROVE  EmptyRoomsDoomed'
<1>1. ASSUME NEW c \in Clients, AddClient(c) PROVE EmptyRoomsDoomed'
  BY <1>1
     DEF AddClient, roomVars, taskVars, purgeVars, EmptyRoomsDoomed, TypeOK, Tasks,
         Listed
<1>2. ASSUME NEW c \in Clients, Refind(c) PROVE EmptyRoomsDoomed'
  BY <1>2 DEF Refind, roomVars, taskVars, purgeVars, EmptyRoomsDoomed, TypeOK, Tasks,
         Listed
<1>3. ASSUME NEW c \in Clients, Send(c) PROVE EmptyRoomsDoomed'
  BY <1>3 DEF Send, roomVars, purgeVars, EmptyRoomsDoomed, TypeOK, Tasks, Listed
<1>4. ASSUME NEW c \in Clients, ReadFails(c) PROVE EmptyRoomsDoomed'
  <2>1. c \in Tasks /\ purging[c] = "off"
    BY <1>4 DEF ReadFails, PurgeShape, Taking, Tasks
  <2>2. UNCHANGED <<life, members, options, room>>
    BY <1>4 DEF ReadFails, roomVars, StartPurge, purgeVars
  <2>3. \A u \in Tasks : u # c => purging'[u] = purging[u]
    BY <1>4, <2>1 DEF ReadFails, StartPurge, TypeOK
  <2>4. QED BY <2>1, <2>2, <2>3 DEF EmptyRoomsDoomed, Listed
<1>5. ASSUME NEW c \in Clients, StreamEnds(c) PROVE EmptyRoomsDoomed'
  BY <1>5
     DEF StreamEnds, roomVars, taskVars, purgeVars, EmptyRoomsDoomed, TypeOK, Tasks,
         Listed
<1>6. ASSUME NEW t \in Tasks, Snapshot(t) PROVE EmptyRoomsDoomed'
  BY <1>6 DEF Snapshot, roomVars, taskVars, Advance, EmptyRoomsDoomed, TypeOK, Tasks,
         Listed
<1>7. ASSUME NEW t \in Tasks, NextRoom(t) PROVE EmptyRoomsDoomed'
  <2> SUFFICES ASSUME NEW s \in Listed', members'[s] = {}, "Persist" \notin options'[s]
               PROVE  \E u \in Tasks : room'[u] = s /\ purging'[u] \in {"mode", "count", "destroy"}
    BY DEF EmptyRoomsDoomed
  <2>1. PICK u \in Tasks : room[u] = s /\ purging[u] \in {"mode", "count", "destroy"}
    BY <1>7 DEF NextRoom, roomVars, EmptyRoomsDoomed, Listed
  <2>2. u # t
    BY <1>7, <2>1 DEF NextRoom
  <2>3. room'[u] = room[u] /\ purging'[u] = purging[u]
    BY <1>7, <2>2 DEF NextRoom, Advance
  <2>4. QED BY <2>1, <2>3
<1>8. ASSUME NEW t \in Tasks, RemoveMember(t) PROVE EmptyRoomsDoomed'
  <2> SUFFICES ASSUME NEW s \in Listed', members'[s] = {}, "Persist" \notin options'[s]
               PROVE  \E u \in Tasks : room'[u] = s /\ purging'[u] \in {"mode", "count", "destroy"}
    BY DEF EmptyRoomsDoomed
  <2>1. CASE s = room[t]
    BY <1>8, <2>1 DEF RemoveMember, Advance, TypeOK
  <2>2. CASE s # room[t]
    <3>1. members'[s] = members[s]
      BY <1>8, <2>2 DEF RemoveMember
    <3>2. s \in Listed /\ members[s] = {} /\ "Persist" \notin options[s]
      BY <1>8, <3>1 DEF RemoveMember, Listed
    <3>3. PICK u \in Tasks : room[u] = s /\ purging[u] \in {"mode", "count", "destroy"}
      BY <3>2 DEF EmptyRoomsDoomed
    <3>4. u # t
      BY <1>8, <2>2, <3>3
    <3>5. purging'[u] = purging[u] /\ room'[u] = room[u]
      BY <1>8, <3>4 DEF RemoveMember, Advance
    <3>6. QED BY <3>3, <3>5
  <2>3. QED BY <2>1, <2>2
<1>9. ASSUME NEW t \in Tasks, ReadPersist(t) PROVE EmptyRoomsDoomed'
  BY <1>9
     DEF ReadPersist, roomVars, taskVars, Advance, EmptyRoomsDoomed, TypeOK, Tasks,
         Listed, RoomPcs
<1>10. ASSUME NEW t \in Tasks, CountMembers(t) PROVE EmptyRoomsDoomed'
  BY <1>10
     DEF CountMembers, roomVars, taskVars, Advance, EmptyRoomsDoomed, TypeOK, Tasks,
         Listed
<1>11. ASSUME NEW t \in Tasks, RemoveChannel(t) PROVE EmptyRoomsDoomed'
  BY <1>11 DEF RemoveChannel, Advance, EmptyRoomsDoomed, TypeOK, Tasks, Listed
<1>12. ASSUME NEW t \in Tasks, LoopEnds(t) PROVE EmptyRoomsDoomed'
  BY <1>12 DEF LoopEnds, roomVars, taskVars, Advance, EmptyRoomsDoomed, TypeOK, Tasks,
         Listed
<1>13. ASSUME NEW t \in Tasks, ClearChannels(t) PROVE EmptyRoomsDoomed'
  BY <1>13 DEF ClearChannels, roomVars, Advance, EmptyRoomsDoomed, TypeOK, Tasks, Listed
<1>14. ASSUME NEW t \in Tasks, RemoveClient(t) PROVE EmptyRoomsDoomed'
  BY <1>14 DEF RemoveClient, roomVars, Advance, EmptyRoomsDoomed, TypeOK, Tasks, Listed
<1>15. ASSUME Receive PROVE EmptyRoomsDoomed'
  BY <1>15 DEF Receive, roomVars, purgeVars, EmptyRoomsDoomed, TypeOK, Tasks, Listed
<1>16. ASSUME NoEffect PROVE EmptyRoomsDoomed'
  BY <1>16 DEF NoEffect, roomVars, purgeVars, Finish, EmptyRoomsDoomed, TypeOK, Tasks,
         Listed
<1>17. ASSUME NEW kind \in {"guest", "agent"}, AuthStart(kind) PROVE EmptyRoomsDoomed'
  BY <1>17 DEF AuthStart, roomVars, purgeVars, EmptyRoomsDoomed, TypeOK, Tasks, Listed
<1>18. ASSUME NEW kind \in {"guest", "agent"}, NEW opts \in SUBSET ClientOptions,
              Accept(kind, opts)
       PROVE  EmptyRoomsDoomed'
  BY <1>18 DEF Accept, roomVars, purgeVars, EmptyRoomsDoomed, TypeOK, Tasks, Listed
<1>19. ASSUME AuthInvalid PROVE EmptyRoomsDoomed'
  BY <1>19
     DEF AuthInvalid, roomVars, purgeVars, Finish, EmptyRoomsDoomed, TypeOK, Tasks,
         Listed
<1>20. ASSUME AutoJoin PROVE EmptyRoomsDoomed'
  <2>1. CASE \E r \in Rooms : members' = [members EXCEPT ![r] = @ \cup {dclient}]
    BY <1>20, <2>1 DEF AutoJoin, purgeVars, EmptyRoomsDoomed, Listed
  <2>2. CASE UNCHANGED members
    BY <1>20, <2>2 DEF AutoJoin, purgeVars, EmptyRoomsDoomed, Listed
  <2>3. QED BY <1>20, <2>1, <2>2 DEF AutoJoin, Listed
<1>21. ASSUME AutoJoinPanics PROVE EmptyRoomsDoomed'
  BY <1>21
     DEF AutoJoinPanics, roomVars, purgeVars, EmptyRoomsDoomed, TypeOK, Tasks, Listed
<1>22. ASSUME AuthDone PROVE EmptyRoomsDoomed'
  BY <1>22 DEF AuthDone, roomVars, purgeVars, Finish, EmptyRoomsDoomed, TypeOK, Tasks,
         Listed
<1>23. ASSUME BadRequest PROVE EmptyRoomsDoomed'
  <2>1. Dispatcher \in Tasks /\ purging[Dispatcher] = "off"
    BY <1>23 DEF BadRequest, PurgeShape, Taking, Tasks
  <2>2. UNCHANGED <<life, members, options, room>>
    BY <1>23 DEF BadRequest, roomVars, StartPurge, purgeVars
  <2>3. \A u \in Tasks : u # Dispatcher => purging'[u] = purging[u]
    BY <1>23, <2>1 DEF BadRequest, StartPurge, TypeOK
  <2>4. QED BY <2>1, <2>2, <2>3 DEF EmptyRoomsDoomed, Listed
<1>24. ASSUME NEW r \in Rooms, JoinExisting(r) PROVE EmptyRoomsDoomed'
  BY <1>24 DEF JoinExisting, purgeVars, UnderServer, EmptyRoomsDoomed, TypeOK, Tasks, Listed
<1>25. ASSUME NEW r \in Rooms, JoinCreate(r) PROVE EmptyRoomsDoomed'
  <2> SUFFICES ASSUME NEW s \in Listed', members'[s] = {}, "Persist" \notin options'[s]
               PROVE  \E u \in Tasks : room'[u] = s /\ purging'[u] \in {"mode", "count", "destroy"}
    BY DEF EmptyRoomsDoomed
  <2>1. s \in Listed /\ members[s] = {} /\ "Persist" \notin options[s]
    BY <1>25 DEF JoinCreate, TypeOK, Listed
  <2>2. QED BY <1>25, <2>1 DEF JoinCreate, purgeVars, EmptyRoomsDoomed
<1>26. ASSUME NEW r \in Rooms, Part(r) PROVE EmptyRoomsDoomed'
  BY <1>26 DEF Part, purgeVars, Finish, UnderServer, EmptyRoomsDoomed, TypeOK, Tasks, Listed
<1>27. ASSUME NEW r \in Rooms, NEW c \in Clients, Kick(r, c) PROVE EmptyRoomsDoomed'
  BY <1>27 DEF Kick, Request
<1>28. ASSUME NEW c \in Clients, Kill(c) PROVE EmptyRoomsDoomed'
  <2>1. Dispatcher \in Tasks /\ purging[Dispatcher] = "off"
    BY <1>28 DEF Kill, PurgeShape, Taking, Tasks, Request
  <2>2. UNCHANGED <<life, members, options, room>>
    BY <1>28 DEF Kill, roomVars, StartPurge, purgeVars
  <2>3. \A u \in Tasks : u # Dispatcher => purging'[u] = purging[u]
    BY <1>28, <2>1 DEF Kill, StartPurge, TypeOK
  <2>4. QED BY <2>1, <2>2, <2>3 DEF EmptyRoomsDoomed, Listed
<1>29. ASSUME SendtoWallops PROVE EmptyRoomsDoomed'
  BY <1>29
     DEF SendtoWallops, roomVars, purgeVars, Finish, EmptyRoomsDoomed, TypeOK, Tasks,
         Listed
<1>30. ASSUME NEW r \in Rooms, NEW modes \in SUBSET ChannelOptions,
              SetChannelModes(r, modes)
       PROVE  EmptyRoomsDoomed'
  BY <1>30 DEF SetChannelModes, Request
<1>31. ASSUME NEW gone \in SUBSET Clients, HealthScan(gone) PROVE EmptyRoomsDoomed'
  BY <1>31 DEF HealthScan, roomVars, purgeVars, EmptyRoomsDoomed, TypeOK, Tasks, Listed
<1>32. ASSUME NEW c \in Clients, HealthNext(c) PROVE EmptyRoomsDoomed'
  <2>1. Health \in Tasks /\ purging[Health] = "off"
    BY <1>32 DEF HealthNext, Taking, Tasks
  <2>2. UNCHANGED <<life, members, options, room>>
    BY <1>32 DEF HealthNext, roomVars, StartPurge, purgeVars
  <2>3. \A u \in Tasks : u # Health => purging'[u] = purging[u]
    BY <1>32, <2>1 DEF HealthNext, StartPurge, purgeVars, TypeOK
  <2>4. QED BY <2>1, <2>2, <2>3 DEF EmptyRoomsDoomed, Listed
<1>33. ASSUME LockServer PROVE EmptyRoomsDoomed'
  BY <1>33 DEF LockServer, roomVars, purgeVars, Request, EmptyRoomsDoomed, TypeOK, Tasks,
         Listed
<1> QED
  BY <1>1, <1>2, <1>3, <1>4, <1>5, <1>6, <1>7, <1>8, <1>9, <1>10, <1>11, <1>12, <1>13,
     <1>14, <1>15, <1>16, <1>17, <1>18, <1>19, <1>20, <1>21, <1>22, <1>23, <1>24, <1>25,
     <1>26, <1>27, <1>28, <1>29, <1>30, <1>31, <1>32, <1>33, ConstantsAssumption
     DEF Next, ConnectionStep, PurgeStep, DispatcherStep, HealthStep, AuthAccepted,
         Tasks

-----------------------------------------------------------------------------
\* The invariant holds when the server starts.
LEMMA InvInit == Init => Inv
<1> SUFFICES ASSUME Init PROVE Inv
  OBVIOUS
<1>1. TypeOK
  <2>1. options \in [Rooms -> SUBSET ChannelOptions]
    <3>1. \A n \in LobbyNames : LobbyOptions(n) \subseteq ChannelOptions
      BY DEF LobbyOptions, ChannelOptions
    <3>2. \A r \in InitRooms : RoomName[r] \in LobbyNames
      BY ConstantsAssumption, LobbiesAssumption
    <3>3. QED BY <3>1, <3>2 DEF Init
  <2>2. coptions \in [Clients -> SUBSET ClientOptions]
    BY DEF Init, ClientOptions
  <2>3. QED BY <2>1, <2>2 DEF Init, TypeOK, Statuses, PurgePcs
<1>2. PurgeShape
  BY TasksAssumption DEF Init, PurgeShape, Taking, RoomPcs, HandlingPcs, Tasks
<1>3. Fresh
  BY TasksAssumption DEF Init, Fresh, Pending, Queued, Tasks
<1>4. ListsCover /\ Unauthenticated
  BY DEF Init, ListsCover, Unauthenticated
<1>5. NoGhosts
  BY DEF Init, NoGhosts, Listed
<1>6. RoomsAhead /\ LeaversQuiet
  BY DEF Init, RoomsAhead, LeaversQuiet, Taking, Listed, HandlingPcs, Tasks
<1> QED BY <1>1, <1>2, <1>3, <1>4, <1>5, <1>6 DEF Inv

\* No channel is empty and about to be removed when the server starts: the
\* lobbies persist.
LEMMA DoomedInit == Init => DoomedInv
  BY DEF Init, DoomedInv, RoomsExist, ModeRead, EmptyRoomsDoomed, RoomPcs, Listed,
         LobbyOptions

\* The invariant is inductive.
LEMMA InvStep == Inv /\ [Next]_vars => Inv'
<1> SUFFICES ASSUME Inv, [Next]_vars PROVE Inv'
  OBVIOUS
<1>1. CASE Next
  <2>1. TypeOK' /\ PurgeShape'
    BY <1>1, TypeStep, ShapeStep DEF Inv
  <2>2. Fresh' /\ ListsCover' /\ Unauthenticated'
    BY <1>1, FreshStep, ListsCoverStep, UnauthenticatedStep DEF Inv
  <2>3. CASE Quiet
    <3>1. RoomsAhead' /\ LeaversQuiet'
      BY <1>1, <2>3, RoomsAheadStep, LeaversQuietStep DEF Inv
    <3>2. NoGhosts'
      BY <1>1, <2>3, NoGhostsStep DEF Inv
    <3>3. QED BY <2>1, <2>2, <3>1, <3>2 DEF Inv
  <2>4. CASE ~Quiet
    BY <2>1, <2>2, <2>4 DEF Inv, NoGhosts
  <2>5. QED BY <2>3, <2>4
<1>2. CASE UNCHANGED vars
  <2>1. TypeOK' /\ PurgeShape' /\ Fresh'
    BY <1>2
       DEF Inv, vars, clientVars, roomVars, taskVars, purgeVars, TypeOK, PurgeShape,
           Fresh, Taking, Pending, Queued
  <2>2. ListsCover' /\ Unauthenticated' /\ NoGhosts'
    BY <1>2 DEF Inv, vars, clientVars, roomVars, taskVars, purgeVars, ListsCover,
           Unauthenticated, NoGhosts, Listed
  <2>3. Quiet => RoomsAhead' /\ LeaversQuiet'
    BY <1>2 DEF Inv, vars, clientVars, roomVars, taskVars, purgeVars, RoomsAhead,
           LeaversQuiet, Taking, Pending, Queued, Listed
  <2>4. QED BY <2>1, <2>2, <2>3 DEF Inv
<1>3. QED BY <1>1, <1>2

\* The invariant always holds.
LEMMA InvAlways == Spec => []Inv
  BY InvInit, InvStep, PTL DEF Spec

\* Every variable of the server always has the type the code declares.
THEOREM TypeCorrect == Spec => []TypeOK
<1>1. Inv => TypeOK
  BY DEF Inv
<1>2. QED BY <1>1, InvAlways, PTL

\* A registered client that no task is taking out has every channel it is a
\* member of in its own list, for any number of clients, channels and requests:
\* the list the purge loops copy leaves out no membership.
THEOREM CoveredAlways == Spec => []Covered
<1>1. Inv => Covered
  <2> SUFFICES ASSUME Inv, NEW c \in clients, \A t \in Tasks : who[t] # c,
                      NEW r \in Rooms, c \in members[r]
               PROVE  r \in chanlist[c]
    BY DEF Covered
  <2>1. c \in Clients
    BY DEF Inv, TypeOK
  <2>2. QED BY <2>1 DEF Inv, ListsCover
<1>2. QED BY <1>1, InvAlways, PTL

\* No listed channel keeps a member that has left the server, if clients leave
\* only while none of their requests is pending: the three purge loops, however
\* they interleave, and whoever of them takes the same client out twice, remove
\* every membership before the client.
THEOREM NoGhostsAlways == Spec => []NoGhosts
<1>1. Inv => NoGhosts
  BY DEF Inv
<1>2. QED BY <1>1, InvAlways, PTL

\* No step changes the type or the options of a client that has authenticated.
\* The dispatcher checks the status before it releases the client for the
\* lookup of the name, and does not check it again: it need not, because no
\* other task authenticates.
THEOREM PrivilegesFixedAlways == Spec => PrivilegesFixed
<1> DEFINE Same == \A c \in Clients : ctype[c] # "None" =>
                       ctype'[c] = ctype[c] /\ coptions'[c] = coptions[c]
<1>1. Inv /\ [Next]_vars => [Same]_vars
  <2> SUFFICES ASSUME Inv, Next PROVE Same
    OBVIOUS
  <2>1. ASSUME NEW kind \in {"guest", "agent"}, NEW opts, Accept(kind, opts) PROVE Same
    <3>1. dclient \in Clients /\ ctype[dclient] = "None"
      BY <2>1 DEF Accept, Inv, PurgeShape, HandlingPcs, Unauthenticated
    <3>2. QED BY <2>1, <3>1 DEF Accept, Inv, TypeOK
  <2>2. CASE UNCHANGED <<ctype, coptions>>
    BY <2>2
  <2>3. \/ \E kind \in {"guest", "agent"} : \E opts : Accept(kind, opts)
        \/ UNCHANGED <<ctype, coptions>>
    <3>1. ASSUME NEW t \in Tasks, PurgeStep(t) PROVE UNCHANGED <<ctype, coptions>>
      BY <3>1
         DEF PurgeStep, Snapshot, NextRoom, RemoveMember, ReadPersist, CountMembers,
             RemoveChannel, LoopEnds, ClearChannels, RemoveClient, clientVars
    <3>2. ASSUME NEW c \in Clients, ConnectionStep(c) PROVE UNCHANGED <<ctype, coptions>>
      BY <3>1, <3>2
         DEF ConnectionStep, AddClient, Refind, Send, ReadFails, StreamEnds,
             clientVars, Tasks
    <3>3. CASE HealthStep
      BY <3>1, <3>3 DEF HealthStep, HealthScan, HealthNext, clientVars, Tasks
    <3>4. CASE DispatcherStep
      BY <3>1, <3>4
         DEF DispatcherStep, AuthAccepted, Receive, NoEffect, LockServer, AuthStart,
             AuthInvalid, AutoJoin, AutoJoinPanics, AuthDone, BadRequest, JoinExisting, JoinCreate,
             Part, Kick, Kill, SendtoWallops, SetChannelModes, clientVars, Tasks
    <3>5. QED BY <3>2, <3>3, <3>4 DEF Next
  <2>4. QED BY <2>1, <2>2, <2>3
<1>2. QED BY <1>1, InvAlways, PTL DEF Spec, PrivilegesFixed

\* Without kicks and mode changes, DoomedInv is inductive relative to Inv.
LEMMA DoomedInvStep ==
    ASSUME "Kick" \notin Commands, "Modes" \notin Commands
    PROVE  Inv /\ DoomedInv /\ [Next]_vars => DoomedInv'
<1> SUFFICES ASSUME Inv, DoomedInv, [Next]_vars PROVE DoomedInv'
  OBVIOUS
<1>1. CASE Next
  BY <1>1, RoomsExistStep, ModeReadStep, DoomedStep DEF Inv, DoomedInv
<1>2. CASE UNCHANGED vars
  BY <1>2
     DEF vars, roomVars, purgeVars, DoomedInv, RoomsExist, ModeRead, EmptyRoomsDoomed,
         Listed
<1>3. QED BY <1>1, <1>2

\* Where nobody kicks and nobody changes modes, a listed channel without
\* members and without Persist is always in the hands of a task that is about
\* to remove it, or to count again: the removal of the last member, the check of
\* the modes and the count are separate critical sections, and still no
\* interleaving of the loops with joins and parts forgets an empty channel.
THEOREM EmptyRoomsDoomedAlways ==
    ASSUME "Kick" \notin Commands, "Modes" \notin Commands
    PROVE  Spec => []EmptyRoomsDoomed
<1>1. Inv /\ DoomedInv /\ [Next]_vars => DoomedInv'
  BY DoomedInvStep
<1>2. DoomedInv => EmptyRoomsDoomed
  BY DEF DoomedInv
<1>3. QED BY <1>1, <1>2, InvAlways, DoomedInit, PTL DEF Spec

-----------------------------------------------------------------------------
\* The same for AgentRooms, where nobody changes modes: only the staff lobby is
\* for agents only, and only an agent has it ahead of it after authenticating.
AgentInv ==
    /\ AgentRooms
    /\ \A r \in Rooms : "AgentOnly" \in options[r] => RoomName[r] = "Staff Lobby"
    /\ dpc = "lobby" => \A i \in 1 .. Len(lobbies) :
                           lobbies[i] = "Staff Lobby" => IsAgent(dclient)

\* The elements of a pair are its components.
LEMMA PairElements ==
    \A a, b, m : m = <<a, b>> => \A i \in 1 .. Len(m) : m[i] = a \/ m[i] = b
<1>1. \A a, b, m : m = <<a, b>> => Len(m) = 2 /\ m[1] = a /\ m[2] = b
  OBVIOUS
<1>2. SUFFICES ASSUME NEW a, NEW b, NEW m, Len(m) = 2, m[1] = a, m[2] = b,
                      NEW i \in 1 .. Len(m)
               PROVE  m[i] = a \/ m[i] = b
  BY <1>1
<1>3. i = 1 \/ i = 2
  BY <1>2
<1>4. QED BY <1>2, <1>3

\* The staff lobby is not among the lobbies that a guest joins.
LEMMA GuestLobbies ==
    \A m : m = <<"Global Lobby", "Guest Lobby">> =>
              \A i \in 1 .. Len(m) : m[i] # "Staff Lobby"
<1>1. SUFFICES ASSUME NEW m, m = <<"Global Lobby", "Guest Lobby">>,
                      NEW i \in 1 .. Len(m)
               PROVE  m[i] # "Staff Lobby"
  OBVIOUS
<1>2. m[i] = "Global Lobby" \/ m[i] = "Guest Lobby"
  <2>1. \A a, b : m = <<a, b>> => m[i] = a \/ m[i] = b
    BY PairElements
  <2>2. m = <<"Global Lobby", "Guest Lobby">> => m[i] = "Global Lobby" \/ m[i] = "Guest Lobby"
    BY <2>1, Zenon
  <2>3. QED BY <1>1, <2>2, Zenon
<1>3. "Global Lobby" # "Staff Lobby" /\ "Guest Lobby" # "Staff Lobby"
  BY Zenon
<1>4. QED BY <1>2, <1>3, Zenon

\* Every action keeps AgentInv: a guest has no way to the channels for
\* agents.
LEMMA AgentStep ==
    ASSUME "Modes" \notin Commands, TypeOK, PurgeShape, Unauthenticated, AgentInv, Next
    PROVE  AgentInv'
<1>1. ASSUME NEW c \in Clients, AddClient(c) PROVE AgentInv'
  BY <1>1
     DEF AddClient, clientVars, roomVars, taskVars, purgeVars, AgentInv, AgentRooms,
         IsAgent
<1>2. ASSUME NEW c \in Clients, Refind(c) PROVE AgentInv'
  BY <1>2 DEF Refind, clientVars, roomVars, taskVars, purgeVars, AgentInv, AgentRooms,
         IsAgent
<1>3. ASSUME NEW c \in Clients, Send(c) PROVE AgentInv'
  BY <1>3 DEF Send, clientVars, roomVars, purgeVars, AgentInv, AgentRooms, IsAgent
<1>4. ASSUME NEW c \in Clients, ReadFails(c) PROVE AgentInv'
  BY <1>4 DEF ReadFails, roomVars, taskVars, StartPurge, AgentInv, AgentRooms, IsAgent
<1>5. ASSUME NEW c \in Clients, StreamEnds(c) PROVE AgentInv'
  BY <1>5
     DEF StreamEnds, clientVars, roomVars, taskVars, purgeVars, AgentInv, AgentRooms,
         IsAgent
<1>6. ASSUME NEW t \in Tasks, Snapshot(t) PROVE AgentInv'
  BY <1>6 DEF Snapshot, clientVars, roomVars, taskVars, Advance, AgentInv, AgentRooms,
         IsAgent
<1>7. ASSUME NEW t \in Tasks, NextRoom(t) PROVE AgentInv'
  BY <1>7 DEF NextRoom, clientVars, roomVars, taskVars, Advance, AgentInv, AgentRooms,
         IsAgent
<1>8. ASSUME NEW t \in Tasks, RemoveMember(t) PROVE AgentInv'
  BY <1>8
     DEF RemoveMember, clientVars, taskVars, Advance, AgentInv, AgentRooms, IsAgent,
         TypeOK
<1>9. ASSUME NEW t \in Tasks, ReadPersist(t) PROVE AgentInv'
  BY <1>9
     DEF ReadPersist, clientVars, roomVars, taskVars, Advance, AgentInv, AgentRooms,
         IsAgent
<1>10. ASSUME NEW t \in Tasks, CountMembers(t) PROVE AgentInv'
  BY <1>10
     DEF CountMembers, clientVars, roomVars, taskVars, Advance, AgentInv, AgentRooms,
         IsAgent
<1>11. ASSUME NEW t \in Tasks, RemoveChannel(t) PROVE AgentInv'
  BY <1>11
     DEF RemoveChannel, clientVars, taskVars, Advance, AgentInv, AgentRooms, IsAgent
<1>12. ASSUME NEW t \in Tasks, LoopEnds(t) PROVE AgentInv'
  BY <1>12
     DEF LoopEnds, clientVars, roomVars, taskVars, Advance, AgentInv, AgentRooms,
         IsAgent
<1>13. ASSUME NEW t \in Tasks, ClearChannels(t) PROVE AgentInv'
  BY <1>13 DEF ClearChannels, roomVars, taskVars, Advance, AgentInv, AgentRooms, IsAgent
<1>14. ASSUME NEW t \in Tasks, RemoveClient(t) PROVE AgentInv'
  BY <1>14
     DEF RemoveClient, clientVars, roomVars, Advance, AgentInv, AgentRooms, IsAgent,
         PurgeShape, Taking
<1>15. ASSUME Receive PROVE AgentInv'
  BY <1>15 DEF Receive, clientVars, roomVars, purgeVars, AgentInv, AgentRooms, IsAgent
<1>16. ASSUME NoEffect PROVE AgentInv'
  BY <1>16
     DEF NoEffect, clientVars, roomVars, purgeVars, Finish, AgentInv, AgentRooms,
         IsAgent
<1>17. ASSUME NEW kind \in {"guest", "agent"}, AuthStart(kind) PROVE AgentInv'
  BY <1>17 DEF AuthStart, clientVars, roomVars, purgeVars, AgentInv, AgentRooms, IsAgent
<1>18. ASSUME NEW kind \in {"guest", "agent"}, NEW opts \in SUBSET ClientOptions,
              Accept(kind, opts)
       PROVE  AgentInv'
  <2>1. dclient \in Clients /\ ctype[dclient] = "None"
    BY <1>18 DEF Accept, PurgeShape, HandlingPcs, Unauthenticated
  <2>2. \A c \in Clients : IsAgent(c) => IsAgent(c)'
    BY <1>18, <2>1 DEF Accept, TypeOK, IsAgent
  <2>3. kind = "agent" => IsAgent(dclient)'
    BY <1>18, <2>1 DEF Accept, TypeOK, IsAgent
  <2>4. kind = "guest" => lobbies' = <<"Global Lobby", "Guest Lobby">>
    BY <1>18 DEF Accept
  <2>5. dclient' = dclient /\ members' = members /\ options' = options
    BY <1>18 DEF Accept, roomVars
  <2>6. AgentRooms'
    BY <2>2, <2>5 DEF AgentInv, AgentRooms, TypeOK
  <2>7. \A i \in 1 .. Len(lobbies') : lobbies'[i] = "Staff Lobby" => IsAgent(dclient)'
    <3>1. CASE kind = "agent"
      BY <2>3, <3>1
    <3>2. CASE kind = "guest"
      <4>1. lobbies' = <<"Global Lobby", "Guest Lobby">>
        BY <2>4, <3>2
      <4>2. QED BY <4>1, GuestLobbies
    <3>3. QED BY <3>1, <3>2
  <2>8. QED BY <2>5, <2>6, <2>7 DEF AgentInv
<1>19. ASSUME AuthInvalid PROVE AgentInv'
  BY <1>19 DEF AuthInvalid, roomVars, purgeVars, Finish, AgentInv, AgentRooms, IsAgent
<1>20. ASSUME AutoJoin PROVE AgentInv'
  <2> DEFINE In(r) == /\ RoomName[r] = Head(lobbies)
                     /\ members' = [members EXCEPT ![r] = @ \cup {dclient}]
  <2>1. lobbies # <<>> /\ dpc = "lobby" /\ lobbies' = Tail(lobbies)
    BY <1>20 DEF AutoJoin
  <2>2. UNCHANGED <<options, ctype, dpc, dclient>>
    BY <1>20 DEF AutoJoin
  <2>3. Head(lobbies) = "Staff Lobby" => IsAgent(dclient)
    <3>1. 1 \in 1 .. Len(lobbies) /\ Head(lobbies) = lobbies[1]
      BY <2>1 DEF TypeOK
    <3>2. QED BY <2>1, <3>1 DEF AgentInv
  <2>4. \A i \in 1 .. Len(lobbies') : lobbies'[i] = "Staff Lobby" => IsAgent(dclient)
    <3>1. \A i \in 1 .. Len(lobbies') : i + 1 \in 1 .. Len(lobbies) /\ lobbies'[i] = lobbies[i + 1]
      BY <2>1 DEF TypeOK
    <3>2. QED BY <2>1, <3>1 DEF AgentInv
  <2>5. AgentRooms'
    <3>1. CASE \E r \in Rooms : In(r)
      <4>1. PICK r \in Rooms : In(r)
        BY <3>1
      <4>2. "AgentOnly" \in options[r] => IsAgent(dclient)
        BY <2>3, <4>1 DEF AgentInv
      <4>3. \A s \in Rooms : members'[s] \subseteq members[s] \cup (IF s = r THEN {dclient} ELSE {})
        BY <4>1 DEF TypeOK
      <4>4. QED BY <2>2, <4>2, <4>3 DEF AgentInv, AgentRooms, IsAgent
    <3>2. CASE UNCHANGED members
      BY <2>2, <3>2 DEF AgentInv, AgentRooms, IsAgent
    <3>3. QED BY <1>20, <3>1, <3>2 DEF AutoJoin, Listed
  <2>6. QED BY <2>2, <2>4, <2>5 DEF AgentInv, IsAgent
<1>21. ASSUME AutoJoinPanics PROVE AgentInv'
  BY <1>21 DEF AutoJoinPanics, clientVars, roomVars, purgeVars, AgentInv, AgentRooms,
         IsAgent
<1>22. ASSUME AuthDone PROVE AgentInv'
  BY <1>22
     DEF AuthDone, clientVars, roomVars, purgeVars, Finish, AgentInv, AgentRooms,
         IsAgent
<1>23. ASSUME BadRequest PROVE AgentInv'
  BY <1>23 DEF BadRequest, roomVars, StartPurge, AgentInv, AgentRooms, IsAgent
<1>24. ASSUME NEW r \in Rooms, JoinExisting(r) PROVE AgentInv'
  <2>1. "AgentOnly" \in options[r] => IsAgent(dclient)
    BY <1>24 DEF JoinExisting, MayJoin
  <2>2. QED BY <1>24, <2>1
               DEF JoinExisting, Finish, TypeOK, AgentInv, AgentRooms, IsAgent
<1>25. ASSUME NEW r \in Rooms, JoinCreate(r) PROVE AgentInv'
  <2>1. "AgentOnly" \notin options'[r]
    BY <1>25 DEF JoinCreate, TypeOK
  <2>2. \A s \in Rooms : s # r => options'[s] = options[s] /\ members'[s] = members[s]
    BY <1>25 DEF JoinCreate, TypeOK
  <2>3. QED BY <1>25, <2>1, <2>2 DEF JoinCreate, Finish, AgentInv, AgentRooms, IsAgent
<1>26. ASSUME NEW r \in Rooms, Part(r) PROVE AgentInv'
  BY <1>26
     DEF Part, clientVars, purgeVars, Finish, UnderServer, AgentInv, AgentRooms, IsAgent,
         TypeOK
<1>27. ASSUME NEW r \in Rooms, NEW c \in Clients, Kick(r, c) PROVE AgentInv'
  BY <1>27 DEF Kick, purgeVars, Finish, Request, AgentInv, AgentRooms, IsAgent, TypeOK
<1>28. ASSUME NEW c \in Clients, Kill(c) PROVE AgentInv'
  BY <1>28 DEF Kill, clientVars, roomVars, StartPurge, Request, AgentInv, AgentRooms,
         IsAgent
<1>29. ASSUME SendtoWallops PROVE AgentInv'
  BY <1>29 DEF SendtoWallops, roomVars, purgeVars, Finish, AgentInv, AgentRooms, IsAgent
<1>30. ASSUME NEW r \in Rooms, NEW modes \in SUBSET ChannelOptions,
              SetChannelModes(r, modes)
       PROVE  AgentInv'
  BY <1>30 DEF SetChannelModes, Request
<1>31. ASSUME NEW gone \in SUBSET Clients, HealthScan(gone) PROVE AgentInv'
  BY <1>31 DEF HealthScan, roomVars, purgeVars, AgentInv, AgentRooms, IsAgent
<1>32. ASSUME NEW c \in Clients, HealthNext(c) PROVE AgentInv'
  BY <1>32 DEF HealthNext, clientVars, roomVars, purgeVars, StartPurge, AgentInv,
         AgentRooms, IsAgent
<1>33. ASSUME LockServer PROVE AgentInv'
  BY <1>33
     DEF LockServer, clientVars, roomVars, purgeVars, Request, AgentInv, AgentRooms,
         IsAgent
<1> QED
  BY <1>1, <1>2, <1>3, <1>4, <1>5, <1>6, <1>7, <1>8, <1>9, <1>10, <1>11, <1>12, <1>13,
     <1>14, <1>15, <1>16, <1>17, <1>18, <1>19, <1>20, <1>21, <1>22, <1>23, <1>24, <1>25,
     <1>26, <1>27, <1>28, <1>29, <1>30, <1>31, <1>32, <1>33,
     ConstantsAssumption
     DEF Next, ConnectionStep, PurgeStep, DispatcherStep, HealthStep, AuthAccepted, Tasks

\* AgentInv holds when the server starts.
LEMMA AgentInit == Init => AgentInv
<1> SUFFICES ASSUME Init PROVE AgentInv
  OBVIOUS
<1>1. \A r \in Rooms : "AgentOnly" \in options[r] => RoomName[r] = "Staff Lobby"
  BY DEF Init, LobbyOptions
<1>2. QED BY <1>1 DEF Init, AgentInv, AgentRooms

\* Without mode changes, the members of a channel for agents only are agents: no
\* authentication, however its gaps interleave with the other tasks, puts a
\* guest into the staff lobby, and no member of it ceases to be an agent.
THEOREM AgentRoomsAlways ==
    ASSUME "Modes" \notin Commands
    PROVE  Spec => []AgentRooms
<1>1. Inv /\ AgentInv /\ [Next]_vars => AgentInv'
  <2> SUFFICES ASSUME Inv, AgentInv, [Next]_vars PROVE AgentInv'
    OBVIOUS
  <2>1. CASE Next
    BY <2>1, AgentStep DEF Inv
  <2>2. CASE UNCHANGED vars
    BY <2>2 DEF vars, clientVars, roomVars, taskVars, AgentInv, AgentRooms, IsAgent
  <2>3. QED BY <2>1, <2>2
<1>2. AgentInv => AgentRooms
  BY DEF AgentInv
<1>3. QED BY <1>1, <1>2, InvAlways, AgentInit, PTL DEF Spec
=============================================================================
