---------------------------- MODULE LoungeProofs ----------------------------
(***************************************************************************)
(* ChatServer implements Lounge, for any number of clients and channels.   *)
(***************************************************************************)
EXTENDS ChatServerProofs

\* Lounge's inside and condemned, as ChatServer has them.
Inside == [r \in Rooms |-> IF r \in Listed THEN members[r] ELSE {}]
Condemned == {r \in Listed : \E t \in Tasks : room[t] = r /\ purging[t] = "destroy"}

-----------------------------------------------------------------------------
(* What is needed besides the invariant of ChatServerProofs.                *)

\* The lobbies exist and have Persist: no purge loop counts their members.
LobbiesPersist == \A r \in InitRooms : life[r] # "unborn" /\ "Persist" \in options[r]

\* A status other than PendingAuth means that the client authenticated, or
\* that it is about to leave.
Identified ==
    /\ \A c \in Clients : conn[c] = "new" => status[c] = "PendingAuth"
    /\ \A c \in clients :
          (/\ status[c] # "PendingAuth"
           /\ c \notin expired
           /\ \A t \in Tasks : who[t] # c) => ctype[c] # "None"

LoungeInv == RoomsExist /\ ModeRead /\ LobbiesPersist /\ Identified

-----------------------------------------------------------------------------
\* Without mode changes the lobbies keep Persist.
LEMMA LobbiesPersistStep ==
    ASSUME "Modes" \notin Commands, TypeOK, LobbiesPersist, Next
    PROVE  LobbiesPersist'
<1>1. CASE UNCHANGED <<life, options>>
  BY <1>1 DEF LobbiesPersist
<1>2. ASSUME NEW r \in Rooms, JoinCreate(r) PROVE LobbiesPersist'
  BY <1>2, ConstantsAssumption DEF JoinCreate, LobbiesPersist, TypeOK
<1>3. ASSUME NEW t \in Tasks, RemoveChannel(t) PROVE LobbiesPersist'
  BY <1>3, ConstantsAssumption DEF RemoveChannel, LobbiesPersist, TypeOK
<1>4. ASSUME NEW r \in Rooms, Part(r) PROVE LobbiesPersist'
  BY <1>4, ConstantsAssumption DEF Part, LobbiesPersist, TypeOK
<1>5. ASSUME NEW r \in Rooms, NEW modes, SetChannelModes(r, modes) PROVE FALSE
  BY <1>5 DEF SetChannelModes, Request
<1> QED
  BY <1>1, <1>2, <1>3, <1>4, <1>5
     DEF Next, ConnectionStep, PurgeStep, DispatcherStep, HealthStep, AuthAccepted,
         AddClient, Refind, Send, ReadFails, StreamEnds, Snapshot, NextRoom,
         RemoveMember, ReadPersist, CountMembers, LoopEnds,
         ClearChannels, RemoveClient, Receive, NoEffect, LockServer, AuthStart, Accept,
         AuthInvalid, AutoJoin, AutoJoinPanics, AuthDone, BadRequest, JoinExisting,
         Kick, Kill, SendtoWallops, HealthScan, HealthNext, roomVars, Tasks

\* A client that is served is not on its way out.
LEMMA ServedIdentified ==
    ASSUME Quiet, Inv, Identified, dpc \in HandlingPcs, status[dclient] # "PendingAuth"
    PROVE  dclient \in clients /\ ctype[dclient] # "None"
<1>1. dclient \in clients /\ dclient \notin expired
  BY DEF Inv, LeaversQuiet, Pending
<1>2. \A t \in Tasks : who[t] # dclient
  BY ServedStays DEF Inv, PurgeShape
<1>3. QED BY <1>1, <1>2 DEF Identified

\* Who has a status without a type is leaving: a status is given to clients
\* that authenticated, or with the type.
LEMMA IdentifiedStep ==
    ASSUME Quiet, Inv, Identified, Next
    PROVE  Identified'
<1> USE DEF Inv
<1>1. ASSUME NEW c \in Clients, AddClient(c) PROVE Identified'
  BY <1>1 DEF AddClient, clientVars, taskVars, purgeVars, Identified, TypeOK
<1>2. ASSUME NEW c \in Clients, Refind(c) PROVE Identified'
  BY <1>2 DEF Refind, clientVars, taskVars, purgeVars, Identified, TypeOK
<1>3. ASSUME NEW c \in Clients, StreamEnds(c) PROVE Identified'
  BY <1>3 DEF StreamEnds, clientVars, taskVars, purgeVars, Identified, TypeOK
<1>4. ASSUME NEW c \in Clients, ReadFails(c) PROVE Identified'
  <2>1. ~Taking(c) /\ c \in Tasks /\ who[c] \notin Clients
    BY <1>4 DEF ReadFails, PurgeShape, Tasks
  <2>2. QED BY <1>4, <2>1 DEF ReadFails, StartPurge, taskVars, Identified, TypeOK
<1>5. ASSUME NEW t \in Tasks, RemoveClient(t) PROVE Identified'
  BY <1>5 DEF RemoveClient, clientVars, Identified, TypeOK
<1>6. ASSUME NEW kind \in {"guest", "agent"}, NEW opts, Accept(kind, opts) PROVE Identified'
  <2>1. dclient \in Clients /\ conn[dclient] # "new"
    BY <1>6 DEF Accept, PurgeShape, HandlingPcs, Fresh, Pending
  <2>2. QED BY <1>6, <2>1 DEF Accept, purgeVars, Identified, TypeOK
<1>7. ASSUME AuthInvalid PROVE Identified'
  <2>1. dclient \in Clients /\ conn[dclient] # "new"
    BY <1>7 DEF AuthInvalid, PurgeShape, HandlingPcs, Fresh, Pending
  <2>2. QED BY <1>7, <2>1 DEF AuthInvalid, purgeVars, Identified, TypeOK
<1>8. ASSUME BadRequest PROVE Identified'
  <2>1. dclient \in Clients /\ conn[dclient] # "new"
    BY <1>8 DEF BadRequest, PurgeShape, HandlingPcs, Fresh, Pending
  <2>2. ~Taking(Dispatcher) /\ Dispatcher \in Tasks
    BY <1>8 DEF BadRequest, PurgeShape, Tasks
  <2>3. QED BY <1>8, <2>1, <2>2
             DEF BadRequest, StartPurge, Identified, TypeOK, PurgeShape, Taking
<1>9. ASSUME NEW c \in Clients, Kill(c) PROVE Identified'
  <2>1. ~Taking(Dispatcher) /\ Dispatcher \in Tasks
    BY <1>9 DEF Kill, Request, PurgeShape, Tasks
  <2>2. QED BY <1>9, <2>1
             DEF Kill, StartPurge, clientVars, Identified, TypeOK, PurgeShape, Taking
<1>10. ASSUME SendtoWallops PROVE Identified'
  <2>1. \A c \in Clients : status'[c] # status[c] => c \in clients /\ IsAgent(c)
    BY <1>10 DEF SendtoWallops, TypeOK
  <2>2. QED BY <1>10, <2>1 DEF SendtoWallops, purgeVars, Identified, TypeOK, IsAgent, Fresh
<1>11. ASSUME NEW gone \in SUBSET Clients, HealthScan(gone) PROVE Identified'
  BY <1>11 DEF HealthScan, purgeVars, Identified, TypeOK, Fresh
<1>12. ASSUME NEW c \in Clients, HealthNext(c) PROVE Identified'
  <2>1. ~Taking(Health) /\ Health \in Tasks
    BY <1>12 DEF HealthNext, Taking, Tasks
  <2>2. QED BY <1>12, <2>1
            DEF HealthNext, StartPurge, clientVars, purgeVars, Identified, TypeOK, PurgeShape,
                Taking
<1>13. CASE UNCHANGED <<conn, clients, status, ctype, expired, who>>
  BY <1>13 DEF Identified
<1>14. QED
  BY <1>1, <1>2, <1>3, <1>4, <1>5, <1>6, <1>7, <1>8, <1>9, <1>10, <1>11, <1>12, <1>13
     DEF Next, ConnectionStep, PurgeStep, DispatcherStep, HealthStep, AuthAccepted,
         Send, Snapshot, NextRoom, RemoveMember, ReadPersist, CountMembers, RemoveChannel,
         LoopEnds, ClearChannels, Receive, NoEffect, LockServer, AuthStart, AutoJoin,
         AutoJoinPanics, AuthDone, JoinExisting, JoinCreate, Part, Kick, SetChannelModes, clientVars,
         purgeVars, taskVars, Tasks

\* What is needed holds at the start.
LEMMA LoungeInit == Init => LoungeInv
<1> SUFFICES ASSUME Init PROVE LoungeInv
  OBVIOUS
<1>1. RoomsExist /\ ModeRead
  BY DEF Init, RoomsExist, ModeRead, RoomPcs
<1>2. LobbiesPersist
  BY ConstantsAssumption DEF Init, LobbiesPersist, LobbyOptions
<1>3. Identified
  BY DEF Init, Identified
<1>4. QED BY <1>1, <1>2, <1>3 DEF LoungeInv

\* And every step keeps it, as long as nobody changes modes.
LEMMA LoungeInvStep ==
    ASSUME Quiet, "Modes" \notin Commands
    PROVE  Inv /\ LoungeInv /\ [Next]_vars => LoungeInv'
<1> SUFFICES ASSUME Inv, LoungeInv, [Next]_vars PROVE LoungeInv'
  OBVIOUS
<1>1. CASE Next
  BY <1>1, RoomsExistStep, ModeReadStep, LobbiesPersistStep, IdentifiedStep DEF Inv, LoungeInv
<1>2. CASE UNCHANGED vars
  BY <1>2
     DEF vars, clientVars, roomVars, taskVars, purgeVars, LoungeInv, RoomsExist, ModeRead,
         LobbiesPersist, Identified
<1>3. QED BY <1>1, <1>2

-----------------------------------------------------------------------------
(* Every step of ChatServer is one of Lounge, or changes nothing there.     *)

\* No purge loop arrives at the removal of a channel, and none leaves it.
SameCondemned ==
    \A t \in Tasks : \/ room'[t] = room[t] /\ purging'[t] = purging[t]
                     \/ purging[t] # "destroy" /\ purging'[t] # "destroy"

\* Then a channel is condemned after the step if it was before.
LEMMA CondemnedKept ==
    ASSUME SameCondemned, life' = life
    PROVE  Condemned' = Condemned
  BY DEF SameCondemned, Condemned, Listed

\* Lounge's members change only with the members and the life of a channel.
LEMMA InsideKept ==
    ASSUME life' = life, members' = members
    PROVE  Inside' = Inside
  BY DEF Inside, Listed

\* So a step that touches none of it is none of Lounge.
LEMMA Stutter ==
    ASSUME UNCHANGED <<clients, ctype, life, members>>, SameCondemned
    PROVE  UNCHANGED Promise!vars
  BY CondemnedKept, InsideKept DEF Promise!vars, Inside, Condemned

\* A member that is added to a listed channel is one that Lounge admits.
LEMMA AdmitStep ==
    ASSUME TypeOK, NEW r \in Listed, NEW c \in clients, ctype[c] # "None",
           members' = [members EXCEPT ![r] = @ \cup {c}],
           UNCHANGED <<clients, ctype, life>>, SameCondemned
    PROVE  Promise!Admit(r, c)
<1>1. Condemned' = Condemned
  BY CondemnedKept
<1>2. Inside' = [Inside EXCEPT ![r] = @ \cup {c}]
  BY DEF Inside, Listed, TypeOK
<1>3. Promise!Known(c) /\ life[r] = "listed"
  BY DEF Promise!Known, Listed
<1>4. QED BY <1>1, <1>2, <1>3 DEF Promise!Admit, Inside, Condemned

\* A member that is removed leaves, unless it or its channel was gone before.
LEMMA ExitStep ==
    ASSUME TypeOK, NEW r \in Rooms, NEW c,
           members' = [members EXCEPT ![r] = @ \ {c}],
           UNCHANGED <<clients, ctype, life>>, SameCondemned
    PROVE  Promise!Exit(r, c) \/ UNCHANGED Promise!vars
<1>1. Condemned' = Condemned
  BY CondemnedKept
<1>2. CASE r \in Listed /\ c \in members[r]
  <2>1. Inside' = [Inside EXCEPT ![r] = @ \ {c}] /\ c \in Inside[r]
    BY <1>2 DEF Inside, Listed, TypeOK
  <2>2. QED BY <1>1, <2>1 DEF Promise!Exit, Inside, Condemned
<1>3. CASE ~(r \in Listed /\ c \in members[r])
  <2>1. Listed' = Listed
    BY DEF Listed
  <2>2. \A q \in Listed : members'[q] = members[q]
    BY <1>3 DEF Listed, TypeOK
  <2>3. Inside' = Inside
    BY <2>1, <2>2 DEF Inside
  <2>4. QED BY <1>1, <2>3 DEF Promise!vars, Inside, Condemned
<1>4. QED BY <1>2, <1>3

\* Who leaves is in no listed channel.
LEMMA LeaveStep ==
    ASSUME NEW c \in clients, \A r \in Listed : c \notin members[r],
           clients' = clients \ {c},
           UNCHANGED <<ctype, life, members>>, SameCondemned
    PROVE  Promise!Leave(c)
<1>1. Condemned' = Condemned /\ Inside' = Inside
  BY CondemnedKept, InsideKept
<1>2. \A r \in Rooms : c \notin Inside[r]
  BY DEF Inside
<1>3. QED BY <1>1, <1>2 DEF Promise!Leave, Inside, Condemned

\* A purge loop that found its channel empty condemns it, if it is still listed.
LEMMA CondemnStep ==
    ASSUME TypeOK, PurgeShape, ModeRead, LobbiesPersist, NEW t \in Tasks, CountMembers(t)
    PROVE  (\E r \in Rooms : Promise!Condemn(r)) \/ UNCHANGED Promise!vars
<1>0. PICK r \in Rooms : r = room[t]
  BY DEF CountMembers, RemoveChannel, PurgeShape, RoomPcs
<1>1. /\ purging[t] = "count" /\ r \in Rooms
      /\ UNCHANGED <<clients, ctype, life, members, room>>
      /\ \A u \in Tasks \ {t} : purging'[u] = purging[u]
  BY <1>0 DEF CountMembers, Advance, PurgeShape, RoomPcs, clientVars, roomVars, TypeOK
<1>2. Inside' = Inside
  BY <1>0, <1>1, InsideKept
<1>3. CASE members[r] = {}
  <2>1. purging'[t] = "destroy"
    BY <1>0, <1>3 DEF CountMembers, Advance, TypeOK
  <2>2. CASE r \in Listed
    <3>1. Condemned' = Condemned \cup {r}
      BY <1>0, <1>1, <2>1, <2>2 DEF Condemned, Listed
    <3>2. r \notin InitRooms
      BY <1>0, <1>1 DEF ModeRead, LobbiesPersist
    <3>3. Inside[r] = {} /\ life[r] = "listed"
      BY <1>0, <1>1, <1>3, <2>2 DEF Inside, Listed
    <3>4. Promise!Condemn(r)
      BY <1>0, <1>1, <1>2, <3>1, <3>2, <3>3 DEF Promise!Condemn, Inside, Condemned
    <3>5. QED BY <1>0, <1>1, <3>4
  <2>3. CASE r \notin Listed
    <3>1. Condemned' = Condemned
      BY <1>0, <1>1, <2>3 DEF Condemned, Listed
    <3>2. QED BY <1>0, <1>1, <1>2, <3>1 DEF Promise!vars, Inside, Condemned
  <2>4. QED BY <2>2, <2>3
<1>4. CASE members[r] # {}
  <2>1. purging'[t] = "next"
    BY <1>0, <1>4 DEF CountMembers, Advance, TypeOK
  <2>2. SameCondemned
    BY <1>0, <1>1, <2>1 DEF SameCondemned
  <2>3. QED BY <1>0, <1>1, <2>2, Stutter
<1>5. QED BY <1>3, <1>4

\* It removes a channel that was condemned, unless another task did before.
LEMMA CloseStep ==
    ASSUME TypeOK, PurgeShape, RoomsExist, NEW t \in Tasks, RemoveChannel(t)
    PROVE  (\E r \in Rooms : Promise!CloseCondemned(r)) \/ UNCHANGED Promise!vars
<1>0. PICK r \in Rooms : r = room[t]
  BY DEF CountMembers, RemoveChannel, PurgeShape, RoomPcs
<1>1. /\ purging[t] = "destroy" /\ purging'[t] = "next" /\ r \in Rooms
      /\ UNCHANGED <<clients, ctype, members, room>>
      /\ \A u \in Tasks \ {t} : purging'[u] = purging[u]
      /\ life' = [life EXCEPT ![r] = "removed"]
  BY <1>0 DEF RemoveChannel, Advance, PurgeShape, RoomPcs, clientVars, TypeOK
<1>2. CASE r \in Listed
  <2>1. r \in Condemned
    BY <1>0, <1>1, <1>2 DEF Condemned
  <2>2. Inside' = [Inside EXCEPT ![r] = {}]
    BY <1>0, <1>1 DEF Inside, Listed, TypeOK
  <2>3. Condemned' = Condemned \ {r}
    <3>1. Listed' = Listed \ {r}
      BY <1>1 DEF Listed, TypeOK
    <3>2. ASSUME NEW s \in Rooms \ {r}, NEW u \in Tasks
          PROVE  (room[u] = s /\ purging[u] = "destroy")
                    <=> (room'[u] = s /\ purging'[u] = "destroy")
      BY <1>0, <1>1
    <3>3. QED BY <3>1, <3>2 DEF Condemned, Listed
  <2>4. Promise!CloseCondemned(r)
    BY <1>0, <1>1, <2>1, <2>2, <2>3
       DEF Promise!CloseCondemned, Promise!Close, Inside, Condemned
  <2>5. QED BY <1>0, <1>1, <2>4
<1>3. CASE r \notin Listed
  <2>1. life[r] = "removed"
    BY <1>0, <1>1, <1>3 DEF RoomsExist, RoomPcs, Listed, TypeOK
  <2>2. life' = life
    BY <1>0, <1>1, <2>1 DEF TypeOK
  <2>3. Inside' = Inside
    BY <1>0, <1>1, <2>2, InsideKept
  <2>4. Condemned' = Condemned
    BY <1>0, <1>1, <1>3, <2>2 DEF Condemned, Listed
  <2>5. QED BY <1>0, <1>1, <2>2, <2>3, <2>4 DEF Promise!vars, Inside, Condemned
<1>4. QED BY <1>2, <1>3

\* A channel that is made was in nobody's hands.
LEMMA OpenStep ==
    ASSUME TypeOK, RoomsExist, NEW c \in clients, c = dclient, ctype[c] # "None",
           NEW r \in Rooms, JoinCreate(r)
    PROVE  Promise!Open(r, c)
<1>1. /\ life[r] = "unborn" /\ life' = [life EXCEPT ![r] = "listed"]
      /\ members' = [members EXCEPT ![r] = {c}]
      /\ UNCHANGED <<clients, ctype, room, purging>>
  BY DEF JoinCreate, purgeVars
<1>2. Inside' = [Inside EXCEPT ![r] = {c}]
  BY <1>1 DEF Inside, Listed, TypeOK
<1>3. \A t \in Tasks : purging[t] = "destroy" => room[t] # r
  BY <1>1 DEF RoomsExist, RoomPcs
<1>4. Condemned' = Condemned
  BY <1>1, <1>3 DEF Condemned, Listed, TypeOK
<1>5. QED BY <1>1, <1>2, <1>4 DEF Promise!Open, Promise!Known, Inside, Condemned

\* Who is the last to part closes the channel.
LEMMA PartStep ==
    ASSUME TypeOK, LobbiesPersist, NEW r \in Rooms, NEW c, c = dclient, Part(r)
    PROVE  Promise!ExitLast(r, c) \/ Promise!Exit(r, c) \/ UNCHANGED Promise!vars
<1>1. /\ r \in Listed /\ members' = [members EXCEPT ![r] = @ \ {c}]
      /\ UNCHANGED <<clients, ctype, room, purging>>
  BY DEF Part, clientVars, purgeVars
<1>2. CASE members[r] = {c} /\ "Persist" \notin options[r]
  <2>1. life' = [life EXCEPT ![r] = "removed"]
    BY <1>2 DEF Part, TypeOK
  <2>2. Inside' = [Inside EXCEPT ![r] = {}]
    BY <1>1, <2>1 DEF Inside, Listed, TypeOK
  <2>3. Condemned' = Condemned \ {r}
    BY <1>1, <2>1 DEF Condemned, Listed, TypeOK
  <2>4. life[r] = "listed" /\ Inside[r] = {c} /\ r \notin InitRooms
    BY <1>1, <1>2 DEF Inside, Listed, LobbiesPersist
  <2>5. QED BY <1>1, <2>1, <2>2, <2>3, <2>4
            DEF Promise!ExitLast, Promise!Close, Inside, Condemned
<1>3. CASE ~(members[r] = {c} /\ "Persist" \notin options[r])
  <2>1. life' = life
    BY <1>3 DEF Part, TypeOK
  <2>2. SameCondemned
    BY <1>1 DEF SameCondemned
  <2>3. QED BY <1>1, <2>1, <2>2, ExitStep
<1>4. QED BY <1>2, <1>3

\* Every step of ChatServer is a step of Lounge or leaves Lounge alone.
LEMMA LoungeStep ==
    ASSUME Quiet, "Modes" \notin Commands, Inv, LoungeInv, Next
    PROVE  [Promise!Next]_Promise!vars
<1> USE DEF Inv, LoungeInv
<1>1. ASSUME NEW c \in Clients, AddClient(c) PROVE Promise!Enter(c)
  <2>1. c \notin clients /\ clients' = clients \cup {c}
    BY <1>1 DEF AddClient, Fresh
  <2>2. SameCondemned
    BY <1>1 DEF AddClient, purgeVars, SameCondemned
  <2>3. Inside' = Inside /\ Condemned' = Condemned
    BY <1>1, <2>2, InsideKept, CondemnedKept DEF AddClient, roomVars
  <2>4. QED BY <1>1, <2>1, <2>3
            DEF AddClient, clientVars, roomVars, Promise!Enter, Inside, Condemned
<1>2. ASSUME NEW c \in Clients, ReadFails(c) PROVE UNCHANGED Promise!vars
  <2>1. purging[c] = "off" /\ c \in Tasks
    BY <1>2 DEF ReadFails, PurgeShape, Taking, Tasks
  <2>2. SameCondemned
    BY <1>2, <2>1 DEF ReadFails, StartPurge, SameCondemned, TypeOK
  <2>3. QED BY <1>2, <2>2, Stutter DEF ReadFails, roomVars
<1>3. ASSUME NEW t \in Tasks,
             Snapshot(t) \/ NextRoom(t) \/ ReadPersist(t) \/ LoopEnds(t) \/ ClearChannels(t)
      PROVE  UNCHANGED Promise!vars
  <2>1. /\ purging[t] # "destroy" /\ purging'[t] # "destroy"
        /\ \A u \in Tasks \ {t} : purging'[u] = purging[u] /\ room'[u] = room[u]
    BY <1>3 DEF Snapshot, NextRoom, ReadPersist, LoopEnds, ClearChannels, Advance, TypeOK
  <2>2. SameCondemned
    BY <2>1 DEF SameCondemned
  <2>3. QED BY <1>3, <2>2, Stutter
            DEF Snapshot, NextRoom, ReadPersist, LoopEnds, ClearChannels, clientVars, roomVars
<1>4. ASSUME NEW t \in Tasks, RemoveMember(t)
      PROVE  (\E r \in Rooms, c \in Clients : Promise!Exit(r, c)) \/ UNCHANGED Promise!vars
  <2>1. PICK r \in Rooms, c \in Clients : r = room[t] /\ c = who[t]
    BY <1>4 DEF RemoveMember, PurgeShape, RoomPcs, Taking
  <2>2. SameCondemned
    BY <1>4 DEF RemoveMember, Advance, SameCondemned, TypeOK
  <2>3. QED BY <1>4, <2>1, <2>2, ExitStep DEF RemoveMember, clientVars
<1>5. ASSUME NEW t \in Tasks, RemoveClient(t)
      PROVE  (\E c \in Clients : Promise!Leave(c)) \/ UNCHANGED Promise!vars
  <2>1. PICK c \in Clients : c = who[t]
    BY <1>5 DEF RemoveClient, PurgeShape, Taking
  <2>2. SameCondemned
    BY <1>5 DEF RemoveClient, Advance, SameCondemned, TypeOK
  <2>3. \A r \in Listed : c \notin members[r]
    BY <1>5, <2>1 DEF RemoveClient, RoomsAhead, Taking, LoopPcs
  <2>4. clients' = clients \ {c} /\ UNCHANGED <<ctype, life, members>>
    BY <1>5, <2>1 DEF RemoveClient, clientVars, roomVars
  <2>5. CASE c \in clients
    BY <2>2, <2>3, <2>4, <2>5, LeaveStep
  <2>6. CASE c \notin clients
    BY <2>2, <2>4, <2>6, Stutter
  <2>7. QED BY <2>5, <2>6
<1>6. ASSUME NEW kind \in {"guest", "agent"}, NEW opts, Accept(kind, opts)
      PROVE  \E c \in Clients, role \in {"Agent", "Guest"} : Promise!Identify(c, role)
  <2>1. PICK c \in Clients : c = dclient /\ c \in clients /\ ctype[c] = "None"
    BY <1>6, ServedStays DEF Accept, PurgeShape, HandlingPcs, Unauthenticated
  <2>2. PICK role \in {"Agent", "Guest"} : ctype' = [ctype EXCEPT ![c] = role]
    BY <1>6, <2>1 DEF Accept
  <2>3. Inside' = Inside /\ Condemned' = Condemned
    BY <1>6, InsideKept, CondemnedKept DEF Accept, SameCondemned, purgeVars, roomVars
  <2>4. Promise!Identify(c, role)
    BY <1>6, <2>1, <2>2, <2>3 DEF Accept, roomVars, Promise!Identify, Inside, Condemned
  <2>5. QED BY <2>4
<1>7. ASSUME AuthInvalid PROVE \E c \in Clients : Promise!Leave(c)
  <2>1. PICK c \in Clients : c = dclient /\ c \in clients
    BY <1>7, ServedStays DEF AuthInvalid, PurgeShape, HandlingPcs
  <2>2. \A r \in Listed : c \notin members[r]
    BY <1>7, <2>1 DEF AuthInvalid, LeaversQuiet, Unauthenticated, Listed
  <2>3. SameCondemned
    BY <1>7 DEF AuthInvalid, purgeVars, SameCondemned
  <2>4. QED BY <1>7, <2>1, <2>2, <2>3, LeaveStep DEF AuthInvalid, roomVars
<1>8. ASSUME AutoJoin
      PROVE  (\E r \in Rooms, c \in Clients : Promise!Admit(r, c)) \/ UNCHANGED Promise!vars
  <2>1. SameCondemned
    BY <1>8 DEF AutoJoin, purgeVars, SameCondemned
  <2>2. PICK c \in Clients : c = dclient /\ c \in clients /\ ctype[c] # "None"
    BY <1>8, ServedIdentified DEF AutoJoin, PurgeShape, HandlingPcs, Unauthenticated
  <2>3. CASE \E r \in Listed : members' = [members EXCEPT ![r] = @ \cup {c}]
    BY <1>8, <2>1, <2>2, <2>3, AdmitStep DEF AutoJoin, Listed
  <2>4. CASE members' = members
    BY <1>8, <2>1, <2>4, Stutter DEF AutoJoin
  <2>5. QED BY <1>8, <2>2, <2>3, <2>4 DEF AutoJoin
<1>9. ASSUME BadRequest \/ \E c \in Clients : Kill(c) PROVE UNCHANGED Promise!vars
  <2>1. purging[Dispatcher] = "off" /\ Dispatcher \in Tasks
    BY <1>9 DEF BadRequest, Kill, Request, PurgeShape, Taking, Tasks
  <2>2. SameCondemned
    BY <1>9, <2>1 DEF BadRequest, Kill, StartPurge, SameCondemned, TypeOK
  <2>3. QED BY <1>9, <2>2, Stutter DEF BadRequest, Kill, clientVars, roomVars
<1>10. ASSUME NEW r \in Rooms, JoinExisting(r)
       PROVE  \E c \in Clients : Promise!Admit(r, c)
  <2>1. SameCondemned
    BY <1>10 DEF JoinExisting, purgeVars, SameCondemned
  <2>2. PICK c \in Clients : c = dclient /\ c \in clients /\ ctype[c] # "None"
    BY <1>10, ServedIdentified
       DEF JoinExisting, UnderServer, Inv, Unauthenticated, PurgeShape, HandlingPcs
  <2>3. QED BY <1>10, <2>1, <2>2, AdmitStep DEF JoinExisting
<1>11. ASSUME NEW r \in Rooms, JoinCreate(r)
       PROVE  \E c \in Clients : Promise!Open(r, c)
  <2>1. PICK c \in Clients : c = dclient /\ c \in clients /\ ctype[c] # "None"
    BY <1>11, ServedIdentified
       DEF JoinCreate, UnderServer, Inv, Unauthenticated, PurgeShape, HandlingPcs
  <2>2. QED BY <1>11, <2>1, OpenStep
<1>12. ASSUME NEW r \in Rooms, Part(r)
       PROVE  \/ \E c \in Clients : Promise!ExitLast(r, c) \/ Promise!Exit(r, c)
              \/ UNCHANGED Promise!vars
  <2>1. PICK c \in Clients : c = dclient
    BY <1>12 DEF Part, UnderServer, PurgeShape, HandlingPcs
  <2>2. QED BY <1>12, <2>1, PartStep
<1>13. ASSUME NEW r \in Rooms, NEW c \in Clients, Kick(r, c)
       PROVE  Promise!Exit(r, c) \/ UNCHANGED Promise!vars
  <2>1. SameCondemned
    BY <1>13 DEF Kick, purgeVars, SameCondemned
  <2>2. QED BY <1>13, <2>1, ExitStep DEF Kick
<1>14. ASSUME NEW c \in Clients, HealthNext(c) PROVE UNCHANGED Promise!vars
  <2>1. SameCondemned
    BY <1>14 DEF HealthNext, StartPurge, purgeVars, SameCondemned, TypeOK
  <2>2. QED BY <1>14, <2>1, Stutter DEF HealthNext, clientVars, roomVars
<1>15. CASE UNCHANGED <<clients, ctype, life, members, room, purging>>
  BY <1>15, Stutter DEF SameCondemned
<1>16. ASSUME NEW r \in Rooms, NEW modes, SetChannelModes(r, modes) PROVE FALSE
  BY <1>16 DEF SetChannelModes, Request
<1>17. ASSUME NEW t \in Tasks, PurgeStep(t) PROVE Promise!Next \/ UNCHANGED Promise!vars
  <2>1. ASSUME CountMembers(t) PROVE Promise!Next \/ UNCHANGED Promise!vars
    BY <2>1, CondemnStep DEF Promise!Next
  <2>2. ASSUME RemoveChannel(t) PROVE Promise!Next \/ UNCHANGED Promise!vars
    BY <2>2, CloseStep DEF Promise!Next
  <2>3. QED BY <1>3, <1>4, <1>5, <1>17, <2>1, <2>2 DEF PurgeStep, Promise!Next
<1>18. ASSUME NEW c \in Clients, ConnectionStep(c)
       PROVE  Promise!Next \/ UNCHANGED Promise!vars
  <2>1. c \in Tasks
    BY DEF Tasks
  <2>2. QED
    BY <1>1, <1>2, <1>15, <1>17, <1>18, <2>1
       DEF ConnectionStep, Refind, Send, StreamEnds, clientVars, roomVars, purgeVars, Promise!Next
<1>19. ASSUME DispatcherStep PROVE Promise!Next \/ UNCHANGED Promise!vars
  <2>1. Dispatcher \in Tasks
    BY DEF Tasks
  <2>2. CASE AuthAccepted
    BY <1>6, <2>2 DEF AuthAccepted, Promise!Next
  <2>3. CASE Receive \/ NoEffect \/ LockServer \/ AuthStart("guest") \/ AuthStart("agent")
             \/ AutoJoinPanics \/ AuthDone \/ SendtoWallops
    BY <1>15, <2>3
       DEF Receive, NoEffect, LockServer, AuthStart, AutoJoinPanics, AuthDone, SendtoWallops,
           clientVars, roomVars, purgeVars
  <2>4. CASE AuthInvalid \/ AutoJoin \/ BadRequest \/ \E c \in Clients : Kill(c)
    BY <1>7, <1>8, <1>9, <2>4 DEF Promise!Next
  <2>5. CASE \E r \in Rooms : JoinExisting(r) \/ JoinCreate(r) \/ Part(r)
    BY <1>10, <1>11, <1>12, <2>5 DEF Promise!Next
  <2>6. CASE \E r \in Rooms, c \in Clients : Kick(r, c)
    BY <1>13, <2>6 DEF Promise!Next
  <2>7. CASE \E r \in Rooms, modes \in ModeRequests : SetChannelModes(r, modes)
    BY <1>16, <2>7
  <2>8. CASE PurgeStep(Dispatcher)
    BY <1>17, <2>1, <2>8
  <2>9. QED BY <1>19, <2>2, <2>3, <2>4, <2>5, <2>6, <2>7, <2>8 DEF DispatcherStep
<1>20. ASSUME HealthStep PROVE Promise!Next \/ UNCHANGED Promise!vars
  <2>1. Health \in Tasks
    BY DEF Tasks
  <2>2. QED BY <1>14, <1>15, <1>17, <1>20, <2>1 DEF HealthStep, HealthScan, roomVars, purgeVars
<1>21. QED BY <1>18, <1>19, <1>20 DEF Next

\* The server starts as Lounge does.
LEMMA LoungeStart == Init => Promise!Init
  BY DEF Init, Promise!Init, Listed

\* Where nobody changes modes and clients leave with no request pending, the
\* server is an implementation of Lounge for any number of clients, channels
\* and waiting requests, kicks included: however the dispatcher and the three
\* purge loops interleave, who leaves the clients map is out of every listed
\* channel by then, who enters one is registered and has authenticated, and a
\* channel goes only with its last member or after it was found empty, the
\* lobbies never.
THEOREM ImplementsLoungeAlways ==
    ASSUME Quiet, "Modes" \notin Commands
    PROVE  Spec => ImplementsLounge
<1>1. Inv /\ LoungeInv /\ [Next]_vars => LoungeInv'
  BY LoungeInvStep
<1>2. Inv /\ LoungeInv /\ [Next]_vars => [Promise!Next]_Promise!vars
  <2> SUFFICES ASSUME Inv, LoungeInv, [Next]_vars PROVE [Promise!Next]_Promise!vars
    OBVIOUS
  <2>1. CASE Next
    BY <2>1, LoungeStep
  <2>2. CASE UNCHANGED vars
    BY <2>2, Stutter DEF SameCondemned, vars, clientVars, roomVars, purgeVars
  <2>3. QED BY <2>1, <2>2
<1>3. Init => Promise!Init
  BY LoungeStart
<1>4. QED
  BY <1>1, <1>2, <1>3, LoungeInit, InvAlways, PTL DEF Spec, ImplementsLounge, Promise!Spec
=============================================================================
