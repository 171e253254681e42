-------------------------------- MODULE Lounge --------------------------------
(***************************************************************************)
(* What chatd promises of people and rooms, without its tasks, locks,      *)
(* queue and copies of lists: who is present, who is inside which room,    *)
(* and when somebody or some room may go.                                  *)
(*                                                                         *)
(* A person who leaves is gone from every room at that moment; a room is   *)
(* closed only after it was found empty, which it may not be any more when *)
(* it is closed; the lobbies are never closed.                             *)
(***************************************************************************)
CONSTANTS Clients, Rooms, Lobbies

VARIABLES
    present,    \* who is registered
    role,       \* what each client authenticated as
    stage,      \* a room is "unborn", "listed" or "removed"
    inside,     \* per listed room: its members
    condemned   \* the listed rooms that were found empty

vars == <<present, role, stage, inside, condemned>>

Init ==
    /\ present = {}
    /\ role = [c \in Clients |-> "None"]
    /\ stage = [r \in Rooms |-> IF r \in Lobbies THEN "listed" ELSE "unborn"]
    /\ inside = [r \in Rooms |-> {}]
    /\ condemned = {}

-----------------------------------------------------------------------------
Enter(c) ==
    /\ c \notin present
    /\ present' = present \cup {c}
    /\ UNCHANGED <<role, stage, inside, condemned>>

Identify(c, kind) ==
    /\ c \in present
    /\ role[c] = "None"
    /\ role' = [role EXCEPT ![c] = kind]
    /\ UNCHANGED <<present, stage, inside, condemned>>

Known(c) == c \in present /\ role[c] # "None"

Open(r, c) ==
    /\ Known(c)
    /\ stage[r] = "unborn"
    /\ stage' = [stage EXCEPT ![r] = "listed"]
    /\ inside' = [inside EXCEPT ![r] = {c}]
    /\ UNCHANGED <<present, role, condemned>>

Admit(r, c) ==
    /\ Known(c)
    /\ stage[r] = "listed"
    /\ inside' = [inside EXCEPT ![r] = @ \cup {c}]
    /\ UNCHANGED <<present, role, stage, condemned>>

Exit(r, c) ==
    /\ c \in inside[r]
    /\ inside' = [inside EXCEPT ![r] = @ \ {c}]
    /\ UNCHANGED <<present, role, stage, condemned>>

Condemn(r) ==
    /\ stage[r] = "listed"
    /\ inside[r] = {}
    /\ r \notin Lobbies
    /\ condemned' = condemned \cup {r}
    /\ UNCHANGED <<present, role, stage, inside>>

Close(r) ==
    /\ stage' = [stage EXCEPT ![r] = "removed"]
    /\ inside' = [inside EXCEPT ![r] = {}]
    /\ condemned' = condemned \ {r}
    /\ UNCHANGED <<present, role>>

CloseCondemned(r) == r \in condemned /\ Close(r)

\* Who is the last to part closes the room.
ExitLast(r, c) ==
    /\ stage[r] = "listed"
    /\ inside[r] = {c}
    /\ r \notin Lobbies
    /\ Close(r)

Leave(c) ==
    /\ c \in present
    /\ \A r \in Rooms : c \notin inside[r]
    /\ present' = present \ {c}
    /\ UNCHANGED <<role, stage, inside, condemned>>

-----------------------------------------------------------------------------
Next ==
    \/ \E c \in Clients : Enter(c) \/ Leave(c)
    \/ \E c \in Clients, kind \in {"Agent", "Guest"} : Identify(c, kind)
    \/ \E r \in Rooms, c \in Clients : Open(r, c) \/ Admit(r, c) \/ Exit(r, c) \/ ExitLast(r, c)
    \/ \E r \in Rooms : Condemn(r) \/ CloseCondemned(r)

Spec == Init /\ [][Next]_vars
=============================================================================
