---------------------------- MODULE MCChatServer ----------------------------
(***************************************************************************)
(* Small instances of ChatServer for TLC: the lobbies g and s, and a, a    *)
(* channel that clients create.                                            *)
(***************************************************************************)
EXTENDS ChatServer, TLC

CONSTANTS g, s, a

MCNames == LobbyNames \cup {"Tea", "tea"}
MCLower == [n \in MCNames |-> IF n = "Tea" THEN "tea" ELSE n]

MCRoomName ==
    [r \in Rooms |-> CASE r = g -> "Global Lobby"
                       [] r = s -> "Staff Lobby"
                       [] OTHER -> "Tea"]

\* default_guest_options = 12, and the same with CreateChannels.
MCGuest  == {"JoinChannels", "PartChannels"}
MCMaker  == {"JoinChannels", "PartChannels", "CreateChannels"}
MCPermissions == {{"Admin"}, {"JoinChannels", "PartChannels"}}
JustStaff     == {{"JoinChannels", "PartChannels"}}

PersistModes == {{"Persist"}, {}}
NoModes      == {}

ClientSymmetry == Permutations(Clients)
=============================================================================
