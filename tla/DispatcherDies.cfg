SPECIFICATION FairSpec
CONSTANTS
    g = g
    s = s
    a = a
    Clients = {c1, c2}
    Rooms = {g}
    Names <- MCNames
    Lower <- MCLower
    RoomName <- MCRoomName
    InitRooms = {g}
    UsedLobbies = {"Global Lobby"}
    GuestOptions <- MCGuest
    Permissions <- JustStaff
    ModeRequests <- NoModes
    Commands = {"AuthGuest"}
    MayFail = {c1, c2}
    MayExpire = {}
    Quiet = FALSE
    MaxPipe = 1
    Dispatcher = Dispatcher
    Health = Health
    NoClient = NoClient
    NoRoom = NoRoom
PROPERTIES
    RequestServed
\* Connections are used once and peers may stay silent: the system may stop.
CHECK_DEADLOCK FALSE
