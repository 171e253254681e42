SPECIFICATION Spec
CONSTANTS
    g = g
    s = s
    a = a
    Clients = {c1, c2}
    Rooms = {g}
    Names <- MCNames
    Lower <- MCLower
    RoomName <- MCRoomName
    InitRooms = {g}
    UsedLobbies = {"Global Lobby"}
    GuestOptions <- MCGuest
    Permissions <- JustStaff
    ModeRequests <- NoModes
    Commands = {"AuthGuest","Join"}
    MayFail = {}
    MayExpire = {c1}
    Quiet = FALSE
    MaxPipe = 1
    Dispatcher = Dispatcher
    Health = Health
    NoClient = NoClient
    NoRoom = NoRoom
PROPERTIES
    OnlyAuthenticatedJoin
\* Connections are used once and peers may stay silent: the system may stop.
CHECK_DEADLOCK FALSE
