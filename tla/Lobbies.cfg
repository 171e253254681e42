SPECIFICATION Spec
CONSTANTS
    g = g
    s = s
    a = a
    Clients = {c1, c2}
    Rooms = {g, s}
    Names <- MCNames
    Lower <- MCLower
    RoomName <- MCRoomName
    InitRooms = {g, s}
    UsedLobbies = {"Global Lobby", "Staff Lobby"}
    GuestOptions <- MCGuest
    Permissions <- MCPermissions
    ModeRequests <- NoModes
    Commands = {"AuthGuest","AuthAgent","Join","Part","Kick"}
    MayFail = {c1}
    MayExpire = {c1}
    Quiet = FALSE
    MaxPipe = 1
    Dispatcher = Dispatcher
    Health = Health
    NoClient = NoClient
    NoRoom = NoRoom
INVARIANTS
    AgentRooms
PROPERTIES
    PrivilegesFixed
\* Connections are used once and peers may stay silent: the system may stop.
CHECK_DEADLOCK FALSE
