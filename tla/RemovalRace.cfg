SPECIFICATION Spec
CONSTANTS
    g = g
    s = s
    a = a
    Clients = {c1, c2}
    Rooms = {a}
    Names <- MCNames
    Lower <- MCLower
    RoomName <- MCRoomName
    InitRooms = {}
    UsedLobbies = {}
    GuestOptions <- MCMaker
    Permissions <- JustStaff
    ModeRequests <- PersistModes
    Commands = {"AuthAgent","Create","Modes"}
    MayFail = {c1, c2}
    MayExpire = {}
    Quiet = TRUE
    MaxPipe = 1
    Dispatcher = Dispatcher
    Health = Health
    NoClient = NoClient
    NoRoom = NoRoom
PROPERTIES
    RemovedWhenDue
\* Connections are used once and peers may stay silent: the system may stop.
CHECK_DEADLOCK FALSE
