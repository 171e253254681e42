SPECIFICATION FairSpec
CONSTANTS
    g = g
    s = s
    a = a
    Clients = {c1, c2}
    Rooms = {a}
    Names <- MCNames
    Lower <- MCLower
    RoomName <- MCRoomName
    InitRooms = {}
    UsedLobbies = {}
    GuestOptions <- MCMaker
    Permissions <- JustStaff
    ModeRequests <- PersistModes
    Commands = {"AuthAgent","Create","Join","Kick","Kill","Modes"}
    MayFail = {c1}
    MayExpire = {}
    Quiet = FALSE
    MaxPipe = 2
    Dispatcher = Dispatcher
    Health = Health
    NoClient = NoClient
    NoRoom = NoRoom
PROPERTIES
    RequestServed
\* Connections are used once and peers may stay silent: the system may stop.
CHECK_DEADLOCK FALSE
