SPECIFICATION FairSpec
CONSTANTS
    g = g
    s = s
    a = a
    Clients = {c1, c2}
    Rooms = {a}
    Names <- MCNames
    Lower <- MCLower
    RoomName <- MCRoomName
    InitRooms = {}
    UsedLobbies = {}
    GuestOptions <- MCMaker
    Permissions <- JustStaff
    ModeRequests <- NoModes
    Commands = {"AuthAgent","Join","Create","Part","Kill"}
    MayFail = {c1}
    MayExpire = {}
    Quiet = FALSE
    MaxPipe = 2
    Dispatcher = Dispatcher
    Health = Health
    NoClient = NoClient
    NoRoom = NoRoom
INVARIANTS
    Covered
    EmptyRoomsDoomed
PROPERTIES
    FailedLeaves
    EmptyRoomGoes
\* Connections are used once and peers may stay silent: the system may stop.
CHECK_DEADLOCK FALSE
