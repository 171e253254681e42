SPECIFICATION Spec
CONSTANTS
    g = g
    s = s
    a = a
    Clients = {c1, c2}
    Rooms = {g, a}
    Names <- MCNames
    Lower <- MCLower
    RoomName <- MCRoomName
    InitRooms = {g}
    UsedLobbies = {"Global Lobby"}
    GuestOptions <- MCMaker
    Permissions <- JustStaff
    ModeRequests <- NoModes
    Commands = {"AuthAgent","Join","Create","Part","Kill"}
    MayFail = {c1, c2}
    MayExpire = {c1, c2}
    Quiet = TRUE
    MaxPipe = 1
    Dispatcher = Dispatcher
    Health = Health
    NoClient = NoClient
    NoRoom = NoRoom
SYMMETRY ClientSymmetry
INVARIANTS
    TypeOK
    NoGhosts
PROPERTIES
    ImplementsLounge
\* Connections are used once and peers may stay silent: the system may stop.
CHECK_DEADLOCK FALSE
