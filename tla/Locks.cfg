CONSTANTS
  Clients = {c1}
  Rooms = {r}
  Server = server
  ClientsMap = clientsMap
  ChannelsMap = channelsMap
  Commands <- AllCommands
  MayFail = {c1}
  MayExpire = {}
  HealthRuns = FALSE
  Dispatcher = dispatcher
  Acceptor = acceptor
  Health = health
SPECIFICATION FairSpec
INVARIANTS TypeOK NoDeadlock
PROPERTY EveryLockGranted
CHECK_DEADLOCK FALSE
