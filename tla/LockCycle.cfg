CONSTANTS
  Clients = {c1}
  Rooms = {r}
  Server = server
  ClientsMap = clientsMap
  ChannelsMap = channelsMap
  Commands = {}
  MayFail = {c1}
  MayExpire = {c1}
  HealthRuns = TRUE
  Dispatcher = dispatcher
  Acceptor = acceptor
  Health = health
SPECIFICATION FairSpec
PROPERTY PassesEnd
CHECK_DEADLOCK FALSE
