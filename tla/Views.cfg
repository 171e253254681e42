CONSTANTS
  a = a
  g = g
  h = h
  Clients = {a, g, h}
  Agents = {a, h}
  Admins = {a}
  Unseen = {a}
  MayFail = {h}
  MayExpire = {h}
  Requests <- MCRequests
  MaxVisits = 3
  Dispatcher = Dispatcher
  Health = Health
  NoClient = NoClient
SPECIFICATION Spec
INVARIANTS TypeOK MembersShown HiddenFromGuests NoStrangers
PROPERTIES ModesAgree
\* Everybody may be gone in the end.
CHECK_DEADLOCK FALSE
