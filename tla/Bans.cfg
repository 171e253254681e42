CONSTANTS
  c1 = c1
  c2 = c2
  c3 = c3
  here = here
  there = there
  NoIp = NoIp
  Clients = {c1, c2, c3}
  Ips = {here, there}
  IpOf <- MCIpOf
SPECIFICATION Spec
SYMMETRY Mates
INVARIANTS TypeOK BannedOut Saved BansSurvive AdminThere
