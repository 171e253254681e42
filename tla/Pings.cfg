CONSTANTS
  Clients = {c1, c2}
  Responsive = {c1}
  CheckIdle = 6
  Timeout = 18
  Pause = 5
  MaxGap = 12
  Delay = 6
SPECIFICATION Spec
INVARIANTS TypeOK ResponsiveStay GivenUpInTime
PROPERTY WarnedFirst
