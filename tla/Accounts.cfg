SPECIFICATION Spec
CONSTANTS
  Emails = {e1}
  NoEmail = NoEmail
  Devices = {d1, d2}
  NoToken = NoToken
  MaxClock = 2
  Validity = 2
  MaxSessions = 2
INVARIANTS
  TypeOK
  DevicesHaveSessions
  SessionsHaveDevices
  AccountsAreCached
SYMMETRY Symmetry
