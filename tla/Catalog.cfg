SPECIFICATION Spec
CONSTANTS
  Servers = {s}
  Channels = {general}
  Users = {u1, u2}
  Requests = {r1, r2}
  NoItem = NoItem
  NoUser = NoUser
INVARIANTS
  TypeOK
  HiddenOnlyWhenLost
  EntitledIsFound
  AdminsMadeServer
SYMMETRY Symmetry
