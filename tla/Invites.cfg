SPECIFICATION Spec
CONSTANTS
  Codes = {"a"}
  NoCode = NoCode
  Users = {u1, u2, u3}
  NoUser = NoUser
  Requests = {r1, r2}
  MaxUses = {0, 2}
  MaxCount = 3
  MaxDeliveries = 2
INVARIANTS
  TypeOK
  SeatsAreCounted
  NoUseIsBurnt
  AdmissionsWithinLimit
SYMMETRY Symmetry
