SPECIFICATION MCSpec
CONSTANTS
  Req = {r1, r2}
  Role = {a, b}
  Required = {a}
  Second = 2
  AccessLife = 1
  RefreshLife = 4
  Leeway = 1
  MaxTime = 9
  NoToken = notoken
  Number = {0, 1, 7, 8, 9, 17, 61, 63, 64}
  Width32 = 8
  Width64 = 64
CONSTRAINT OneSetting
SYMMETRY ReqSymmetry
INVARIANTS
  AccessEndsWithSession
  AccessEndsWithRole
  RefreshEndsWithSession
  LastsAsWritten
  TokenLifeReadsBack
