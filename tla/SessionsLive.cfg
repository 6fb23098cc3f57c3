SPECIFICATION FairSpec
CONSTANTS
  Sid = {s1, s2}
  Uid = {u1, u2}
  Req = {r1}
  NoRoles = none
  Grants = {none, admin}
  NoUser = nouser
  NoAccount = noaccount
  NoSid = nosid
  Miss = miss
  UseRedis = TRUE
  CacheTtl = 2
CONSTRAINT
  OneSessionOrNoRoles
INVARIANTS
  GrantIsOwner
  TokensNameTheirRow
PROPERTIES
  EveryRequestEnds
  RevocationSettles
  ImplementsGate
