SPECIFICATION Spec
CONSTANTS
  Sid = {s1}
  Uid = {u1}
  Req = {r1, r2}
  NoRoles = none
  Grants = {none, admin}
  NoUser = nouser
  NoAccount = noaccount
  NoSid = nosid
  Miss = miss
  UseRedis = TRUE
  CacheTtl = 1
SYMMETRY ReqSymmetry
INVARIANTS
  TypeOK
  GrantWasLive
  RefusedOnlyIfEnded
  StaleOnlyIfUnreadable
PROPERTIES
  SafelyImplementsGate
