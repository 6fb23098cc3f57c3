SPECIFICATION Spec
CONSTANTS
  Tab = {t1, t2}
  User = {u1, u2}
  CsrfToken = {x1, x2}
  Secret = {k1, k2}
  Sid = {s1, s2}
  NoUser = nouser
  NoToken = notoken
  NoSid = nosid
  NoCookie = nocookie
  Undrawn = undrawn
CONSTRAINT
  FormsOrSessions
INVARIANTS
  SignInFromOwnForm
  ForbiddenOnlyIfOutdated
  CookieAgreesWithStorage
  LostOnlyInRaces
