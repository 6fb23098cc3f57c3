SPECIFICATION Spec
CONSTANTS
  Login = {l1, l2}
  Person = {p1, p2}
  Name = {n1, n2}
  Password = {w1, w2}
  Base = {o1, o2}
  BaseOf <- InFirst
  Modes <- AllModes
  NameOf <- NamesakesExceptDirect
  BaseDn <- FirstExceptDirect
  Faults = TRUE
  p1 = p1
  p2 = p2
  n1 = n1
  n2 = n2
  w1 = w1
  o1 = o1
  o2 = o2
  NoBase = nobase
  NoName = noname
  NoPassword = nopassword
  NoPerson = noperson
  Absent = absent
  Locked = locked
CONSTRAINT
  SecondIsRace
SYMMETRY
  LoginSymmetry
INVARIANTS
  LoginIsVerified
  NobodySharesTheName
  RightPasswordIsTaken
  NotFoundOnlyIfAbsent
PROPERTIES
  BaseSettles
