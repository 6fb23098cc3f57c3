SPECIFICATION FairSpec
CONSTANTS
  Login = {l1}
  Person = {p1}
  Name = {n1}
  Password = {w1}
  Base = {o1}
  BaseOf <- OnlyOne
  Modes <- ByService
  NameOf <- AloneAlways
  BaseDn <- FirstExceptDirect
  Faults = TRUE
  p1 = p1
  p2 = p2
  n1 = n1
  n2 = n2
  w1 = w1
  o1 = o1
  o2 = o2
  NoBase = nobase
  NoName = noname
  NoPassword = nopassword
  NoPerson = noperson
  Absent = absent
  Locked = locked
PROPERTIES
  EveryLoginEnds
