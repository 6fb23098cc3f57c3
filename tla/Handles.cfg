SPECIFICATION FairSpec
CONSTANTS
  Handle = {h1, h2, h3}
  InnerId = {i1, i2, i3}
  Call = {c1, c2}
  v1 = v1
  TextField <- Fields
  Text = {v1, v2}
  Default <- Defaults
  Empty = empty
  ObjectField <- Objects
  Object = {o1}
  Client = {r1, r2}
  None = none
  Dropped = dropped
  NoHandle = nohandle
  Freed = freed
INVARIANTS
  ConnectsToOwnClient
  OneConnectionAtATime
PROPERTIES
  ImplementsValues
  EveryCallEnds
CONSTRAINT ThreeHandlesOrTexts
