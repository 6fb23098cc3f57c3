SPECIFICATION Spec
CONSTANTS
  Flow = {f1, f2}
  Callback = {c1, c2}
  Browser = {b1, b2}
  Provider = {p1, p2}
  Checks <- Mixed
  Purpose <- AllPurposes
  Resource = {r1}
  r1 = r1
  p1 = p1
  p2 = p2
  BadResource = bad
  NoResource = noresource
  Target = {}
  NoTarget = notarget
  NoFlow = noflow
  NoAsk = noask
  NoReq = noreq
SYMMETRY Alike
CHECK_DEADLOCK FALSE
INVARIANTS
  MismatchOnlyIfStirred
  CompletedAsStarted
PROPERTIES
  ImplementsFlows
