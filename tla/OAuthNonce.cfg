SPECIFICATION Spec
CONSTANTS
  Flow = {f1, f2}
  Callback = {c1}
  Browser = {b1}
  Provider = {p1}
  Checks <- UsesNonce
  Purpose <- PlainOrTo
  Resource = {r1}
  r1 = r1
  p1 = p1
  p2 = p2
  BadResource = bad
  NoResource = noresource
  Target = {}
  NoTarget = notarget
  NoFlow = noflow
  NoAsk = noask
  NoReq = noreq
CHECK_DEADLOCK FALSE
INVARIANTS
  NonceChecked
