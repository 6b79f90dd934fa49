\* A client's event beside a system event of the same letters, two requests
\* and two chat handlers; every save succeeds.
SPECIFICATION Spec
CONSTANTS
  e1 = e1
  Event = {e1, b1}
  BuiltIn = {b1}
  Fold <- MCFold
  Text = {}
  NoText = NoText
  OwnName = OwnName
  BuiltInText = BuiltInText
  AnyText = AnyText
  User = {u1}
  Request = {r1}
  NoRequest = NoRequest
  Handler = {h1, h2}
  SaveMayFail = FALSE
SYMMETRY Symmetry
INVARIANT NoMenuOrphan
