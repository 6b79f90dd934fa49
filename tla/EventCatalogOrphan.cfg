\* The same promise as EventCatalogMenus.cfg when a save can fail.
SPECIFICATION Spec
CONSTANTS
  e1 = e1
  Event = {e1}
  BuiltIn = {}
  Fold <- MCFold
  Text = {}
  NoText = NoText
  OwnName = OwnName
  BuiltInText = BuiltInText
  AnyText = AnyText
  User = {u1}
  Request = {r1}
  NoRequest = NoRequest
  Handler = {h1}
  SaveMayFail = TRUE
INVARIANT NoMenuOrphan
