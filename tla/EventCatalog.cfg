\* One event, two descriptions, two requests, one chat handler; any save of
\* the state file may fail and the process may restart at any step.
SPECIFICATION FairSpec
CONSTANTS
  e1 = e1
  Event = {e1}
  BuiltIn = {}
  Fold <- MCFold
  Text = {d1, d2}
  NoText = NoText
  OwnName = OwnName
  BuiltInText = BuiltInText
  AnyText = AnyText
  User = {u1}
  Request = {r1, r2}
  NoRequest = NoRequest
  Handler = {h1}
  SaveMayFail = TRUE
INVARIANTS
  TypeOK
  NoMemoryOnlyEvent
  PromiseKept
  RemovedStaysRemoved
PROPERTIES
  RegistrySpec
  RequestAnswered
