\* One subscriber; a camera with one class, a system event, an HTTP event.
SPECIFICATION Spec
CONSTANTS
  Sub = {u1}
  Camera = door
  Class = {human}
  SystemEvent = {offline}
  NotifyEvent = {bell}
  Call = {c1}
  Delay = {2}
  DefaultRepeatDelay = 1
  PauseLength = {0, 2}
INVARIANTS
  TypeOK
  PauseKept
PROPERTY StreamWaits
