\* Two subscribers and one HTTP request after the other.
SPECIFICATION Spec
SYMMETRY Symmetry
CONSTANTS
  Sub = {u1, u2}
  Camera = door
  Class = {}
  SystemEvent = {}
  NotifyEvent = {bell}
  Call = {c1}
  Delay = {2}
  DefaultRepeatDelay = 1
  PauseLength = {0, 2}
PROPERTY NotifyWaits
