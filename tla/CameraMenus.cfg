\* An admin and another, two cameras, two presses at a time, five taps.
SPECIFICATION Spec
SYMMETRY Symmetry
CONSTANTS
  Gate = gate
  Pool = pool
  Camera = {gate, pool}
  NoCamera = NoCamera
  NoEntry = NoEntry
  Native <- MCNative
  Lists <- MCLists
  User = {boss, guest}
  Manager = {boss}
  Tapper = {boss}
  Trigger = {"motion"}
  Offered <- MCOffered
  Found <- MCFound
  Legacy <- MCLegacy
  Press = {p1, p2}
  MaxTaps = 5
INVARIANTS
  TypeOK
  ChoicesKept
  ClipsWithinLimits
  ChangesSaved
PROPERTY UndisturbedPick
