\* A chat and an admin with a menu each, two taps beside the text commands.
SPECIFICATION Spec
VIEW View
SYMMETRY Symmetry
CONSTANTS
  Someone = someone
  Boss = boss
  HisMenu = hisMenu
  BossMenu = bossMenu
  User = {someone, boss}
  Manager = {boss}
  Count = 2
  Message = {hisMenu, bossMenu}
  ChatOf <- MCChatOf
  Press = {p1, p2}
  Poller = poller
  Own = {someone}
  Offered <- MCOffered
  Typed = {"subscribe", "pauseAll"}
  MaxAtWork = 2
INVARIANTS
  TypeOK
  UndisturbedTap
  ChangesSaved
PROPERTY OrdersCarriedOut
