\* Two chats, one press beside the poller.
SPECIFICATION Spec
VIEW View
CONSTANTS
  User = {u1, u2}
  Poller = Poller
  Press = {p1}
  MenuAction = {"allow", "deny", "ignore", "unignore", "admin", "unadmin", "delete"}
  TextAction = {"unadmin"}
INVARIANTS
  TypeOK
  RolesSaved
PROPERTIES
  UndisturbedMenuKeepsAdmin
  UndisturbedContactKeepsAdmins
