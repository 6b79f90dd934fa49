----------------------------- MODULE AdminRoles ------------------------------
(****************************************************************************)
(* Who may use the bot and who is an admin: the records of the subscribers, *)
(* as Telegram messages (pkg/messenger) and the subscriber-management menu  *)
(* (pkg/chat) change them.                                                  *)
(*                                                                          *)
(*  - one poller goroutine reads the updates; it handles a text message to  *)
(*    its end before it takes the next update;                              *)
(*  - for a button press the poller looks the presser up and starts a       *)
(*    goroutine, so presses run beside each other and beside the poller;    *)
(*  - each accessor of a record (IsAdmin, SetIgnored, ...) locks the record *)
(*    for itself: what a handler does is a sequence of such steps;          *)
(*  - a handler holds a pointer to the record it looked up.  Deleting a     *)
(*    subscriber leaves the pointer good; who messages again gets a new     *)
(*    record.                                                               *)
(*                                                                          *)
(* Records are read and written through golift.io/subscribe, modelled from  *)
(* how the code relies on it.  Names, contacts and the rename prompt are    *)
(* left out; the save of a handler is taken to succeed.                     *)
(****************************************************************************)
EXTENDS Naturals, FiniteSets, Sequences

CONSTANTS
  User,        \* Telegram chats
  Poller,      \* the goroutine that reads the updates
  Press,       \* goroutines serving button presses
  MenuAction,  \* the actions admins tap in the menu
  TextAction   \* the admin commands they type

Action == {"allow", "deny", "ignore", "unignore", "admin", "unadmin"}

ASSUME RolesAssumption ==
  /\ User # {} /\ Poller \notin Press
  /\ MenuAction \subseteq Action \cup {"delete"}
  /\ TextAction \subseteq Action

VARIABLES
  record,     \* the subscriber records, deleted ones that are still held too
  current,    \* Subs.Subscribers: which of a chat's records is in the database
  disk,       \* the state file
  proc,       \* the goroutines: startTelegram, and one per press
  unsaved,    \* (history) chats changed by a message that does not save
  disturbed   \* (history) handlers during which another changed a record

vars == <<record, current, disk, proc, unsaved, disturbed>>

-----------------------------------------------------------------------------
(* Records *)

Process == Press \cup {Poller}

(* A pointer to a record: the chat's ID and one of two addresses.  A chat   *)
(* is in the database with one of them, or with none.                       *)
Address == {1, 2}
Record == User \X Address
ID(r) == r[1]
Known(u) == current[u] # 0
RecordOf(u) == <<u, current[u]>>

Flags == [admin: BOOLEAN, ignored: BOOLEAN, authed: BOOLEAN]
NewFlags == [admin |-> FALSE, ignored |-> FALSE, authed |-> FALSE]

(* Subs.GetAdmins *)
Admins == {u \in User : Known(u) /\ record[RecordOf(u)].admin}

(* What a save writes: the flags of a chat, or nothing. *)
ImageOfAllRecords == [u \in User |-> {record[<<u, a>>] : a \in Address}]
Image == [u \in User |-> IF Known(u) THEN {record[RecordOf(u)]} ELSE {}]

(* What a handler carries: who pressed or wrote, the action and the chat it *)
(* names, the record found for it, the accessors still to be called, and    *)
(* the admin flag it read for CreateSubWithID.                              *)
Someone == CHOOSE u \in User : TRUE
Idle == [pc |-> "idle", by |-> <<Someone, 1>>, action |-> "none", user |-> Someone,
         target |-> <<Someone, 1>>, todo |-> <<>>, admin |-> FALSE]

Step == {"idle", "enter", "find", "create", "unauth", "dispatch", "id", "write", "delete", "save"}
Accessor == {"admin", "ignored", "authed"} \X BOOLEAN

(* What the file holds of a chat: its flags, or nothing. *)
Saved == {{}} \cup {{f} : f \in Flags}

Handler ==
  [pc: Step, by: Record, action: Action \cup {"delete", "id", "none"}, user: User,
   target: Record, todo: Seq(Accessor), admin: BOOLEAN]

TypeOK ==
  /\ record \in [Record -> Flags]
  /\ current \in [User -> {0} \cup Address]
  /\ disk \in [User -> Saved]
  /\ proc \in [Process -> Handler]
  /\ unsaved \subseteq User
  /\ disturbed \subseteq Process

(* Records some handler will still read or write through its pointer. *)
Held(r) ==
  \E p \in Process : \/ proc[p].pc \in {"enter", "unauth", "dispatch"} /\ proc[p].by = r
                     \/ proc[p].pc = "write" /\ proc[p].target = r

(* A handler goes on, or ends. *)
Goto(p, q) == proc' = [proc EXCEPT ![p] = q]
Finish(p) == Goto(p, Idle)
UNCHANGEDRecords == UNCHANGED <<record, current, disk, unsaved>>

(* CreateSubWithID: a chat in the database has its flags set, another gets  *)
(* a record (at an address no handler still points to).                     *)
Create(u, admin) ==
  \/ /\ Known(u)
     /\ record' = [record EXCEPT ![RecordOf(u)].admin = admin,
                                 ![RecordOf(u)].ignored = FALSE]
     /\ UNCHANGED current
  \/ /\ ~Known(u)
     /\ \E a \in Address :
          /\ ~Held(<<u, a>>)
          /\ current' = [current EXCEPT ![u] = a]
          /\ record' = [record EXCEPT ![<<u, a>>] = [NewFlags EXCEPT !.admin = admin]]

-----------------------------------------------------------------------------
(* The actions *)

(* The accessors an action calls, in order.  The menu's "Make admin" also   *)
(* unlocks the bot; the command /admin does not.                            *)
Calls(action) ==
  CASE action = "allow"    -> << <<"authed", TRUE>>, <<"ignored", FALSE>> >>
    [] action = "deny"     -> << <<"authed", FALSE>> >>
    [] action = "ignore"   -> << <<"ignored", TRUE>>, <<"admin", FALSE>> >>
    [] action = "unignore" -> << <<"ignored", FALSE>> >>
    [] action = "admin"    -> << <<"admin", TRUE>> >>
    [] action = "unadmin"  -> << <<"admin", FALSE>> >>
    [] action = "delete"   -> << >>
MenuCalls(action) ==
  IF action = "admin" THEN << <<"admin", TRUE>>, <<"ignored", FALSE>>, <<"authed", TRUE>> >>
  ELSE Calls(action)

(* usersWizardDelete, applyUsersAction: what an admin may not do to himself *)
(* and what may not be done to the last admin.                              *)
NeverSelf(q, target) == FALSE
Self(q, target) == ID(q.by) = ID(target)
LastAdmin(target) == record[target].admin /\ Cardinality(Admins) <= 1
Blocked(q, target) ==
  \/ q.action \in {"delete", "deny", "ignore", "unadmin"} /\ Self(q, target)
  \/ q.action \in {"delete", "unadmin"} /\ LastAdmin(target)

-----------------------------------------------------------------------------
(* Button presses *)

(* recvTelegramCallback, in the poller: a known, authenticated chat gets a  *)
(* goroutine.  The button may be an old one: any action, any chat.          *)
ReceivePress(p) ==
  /\ proc[Poller].pc = "idle" /\ proc[p].pc = "idle"
  /\ \E u \in User, action \in MenuAction, user \in User :
       /\ Known(u) /\ record[RecordOf(u)].authed
       /\ Goto(p, [Idle EXCEPT !.pc = "enter", !.by = RecordOf(u),
                               !.action = action, !.user = user])
  /\ UNCHANGEDRecords

(* HandleCallback drops the ignored, usersWizardAction all but admins. *)
Enter(p) ==
  LET q == proc[p] IN
  /\ q.pc = "enter"
  /\ IF record[q.by].ignored \/ ~record[q.by].admin
     THEN Finish(p) ELSE Goto(p, [q EXCEPT !.pc = "find"])
  /\ UNCHANGEDRecords

(* adminTargetByID, and the guards. *)
Find(p) ==
  LET q == proc[p] IN
  /\ q.pc = "find"
  /\ IF ~Known(q.user) \/ Blocked(q, RecordOf(q.user))
     THEN Finish(p)
     ELSE Goto(p, [q EXCEPT !.target = RecordOf(q.user),
                            !.todo = MenuCalls(q.action),
                            !.pc = IF q.action = "delete" THEN "delete" ELSE "write"])
  /\ UNCHANGEDRecords

(* DeleteSubscriber, by ID; it fails if someone else deleted the chat. *)
Delete(p) ==
  LET q == proc[p] IN
  /\ q.pc = "delete"
  /\ current' = [current EXCEPT ![q.user] = 0]
  /\ IF Known(q.user) THEN Goto(p, [q EXCEPT !.pc = "save"]) ELSE Finish(p)
  /\ UNCHANGED <<record, disk, unsaved>>

(* A handler that changed something returns save = true. *)
ReplyUnsaved(q) == IF Len(q.todo) = 1 THEN "idle" ELSE "write"
AfterCall(q) == IF Len(q.todo) = 1 THEN "save" ELSE "write"

(* One accessor, on the record that was found, deleted since or not. *)
Write(p) ==
  LET q == proc[p]
      field == Head(q.todo)[1]
      value == Head(q.todo)[2] IN
  /\ q.pc = "write"
  /\ record' = [record EXCEPT ![q.target] = [@ EXCEPT ![field] = value]]
  /\ Goto(p, [q EXCEPT !.todo = Tail(@), !.pc = AfterCall(q)])
  /\ UNCHANGED <<current, disk, unsaved>>

(* HandleCallback and HandleCommand: SaveState, then the reply. *)
Save(p) ==
  /\ proc[p].pc = "save"
  /\ disk' = Image /\ unsaved' = {}
  /\ Finish(p)
  /\ UNCHANGED <<record, current>>

-----------------------------------------------------------------------------
(* Text messages *)

(* recvTelegramHandler: an unknown chat is about to get a record, as an     *)
(* admin if there is none now.                                              *)
ReceiveMessage ==
  /\ proc[Poller].pc = "idle"
  /\ \E u \in User, action \in TextAction \cup {"id", "none"}, user \in User :
       /\ action \in {"id", "none"} => user = u
       /\ LET q == [Idle EXCEPT !.action = action, !.user = user] IN
          \/ Known(u)  /\ Goto(Poller, [q EXCEPT !.pc = "dispatch", !.by = RecordOf(u)])
          \/ ~Known(u) /\ Goto(Poller, [q EXCEPT !.pc = "create", !.by = <<u, 1>>,
                                                 !.admin = Admins = {}])
  /\ UNCHANGEDRecords

FirstContact ==
  LET q == proc[Poller]
      u == ID(q.by) IN
  /\ q.pc = "create"
  /\ Create(u, q.admin)
  /\ Goto(Poller, [q EXCEPT !.pc = "unauth", !.by = <<u, current'[u]>>])
  /\ unsaved' = unsaved \cup {u}
  /\ UNCHANGED disk

(* SetSubAuthed(sub, false): of a chat an admin has allowed since, too. *)
Unauthenticate ==
  LET q == proc[Poller] IN
  /\ q.pc = "unauth"
  /\ record' = [record EXCEPT ![q.by].authed = FALSE]
  /\ unsaved' = unsaved \cup {ID(q.by)}
  /\ Goto(Poller, [q EXCEPT !.pc = "dispatch"])
  /\ UNCHANGED <<current, disk>>

NoAdmin(me) == FALSE
AdminAsRead(me) == me.admin

(* The password: the record is authenticated and its admin flag read.  The  *)
(* rest of the text goes nowhere unless the record is authenticated and not *)
(* ignored; admins' commands find the chat they name (any other command     *)
(* that saves, "none", changes no role).                                    *)
Dispatch ==
  LET q == proc[Poller]
      me == record[q.by] IN
  /\ q.pc = "dispatch"
  /\ IF q.action = "id"
     THEN /\ record' = [record EXCEPT ![q.by].authed = TRUE]
          /\ unsaved' = unsaved \cup {ID(q.by)}
          /\ Goto(Poller, [q EXCEPT !.pc = "id", !.admin = AdminAsRead(me)])
     ELSE /\ UNCHANGED <<record, unsaved>>
          /\ CASE ~me.authed \/ me.ignored -> Finish(Poller)
               [] me.authed /\ ~me.ignored /\ q.action = "none" ->
                    Goto(Poller, [q EXCEPT !.pc = "save"])
               [] OTHER ->
                    IF ~me.admin \/ ~Known(q.user) THEN Finish(Poller)
                    ELSE Goto(Poller, [q EXCEPT !.pc = "write",
                           !.target = RecordOf(q.user), !.todo = Calls(q.action)])
  /\ UNCHANGED <<current, disk>>

(* CreateSubWithID with the admin flag read before; no save. *)
Authenticate ==
  LET q == proc[Poller] IN
  /\ q.pc = "id"
  /\ Create(ID(q.by), q.admin)
  /\ unsaved' = unsaved \cup {ID(q.by)}
  /\ Finish(Poller)
  /\ UNCHANGED disk

-----------------------------------------------------------------------------
(* The program may stop anywhere; GetDB reads the state file. *)
Restart ==
  /\ current' = [u \in User |-> IF disk[u] = {} THEN 0 ELSE 1]
  /\ record' = [r \in Record |-> IF r[2] = 1 /\ disk[ID(r)] # {}
                                 THEN CHOOSE f \in disk[ID(r)] : TRUE ELSE NewFlags]
  /\ proc' = [p \in Process |-> Idle]
  /\ unsaved' = {}
  /\ UNCHANGED disk

Init ==
  /\ disk = [u \in User |-> {}]
  /\ current = [u \in User |-> 0]
  /\ record = [r \in Record |-> NewFlags]
  /\ proc = [p \in Process |-> Idle]
  /\ unsaved = {} /\ disturbed = {}

PressStep(p) == ReceivePress(p) \/ Enter(p) \/ Find(p) \/ Delete(p) \/ Write(p) \/ Save(p)
PollerStep ==
  \/ ReceiveMessage \/ FirstContact \/ Unauthenticate \/ Dispatch \/ Authenticate
  \/ Write(Poller) \/ Save(Poller)

NoteDisturbed ==
  disturbed' = {p \in Process : /\ proc'[p].pc # "idle"
                                /\ \/ p \in disturbed
                                   \/ /\ proc'[p] = proc[p]
                                      /\ <<record, current>>' # <<record, current>>}

Next ==
  /\ (\E p \in Press : PressStep(p)) \/ PollerStep \/ Restart
  /\ NoteDisturbed

Spec == Init /\ [][Next]_vars

-----------------------------------------------------------------------------
(* Properties *)

(* What a role change was answered with is on disk: memory and file differ  *)
(* only in chats that a message changed without a save (first contact, the  *)
(* password), or while the handler that changes them has yet to save.  So a *)
(* restart never undoes an answered allow, deny, ignore, admin or delete.   *)
RolesSaved ==
  \A u \in User :
    \/ disk[u] = Image[u]
    \/ u \in unsaved
    \/ \E p \in Process : proc[p].pc \in {"write", "save"} /\ proc[p].user = u

(* wizard_admin.go 172-174 and 236-238: "Can't delete the last admin.",     *)
(* "Can't remove the last admin."  The menu never takes the last admin,     *)
(* whatever its action (ignore removes an admin too, without looking),      *)
(* unless another handler changed a record between the press and the write. *)
TakesLastAdmin(p) == Admins # {} /\ (Write(p) \/ Delete(p)) /\ Admins' = {}
UndisturbedMenuKeepsAdmin == [][\A p \in Press \ disturbed : ~TakesLastAdmin(p)]_vars

(* A first contact makes an admin only if there is none, and the password   *)
(* changes nobody's role (recvTelegramHandler reads the flag it sets again),*)
(* unless a press changed a record since the message was read.              *)
ContactKeepsAdmins ==
  /\ FirstContact => Admins' = IF Admins = {} THEN {ID(proc[Poller].by)} ELSE Admins
  /\ Authenticate => Admins' = Admins
UndisturbedContactKeepsAdmins == [][Poller \notin disturbed => ContactKeepsAdmins]_vars

=============================================================================
