---------------------------- MODULE RenamePrompt -----------------------------
(****************************************************************************)
(* The names of the subscribers, and the prompt with which an admin gives   *)
(* one (pkg/chat/wizard_admin.go, chat.go; pkg/messenger/telegram.go).      *)
(*                                                                          *)
(*  - "Rename" in the menu notes the subscriber in the admin's own record   *)
(*    (Meta "pendingRenameID"), saves and asks for the name; the admin's    *)
(*    next message is taken for it.  A slash command, Cancel, Done and the  *)
(*    menus for managing subscribers clear the note;                        *)
(*  - a button press has a goroutine of its own, a message is handled by    *)
(*    the poller, so what the admin tapped last need not be what is done    *)
(*    last;                                                                 *)
(*  - every message and press reports the sender's own name.  It fills a    *)
(*    blank Contact, and is kept in Meta from where a menu that shows       *)
(*    someone with a blank Contact recovers it;                             *)
(*  - a save writes all of memory, a restart reads it back.                 *)
(*                                                                          *)
(* Left out: who is authenticated or ignored, and pointers to deleted       *)
(* records (AdminRoles has these); everyone here may use the bot, and no    *)
(* admin is deleted.  Saves do not fail.                                    *)
(****************************************************************************)
EXTENDS FiniteSets

CONSTANTS
  User,      \* chats
  Manager,   \* those that are admins, or have been
  Name,      \* names
  Given,     \* those an admin may give
  Blank,     \* no name
  Nobody,    \* no subscriber
  Reported,  \* what each chat may report: names or Blank
  Press,     \* goroutines serving button presses
  Poller     \* the goroutine that handles messages

ASSUME PromptAssumption ==
  /\ Manager \subseteq User /\ Nobody \notin User
  /\ Blank \notin Name /\ Given \subseteq Name /\ Reported \in [User -> SUBSET (Name \cup {Blank})]
  /\ Poller \notin Press

VARIABLES
  known,     \* who has a record
  admins,    \* who is an admin now
  contact,   \* Contact of each record
  meta,      \* the name its Meta has
  pending,   \* the "pendingRenameID" the Meta of an admin has
  disk,      \* the state file
  proc,      \* the goroutines
  promised,  \* (history) the name an admin was told a chat has now
  asked,     \* (history) whose rename each admin is asked to type, as he was told
  muddled    \* (history) admins of whom two goroutines were at work at once, or
             \* with whom a restart or the loss of the role interfered, since a
             \* press last settled the prompt

vars == <<known, admins, contact, meta, pending, disk, proc, promised, asked, muddled>>

-----------------------------------------------------------------------------
(* Records and goroutines *)

Process == Press \cup {Poller}
Somebody == User \cup {Nobody}
AnyName == Name \cup {Blank}

(* A press is for one of these; a message is a name, or a command with or   *)
(* without a slash: /name, or another that may save.                        *)
Clearing == {"item", "menu", "done"}
Tapped == {"rename"} \cup Clearing
Typed == {"plain", "name", "/name", "/other"}
Slash == {"/name", "/other"}

Idle == [pc |-> "idle"]
Pressing ==
  [pc: {"tapped", "show", "save", "edit"}, by: Manager, do: Tapped, user: User,
   todo: SUBSET User, asks: Somebody] \cup
  [pc: {"fill"}, by: Manager, do: Tapped, user: User, todo: SUBSET User,
   asks: Somebody, whose: User, name: Name]
Reading ==
  [pc: {"text", "clear", "cancel", "rename", "command", "answer"}, by: Manager, do: Typed,
   user: User, name: Given]

TypeOK ==
  /\ known \subseteq User /\ Manager \subseteq known /\ admins \subseteq Manager
  /\ contact \in [User -> AnyName] /\ meta \in [User -> AnyName]
  /\ pending \in [Manager -> Somebody]
  /\ disk \in [known: SUBSET User, contact: [User -> AnyName], meta: [User -> AnyName],
               pending: [Manager -> Somebody]]
  /\ Manager \subseteq disk.known
  /\ proc \in [Process -> {Idle} \cup Pressing \cup Reading]
  /\ proc[Poller] \in {Idle} \cup Reading
  /\ \A p \in Press : proc[p] \in {Idle} \cup Pressing
  /\ promised \in [User -> AnyName]
  /\ asked \in [Manager -> Somebody] /\ muddled \subseteq Manager

AtWork(a) == {p \in Process : proc[p] # Idle /\ proc[p].by = a}
Goto(p, q) == proc' = [proc EXCEPT ![p] = q]
PressOn(p, pc, todo, asks) ==
  Goto(p, [pc |-> pc, by |-> proc[p].by, do |-> proc[p].do, user |-> proc[p].user,
           todo |-> todo, asks |-> asks])
ReadOn(pc, user) ==
  Goto(Poller, [pc |-> pc, by |-> proc[Poller].by, do |-> proc[Poller].do, user |-> user,
                name |-> proc[Poller].name])
Another(a) == muddled' = IF AtWork(a) = {} THEN muddled ELSE muddled \cup {a}

UNCHANGEDNames == UNCHANGED <<contact, meta, promised>>
UNCHANGEDHistory == UNCHANGED <<promised, asked, muddled>>

(* SaveState *)
Image == [known |-> known, contact |-> contact, meta |-> meta, pending |-> pending]

(* SetContactIfEmpty; SetContact *)
IfEmpty(u, n) == [contact EXCEPT ![u] = IF @ = Blank THEN n ELSE @]
Overwrite(u, n) == [contact EXCEPT ![u] = n]

-----------------------------------------------------------------------------
(* What every message and press does first *)

(* EnsureSubContact, SetSubDisplayName: one step, as whoever reads Meta     *)
(* does so for a blank contact, which after the first is not blank unless   *)
(* the name is, and then the second changes nothing.                        *)
Ensured(u, n) == IfEmpty(u, n)
Report(u, n) ==
  /\ contact' = Ensured(u, n)
  /\ meta' = IF n = Blank THEN meta ELSE [meta EXCEPT ![u] = n]

(* A message of someone new: CreateSubWithID, then the same. *)
FirstContact(u, n) ==
  /\ u \notin known /\ known' = known \cup {u}
  /\ contact' = [contact EXCEPT ![u] = n]
  /\ meta' = [meta EXCEPT ![u] = n]

(* What is typed by someone who is no admin changes no name. *)
Write(u) ==
  /\ proc[Poller] = Idle
  /\ \E n \in Reported[u] :
       \/ FirstContact(u, n)
       \/ u \in known /\ Report(u, n) /\ UNCHANGED known
  /\ UNCHANGED <<admins, pending, disk, proc>> /\ UNCHANGEDHistory

(* recvTelegramHandler, of an admin or one who was: a name, or a command    *)
(* that names a subscriber and his new name.                                *)
WriteAsAdmin(a) ==
  /\ proc[Poller] = Idle
  /\ \E n \in Reported[a] : Report(a, n)
  /\ \E do \in Typed, u \in User, n \in Given :
       Goto(Poller, [pc |-> "text", by |-> a, do |-> do, user |-> u, name |-> n])
  /\ Another(a)
  /\ UNCHANGED <<known, admins, pending, disk, promised, asked>>

(* recvTelegramCallback *)
Tap(p, a) ==
  /\ proc[p] = Idle /\ proc[Poller] = Idle
  /\ \E n \in Reported[a] : Report(a, n)
  /\ \E do \in Tapped, u \in User :
       Goto(p, [pc |-> "tapped", by |-> a, do |-> do, user |-> u, todo |-> {}, asks |-> Nobody])
  /\ Another(a)
  /\ UNCHANGED <<known, admins, pending, disk, promised, asked>>

-----------------------------------------------------------------------------
(* A button press *)

(* usersWizardRenamePrompt: a press that is refused leaves the prompt as it *)
(* is.  The others settle it, if no other handler of the admin is at work.  *)
Settled(p) ==
  muddled' = IF AtWork(proc[p].by) = {p} THEN muddled \ {proc[p].by} ELSE muddled

Ask(p) ==
  LET q == proc[p] IN
  /\ q.pc = "tapped" /\ q.do = "rename" /\ q.by \in admins /\ q.user \in known
  /\ pending' = [pending EXCEPT ![q.by] = q.user]
  /\ PressOn(p, "show", {q.user}, q.user)
  /\ Settled(p)
  /\ UNCHANGED <<known, admins, disk, asked>> /\ UNCHANGEDNames

RefuseToAsk(p) ==
  LET q == proc[p] IN
  /\ q.pc = "tapped" /\ q.do = "rename" /\ (q.by \notin admins \/ q.user \notin known)
  /\ PressOn(p, "show", {}, asked[q.by])
  /\ UNCHANGED <<known, admins, pending, disk>> /\ UNCHANGEDNames /\ UNCHANGED <<asked, muddled>>

(* clearPendingRename, on Done, on a subscriber (which Cancel is too), on   *)
(* the list of them and on the menus for their subscriptions, before the    *)
(* look whether an admin taps.                                              *)
ClearsButItem(do) == do \in Clearing \ {"item"}
Clears(do) == do \in Clearing
Clear(p) ==
  LET q == proc[p] IN
  /\ q.pc = "tapped" /\ q.do \in Clearing
  /\ pending' = IF Clears(q.do) THEN [pending EXCEPT ![q.by] = Nobody] ELSE pending
  /\ PressOn(p, "show",
             CASE q.by \notin admins \/ q.do = "done" -> {}
               [] q.by \in admins /\ q.do = "item" -> known \cap {q.user}
               [] OTHER -> known,
             Nobody)
  /\ Settled(p)
  /\ UNCHANGED <<known, admins, disk, asked>> /\ UNCHANGEDNames

(* subscriberDisplayName: a blank contact is filled with the name Meta had  *)
(* when it was read.                                                        *)
Nameless(u) == contact[u] = Blank /\ meta[u] # Blank
ReadName(p) ==
  /\ proc[p].pc = "show"
  /\ \E u \in proc[p].todo :
       /\ Nameless(u)
       /\ LET q == proc[p] IN
          Goto(p, [pc |-> "fill", by |-> q.by, do |-> q.do, user |-> q.user, asks |-> q.asks,
                   todo |-> q.todo \ {u}, whose |-> u, name |-> meta[u]])
  /\ UNCHANGED <<known, admins, pending, disk, asked, muddled>> /\ UNCHANGEDNames

FilledAnyway(u, n) == Overwrite(u, n)
Filled(u, n) == IfEmpty(u, n)
FillName(p) ==
  LET q == proc[p] IN
  /\ q.pc = "fill"
  /\ contact' = IF q.whose \in known THEN Filled(q.whose, q.name) ELSE contact
  /\ PressOn(p, "show", q.todo, q.asks)
  /\ UNCHANGED <<known, admins, meta, pending, disk, promised, asked, muddled>>

(* The menu is made.  handleUsersWizardCallback has the prompt saved,       *)
(* handleWizardCallback what Done cleared, and nobody what Cancel cleared.  *)
SavesDone(do) == do = "done"
Saves(do) == do \in {"rename", "done"}
Shown(p) ==
  /\ proc[p].pc = "show" /\ \A u \in proc[p].todo : ~Nameless(u)
  /\ PressOn(p, IF Saves(proc[p].do) THEN "save" ELSE "edit", {}, proc[p].asks)
  /\ UNCHANGED <<known, admins, pending, disk, asked, muddled>> /\ UNCHANGEDNames

SavePress(p) ==
  /\ proc[p].pc = "save" /\ disk' = Image
  /\ PressOn(p, "edit", {}, proc[p].asks)
  /\ UNCHANGED <<known, admins, pending, asked, muddled>> /\ UNCHANGEDNames

(* The admin is told. *)
Edit(p) ==
  /\ proc[p].pc = "edit"
  /\ asked' = [asked EXCEPT ![proc[p].by] = proc[p].asks]
  /\ Goto(p, Idle)
  /\ UNCHANGED <<known, admins, pending, disk, muddled>> /\ UNCHANGEDNames

-----------------------------------------------------------------------------
(* An admin's message *)

Message(pc) == proc[Poller].pc = pc
UNCHANGEDButPoller == UNCHANGED <<known, admins, asked, muddled>>

(* consumePendingRename: without a prompt it is a command. *)
AnyAdmin(a) == a \in admins
HasPrompt(a) == a \in admins /\ pending[a] # Nobody
ReadPrompt ==
  LET q == proc[Poller] IN
  /\ Message("text")
  /\ IF ~HasPrompt(q.by) THEN ReadOn("command", q.user)
     ELSE ReadOn("clear", IF q.do \in Slash THEN q.user ELSE pending[q.by])
  /\ UNCHANGEDButPoller /\ UNCHANGED <<pending, disk>> /\ UNCHANGEDNames

Consumed(a) == [pending EXCEPT ![a] = Nobody]
ClearPrompt ==
  LET q == proc[Poller] IN
  /\ Message("clear") /\ pending' = Consumed(q.by)
  /\ ReadOn(IF q.do \in Slash THEN "cancel" ELSE "rename", q.user)
  /\ UNCHANGEDButPoller /\ UNCHANGED disk /\ UNCHANGEDNames

(* applyPendingRename saves, and the command is run. *)
SaveCancel ==
  LET q == proc[Poller] IN
  /\ Message("cancel") /\ disk' = Image
  /\ asked' = [asked EXCEPT ![q.by] = Nobody]
  /\ ReadOn("command", q.user)
  /\ UNCHANGED <<known, admins, pending, muddled>> /\ UNCHANGEDNames

(* The name is given, if its bearer is still there. *)
Give(u, n) ==
  /\ contact' = IF u \in known THEN Overwrite(u, n) ELSE contact
  /\ meta' = IF u \in known THEN [meta EXCEPT ![u] = n] ELSE meta
  /\ promised' = [promised EXCEPT ![u] = Blank]

Rename ==
  /\ Message("rename") /\ Give(proc[Poller].user, proc[Poller].name)
  /\ ReadOn("answer", proc[Poller].user)
  /\ UNCHANGEDButPoller /\ UNCHANGED <<pending, disk>>

(* cmdAdminName saves if it found the subscriber; of the other commands     *)
(* some save.                                                               *)
Command ==
  LET q == proc[Poller] IN
  /\ Message("command")
  /\ IF q.by \in admins /\ q.do \in {"name", "/name"} /\ q.user \in known
       THEN Give(q.user, q.name) /\ ReadOn("answer", q.user) /\ UNCHANGED disk
       ELSE UNCHANGEDNames /\ Goto(Poller, Idle) /\ disk' \in {disk, Image}
  /\ UNCHANGEDButPoller /\ UNCHANGED pending

(* HandleCommand saves and the admin is told. *)
Answer ==
  LET q == proc[Poller] IN
  /\ Message("answer") /\ disk' = Image
  /\ promised' = IF q.user \in known THEN [promised EXCEPT ![q.user] = q.name] ELSE promised
  /\ asked' = IF q.do \in {"plain", "name"} THEN [asked EXCEPT ![q.by] = Nobody] ELSE asked
  /\ Goto(Poller, Idle)
  /\ UNCHANGED <<known, admins, contact, meta, pending, muddled>>

-----------------------------------------------------------------------------
(* The others *)

(* An admin is made or unmade, someone who is none is deleted (AdminRoles). *)
Role(a) ==
  /\ \/ admins' = admins \cup {a} /\ UNCHANGED muddled
     \/ admins' = admins \ {a} /\ muddled' = muddled \cup {a}
  /\ UNCHANGED <<known, pending, disk, proc, asked>> /\ UNCHANGEDNames

Forget(f, u) == [f EXCEPT ![u] = Blank]
Delete(u) ==
  /\ u \in known \ Manager /\ known' = known \ {u}
  /\ contact' = Forget(contact, u) /\ meta' = Forget(meta, u) /\ promised' = Forget(promised, u)
  /\ UNCHANGED <<admins, pending, disk, proc, asked, muddled>>

(* Any other handler that saves. *)
OtherSave ==
  /\ disk' = Image
  /\ UNCHANGED <<known, admins, pending, proc, asked, muddled>> /\ UNCHANGEDNames

(* A restart brings back what was saved: also a prompt whose cancel was     *)
(* not.                                                                     *)
BroughtBack == {a \in Manager : asked[a] = Nobody /\ disk.pending[a] # Nobody}
Restart ==
  /\ known' = disk.known /\ contact' = disk.contact /\ meta' = disk.meta
  /\ pending' = disk.pending
  /\ promised' = [u \in User |-> IF u \in disk.known THEN promised[u] ELSE Blank]
  /\ proc' = [p \in Process |-> Idle]
  /\ muddled' = muddled \cup BroughtBack \cup {a \in Manager : AtWork(a) # {}}
  /\ UNCHANGED <<admins, disk, asked>>

(* Records of a file written before names were kept have them in Meta only. *)
Init ==
  /\ known = User /\ admins = Manager
  /\ contact = [u \in User |-> Blank]
  /\ meta \in [User -> AnyName] /\ \A u \in User : meta[u] \in Reported[u]
  /\ pending = [a \in Manager |-> Nobody]
  /\ disk = Image
  /\ proc = [p \in Process |-> Idle]
  /\ promised = [u \in User |-> Blank]
  /\ asked = [a \in Manager |-> Nobody] /\ muddled = {}

ServePress(p) ==
  Ask(p) \/ RefuseToAsk(p) \/ Clear(p) \/ ReadName(p) \/ FillName(p) \/ Shown(p)
  \/ SavePress(p) \/ Edit(p)
ServeMessage ==
  ReadPrompt \/ ClearPrompt \/ SaveCancel \/ Rename \/ Command \/ Answer

Next ==
  \/ \E u \in User \ Manager : Write(u) \/ Delete(u)
  \/ \E a \in Manager : WriteAsAdmin(a) \/ Role(a) \/ \E p \in Press : Tap(p, a)
  \/ \E p \in Press : ServePress(p)
  \/ ServeMessage \/ OtherSave \/ Restart

Spec == Init /\ [][Next]_vars

-----------------------------------------------------------------------------
(* Properties *)

(* substate.go 92: "An existing contact (admin rename, earlier first/last   *)
(* name) is never clobbered".  A name an admin was told a chat has now is   *)
(* its name until he gives another: no message or press of the chat, no     *)
(* menu that recovers names and no restart changes it.                      *)
NamesKept ==
  \A u \in User :
    promised[u] # Blank => contact[u] = promised[u]

(* A message is taken for the name of the one whose rename the admin was    *)
(* asked to type, and for none after a Cancel, a Done, a command or another *)
(* name, unless his presses and messages overlapped, he was no admin for a  *)
(* while or a restart brought a cancelled prompt back.                      *)
NameGoesToAsked ==
  Message("rename") /\ proc[Poller].by \notin muddled =>
    proc[Poller].user = asked[proc[Poller].by]

(* wizard_cmds.go 163: a prompt that was shown is in the state file, so     *)
(* that the message that answers it is a name after a restart, too.         *)
PromptSurvives ==
  \A a \in Manager \ muddled :
    AtWork(a) = {} /\ asked[a] # Nobody => disk.pending[a] = asked[a]

=============================================================================
