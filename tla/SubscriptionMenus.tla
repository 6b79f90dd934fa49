-------------------------- MODULE SubscriptionMenus --------------------------
(****************************************************************************)
(* The menus with which a chat changes its subscriptions, and an admin      *)
(* those of others (pkg/chat/wizard*.go).                                   *)
(*                                                                          *)
(*  - a menu is a message with buttons.  A button that is about one         *)
(*    subscription carries its place in the sorted list of names the menu   *)
(*    was made from; whoever handles the tap looks the place up in the list *)
(*    as it is then;                                                        *)
(*  - each tap is handled in a goroutine: once it runs, it reads the list,  *)
(*    changes the subscription, reads the list for the menu it answers      *)
(*    with, saves, and edits the message; between any two of these others   *)
(*    may run;                                                              *)
(*  - text commands name the subscription.  The poller handles one at a     *)
(*    time.                                                                 *)
(*                                                                          *)
(* Left out: the list of cameras is fixed, so a button that carries a       *)
(* camera's place names it; nobody is deleted (AdminRoles has that); an     *)
(* admin's own subscriptions are changed by his own menus; saves that fail  *)
(* (the handlers ignore the error); the rename prompt.  What a pause or a   *)
(* delay does is in Notifier: here the rules of a subscription were set or  *)
(* they were not.                                                           *)
(****************************************************************************)
EXTENDS Integers, FiniteSets

CONSTANTS
  User,     \* chats
  Manager,  \* those that are admins, or have been
  Count,    \* events one may subscribe to
  Message,  \* menus on the screens
  ChatOf,   \* the chat of each menu
  Press,    \* goroutines serving button presses
  Poller,   \* the goroutine that handles the text commands
  Own,      \* chats that change their own subscriptions
  Offered,  \* what each chat uses its menus for
  Typed,    \* what commands are typed for
  MaxAtWork \* goroutines at work at a time

Event == 1 .. Count   \* in the order of Names()
NoEvent == 0
NoPlace == -1

(* What a button is for: a list, a change of one subscription found in one, *)
(* the menu of one, the delays to choose from; or what has its own name.    *)
List == {"subs", "unsubs", "pauses", "delays"}
Change == {"pause", "delay", "unsub"}
Do == List \cup Change \cup {"open", "pick", "subscribe", "drop", "pauseAll"}

ASSUME MenusAssumption ==
  /\ Manager \cup Own \subseteq User /\ Count \in Nat
  /\ ChatOf \in [Message -> User]
  /\ Offered \in [User -> SUBSET Do] /\ Typed \subseteq Do /\ MaxAtWork \in Nat
  /\ Poller \notin Press /\ (Press \cup {Poller}) \cap Message = {}

VARIABLES
  subscribed,  \* the names in each chat's Events
  ruled,       \* those whose rules (pause, delay) were set since
  admins,      \* who is an admin now
  menu,        \* the buttons each message shows
  proc,        \* the goroutines
  unsaved,     \* (history) chats changed since the last save
  outdated     \* (history) menus, and goroutines whose menu, another changed
               \* the list of since it was read

vars == <<subscribed, ruled, admins, menu, proc, unsaved, outdated>>

-----------------------------------------------------------------------------
(* Menus *)

(* names[idx] of the sorted names *)
Place(names, e) == Cardinality({x \in names : x < e})
At(names, i) == CHOOSE e \in names : Place(names, e) = i
Within(names, i) == i >= 0 /\ i < Cardinality(names)

(* What a button does, whose subscriptions it is about, the place it        *)
(* carries, and the subscription its label or its menu names.               *)
Nameless == List \cup {"pauseAll"}
Button ==
  {b \in [do: Do, about: User, place: -1 .. Count - 1, label: Event \cup {NoEvent}] :
     b.label = NoEvent => b.do \in Nameless}
MakeButton(do, u, i, e) == [do |-> do, about |-> u, place |-> i, label |-> e]

(* One button for each name. *)
Row(do, u, names) == {MakeButton(do, u, Place(names, e), e) : e \in names}

(* The list menus, and the menu of one subscription. *)
ListMenu(do, u, names) ==
  CASE do = "subs" -> Row("open", u, names)
    [] do = "unsubs" -> Row("unsub", u, names)
    [] do = "pauses" ->
         Row("pause", u, names) \cup {MakeButton("pauseAll", u, NoPlace, NoEvent)}
    [] do = "delays" -> Row("pick", u, names)
ItemMenu(u, i, e) == {MakeButton(do, u, i, e) : do \in {"pause", "pick", "unsub"}}

(* Buttons without a place, always a tap or two away. *)
Lists(u) == {MakeButton(do, u, NoPlace, NoEvent) : do \in List}
ByName(u) == {MakeButton(do, u, NoPlace, e) : do \in {"subscribe", "drop"}, e \in Event}
ManageMenu(u) ==
  {b \in Lists(u) \cup ByName(u) : b.do \in {"subs", "subscribe"}}
Navigation(c) ==
  (IF c \in Own THEN Lists(c) \cup ByName(c) ELSE {}) \cup
  (IF c \in Manager THEN UNION {ManageMenu(u) : u \in Own \ {c}} ELSE {})
Tappable(m) == {b \in menu[m] \cup Navigation(ChatOf[m]) : b.do \in Offered[ChatOf[m]]}

(* The commands: the same lists, and changes by name. *)
AllOnes(u) == {MakeButton("pauseAll", u, NoPlace, NoEvent)}
RulesByName(u) ==
  {MakeButton(do, u, NoPlace, e) : do \in {"pause", "delay"}, e \in Event}
Commands(c) ==
  {b \in Lists(c) \cup ByName(c) \cup AllOnes(c) \cup RulesByName(c) : b.do \in Typed}

-----------------------------------------------------------------------------
(* Goroutines *)

Process == Press \cup {Poller}
Idle == [pc |-> "idle"]
Handling ==
  {q \in [pc: {"tapped", "apply", "answer", "save", "edit"}, message: Message, button: Button,
          event: Event \cup {NoEvent}, menu: SUBSET Button, save: BOOLEAN] :
     q.pc = "apply" => (q.event = NoEvent => q.button.do = "pauseAll")}

TypeOK ==
  /\ subscribed \in [User -> SUBSET Event]
  /\ ruled \in [User -> SUBSET Event] /\ \A u \in User : ruled[u] \subseteq subscribed[u]
  /\ admins \subseteq Manager
  /\ menu \in [Message -> SUBSET Button]
  /\ proc \in [Process -> {Idle} \cup Handling]
  /\ unsaved \subseteq User
  /\ outdated \subseteq Message \cup Process

UNCHANGEDSubscriptions == UNCHANGED <<subscribed, ruled>>

(* Goroutine p has a button b of menu m: it has found the subscription it   *)
(* is to change, or has its answer.                                         *)
Goto(p, q) == proc' = [proc EXCEPT ![p] = q]
Begin(m, b) == [pc |-> "apply", message |-> m, button |-> b, event |-> NoEvent, menu |-> {},
                save |-> FALSE]
Found(p, m, b, e) == Goto(p, [Begin(m, b) EXCEPT !.event = e])
Answer(p, m, b, buttons) == Goto(p, [Begin(m, b) EXCEPT !.pc = "edit", !.menu = buttons])

(* A goroutine's next menu is made from the list as it is, or the place it  *)
(* has is from a menu that may be outdated.                                 *)
Reread(p) == outdated' = outdated \ {p}
Inherit(p, m) == outdated' = (outdated \ {p}) \cup (IF m \in outdated THEN {p} ELSE {})

-----------------------------------------------------------------------------
(* The first look at the subscriptions *)

IsOwn(m, b) == b.about = ChatOf[m]

(* requireAdmin *)
Allowed(m, b) == IsOwn(m, b) \/ ChatOf[m] \in admins
Refuse(p, m, b) == ~Allowed(m, b) /\ Answer(p, m, b, {}) /\ Reread(p)

(* The menus that list subscriptions. *)
ShowList(p, m, b) ==
  /\ Allowed(m, b) /\ b.do \in List
  /\ Answer(p, m, b, ListMenu(b.do, b.about, subscribed[b.about]))
  /\ Reread(p)

(* subsWizardItem, adminSubsWizardItem; adminSubsWizardDelayPick *)
DelayMenu(b, e) == {MakeButton("delay", b.about, b.place, e)}
ShowItem(p, m, b) ==
  LET names == subscribed[b.about] IN
  /\ Allowed(m, b)
  /\ b.do = "open" \/ (b.do = "pick" /\ ~IsOwn(m, b))
  /\ Answer(p, m, b, IF ~Within(names, b.place) THEN {}
                     ELSE IF b.do = "open" THEN ItemMenu(b.about, b.place, At(names, b.place))
                     ELSE DelayMenu(b, At(names, b.place)))
  /\ Reread(p)

(* delayWizardSeconds looks nothing up. *)
ShowSeconds(p, m, b) ==
  /\ b.do = "pick" /\ IsOwn(m, b)
  /\ Answer(p, m, b, DelayMenu(b, b.label))
  /\ UNCHANGED outdated

(* A button with a place finds its subscription, or answers that it is gone. *)
FindPlace(p, m, b) ==
  LET names == subscribed[b.about] IN
  /\ Allowed(m, b)
  /\ b.do \in Change /\ b.place # NoPlace
  /\ IF Within(names, b.place) THEN Found(p, m, b, At(names, b.place)) ELSE Answer(p, m, b, {})
  /\ UNCHANGED outdated

(* One that names it; camsWizardUnsubscribe wants it subscribed. *)
FindName(p, m, b) ==
  /\ Allowed(m, b)
  /\ b.do \notin List /\ b.place = NoPlace
  /\ IF b.do = "drop" /\ p # Poller /\ b.label \notin subscribed[b.about]
       THEN Answer(p, m, b, {})
       ELSE Found(p, m, b, b.label)
  /\ Reread(p)

Look(p, m, b) ==
  /\ \/ Refuse(p, m, b) \/ ShowList(p, m, b) \/ ShowItem(p, m, b) \/ ShowSeconds(p, m, b)
     \/ FindPlace(p, m, b) \/ FindName(p, m, b)
  /\ UNCHANGED <<admins, menu, unsaved>> /\ UNCHANGEDSubscriptions

MayBegin(p) == proc[p] = Idle /\ Cardinality({q \in Process : proc[q] # Idle}) < MaxAtWork

(* A tap; its goroutine may be served when the message has been edited.     *)
Tap(p, m) ==
  /\ MayBegin(p)
  /\ \E b \in Tappable(m) :
       b.place # NoPlace /\ Goto(p, [Begin(m, b) EXCEPT !.pc = "tapped"])
  /\ Inherit(p, m)
  /\ UNCHANGED <<admins, menu, unsaved>> /\ UNCHANGEDSubscriptions

Serve(p) == proc[p].pc = "tapped" /\ Look(p, proc[p].message, proc[p].button)

(* What carries no place and is served later might as well have been tapped *)
(* or typed later.  The answer to a text is a new message: the menu before  *)
(* it is forgotten.                                                         *)
TapPlain(p, m) == MayBegin(p) /\ \E b \in Tappable(m) : b.place = NoPlace /\ Look(p, m, b)
Type(m) ==
  /\ MayBegin(Poller) /\ ChatOf[m] \in Own
  /\ \E b \in Commands(ChatOf[m]) : Look(Poller, m, b)

-----------------------------------------------------------------------------
(* The changes *)

(* Whose subscriptions the handler of a button changes: handler.Sub's in    *)
(* the chat's own menus, those of the target in the admin's.                *)
Presser(p) == ChatOf[proc[p].message]
Target(p) == proc[p].button.about
Names(p) == subscribed[Target(p)]
InOwnMenu(p) == IsOwn(proc[p].message, proc[p].button)

(* Whether the handler has the state saved. *)
SavingOwn(p) == InOwnMenu(p)
Saving(p) == TRUE
Applied(p) ==
  /\ Goto(p, [proc[p] EXCEPT !.pc = "answer", !.save = Saving(p)])
  /\ unsaved' = unsaved \cup {Target(p)}

(* The list of u has changed: the menus made from it are outdated, and the  *)
(* places other goroutines carry.                                           *)
MadeFrom(u) ==
  {m \in Message : \E b \in menu[m] : b.about = u} \cup
  {p \in Process : proc[p] # Idle /\ proc[p].button.about = u}
ListChanged(p) ==
  outdated' = outdated \cup (IF subscribed' = subscribed THEN {} ELSE MadeFrom(Target(p)) \ {p})

ApplySubscribe(p) ==
  /\ proc[p].pc = "apply" /\ proc[p].button.do = "subscribe"
  /\ subscribed' = [subscribed EXCEPT ![Target(p)] = @ \cup {proc[p].event}]
  /\ Applied(p) /\ ListChanged(p)
  /\ UNCHANGED <<ruled, admins, menu>>

(* Events.Remove takes the rules with the name. *)
Without(f, p) == [f EXCEPT ![Target(p)] = @ \ {proc[p].event}]
ApplyUnsub(p) ==
  /\ proc[p].pc = "apply" /\ proc[p].button.do \in {"unsub", "drop"}
  /\ subscribed' = Without(subscribed, p)
  /\ ruled' = Without(ruled, p)
  /\ Applied(p) /\ ListChanged(p)
  /\ UNCHANGED <<admins, menu>>

(* Events.Pause, Events.RuleSetD: they set a rule of a name that is there.  *)
SetRulesAnyway(u, events) == [ruled EXCEPT ![u] = @ \cup events]
SetRules(u, events) == [ruled EXCEPT ![u] = @ \cup (events \cap subscribed[u])]

(* Only the admin's menu minds that a name to pause is gone. *)
ApplyPause(p) ==
  /\ proc[p].pc = "apply" /\ proc[p].button.do = "pause"
  /\ ruled' = SetRules(Target(p), {proc[p].event})
  /\ \/ (InOwnMenu(p) \/ proc[p].event \in Names(p)) /\ Applied(p)
     \/ /\ ~InOwnMenu(p) /\ proc[p].event \notin Names(p)
        /\ Answer(p, proc[p].message, proc[p].button, {})
        /\ UNCHANGED unsaved
  /\ UNCHANGED <<subscribed, admins, menu, outdated>>

(* One by one in the code. *)
ApplyPauseAll(p) ==
  /\ proc[p].pc = "apply" /\ proc[p].button.do = "pauseAll"
  /\ ruled' = SetRules(Target(p), Names(p))
  /\ Applied(p)
  /\ UNCHANGED <<subscribed, admins, menu, outdated>>

ApplyDelay(p) ==
  /\ proc[p].pc = "apply" /\ proc[p].button.do = "delay"
  /\ ruled' = SetRules(Target(p), {proc[p].event})
  /\ Applied(p)
  /\ UNCHANGED <<subscribed, admins, menu, outdated>>

-----------------------------------------------------------------------------
(* The answer *)

(* The list that follows: the chat's own after an Unsubscribe, the one of   *)
(* the chat an admin manages after any change but a subscription.           *)
ListedBefore(p) == Names(p) \cup {proc[p].event}
Listed(p) == Names(p)
NextMenu(p) ==
  LET b == proc[p].button IN
  CASE p # Poller /\ InOwnMenu(p) /\ b.do = "unsub" -> Row("unsub", b.about, Listed(p))
    [] ~InOwnMenu(p) /\ Presser(p) \in admins /\ b.do # "subscribe" ->
         Row("open", b.about, Listed(p))
    [] OTHER -> {}

MakeAnswer(p) ==
  /\ proc[p].pc = "answer"
  /\ Goto(p, [proc[p] EXCEPT !.pc = "save", !.menu = NextMenu(p)])
  /\ Reread(p)
  /\ UNCHANGED <<admins, menu, unsaved>> /\ UNCHANGEDSubscriptions

(* SaveState, if the handler asked for it, writes all chats. *)
Save(p) ==
  /\ proc[p].pc = "save"
  /\ Answer(p, proc[p].message, proc[p].button, proc[p].menu)
  /\ unsaved' = IF proc[p].save THEN {} ELSE unsaved
  /\ UNCHANGED <<admins, menu, outdated>> /\ UNCHANGEDSubscriptions

(* sendTelegramReply: the message is edited, or that fails. *)
Edit(p) ==
  LET m == proc[p].message IN
  /\ proc[p].pc = "edit"
  /\ Goto(p, Idle)
  /\ \/ /\ menu' = [menu EXCEPT ![m] = proc[p].menu]
        /\ outdated' = (outdated \ {m, p}) \cup (IF p \in outdated THEN {m} ELSE {})
     \/ UNCHANGED menu /\ Reread(p)
  /\ UNCHANGED <<admins, unsaved>> /\ UNCHANGEDSubscriptions

-----------------------------------------------------------------------------
(* An admin is made or unmade (AdminRoles). *)
Role(u) ==
  /\ admins' \in {admins \cup {u}, admins \ {u}}
  /\ UNCHANGED <<menu, proc, unsaved, outdated>> /\ UNCHANGEDSubscriptions

Init ==
  /\ subscribed = [u \in User |-> {}]
  /\ ruled = [u \in User |-> {}]
  /\ admins = Manager
  /\ menu = [m \in Message |-> {}]
  /\ proc = [p \in Process |-> Idle]
  /\ unsaved = {} /\ outdated = {}

Continue(p) ==
  \/ Serve(p)
  \/ ApplySubscribe(p) \/ ApplyUnsub(p) \/ ApplyPause(p) \/ ApplyPauseAll(p) \/ ApplyDelay(p)
  \/ MakeAnswer(p) \/ Save(p) \/ Edit(p)

Next ==
  \/ \E p \in Press, m \in Message : Tap(p, m) \/ TapPlain(p, m)
  \/ \E m \in Message : Type(m)
  \/ \E p \in Process : Continue(p)
  \/ \E u \in Manager : Role(u)

Spec == Init /\ [][Next]_vars

-----------------------------------------------------------------------------
(* Properties *)

(* Who taps Unsubscribe loses the subscription the button names ("Tap a     *)
(* subscription to stop getting those alerts."), and so for Pause and       *)
(* Delay, unless another goroutine changed the list since the menu was      *)
(* made.  The change a tap makes itself is in the menu it answers with, and *)
(* answers that overtake each other show no list older than its mark.       *)
UndisturbedTap ==
  \A p \in Press :
    proc[p].pc = "apply" /\ p \notin outdated => proc[p].event = proc[p].button.label

(* A change is saved, or its handler or another is yet to save: no answer   *)
(* says Removed or Saved of a change that only memory has.                  *)
ChangesSaved ==
  \A u \in unsaved : \E p \in Process :
    proc[p].pc \in {"answer", "save"} /\ proc[p].save /\ Target(p) = u

(* Orders as SubscriptionOrders has them: from the first look, which names  *)
(* the subscription, to the save.                                           *)
Status(u, e) ==
  CASE e \notin subscribed[u] -> "none"
    [] e \in subscribed[u] /\ e \in ruled[u] -> "ruled"
    [] OTHER -> "plain"
WhatFor(do) ==
  CASE do = "subscribe" -> "subscribe" [] do \in {"unsub", "drop"} -> "unsubscribe" [] OTHER -> "rule"
OrderOf(q) ==
  CASE q.pc = "apply" ->
         [what |-> WhatFor(q.button.do), by |-> ChatOf[q.message], of |-> q.button.about,
          names |-> IF q.button.do = "pauseAll" THEN Event ELSE {q.event}]
    [] q.pc \in {"answer", "save"} /\ q.save -> [what |-> "saving", of |-> q.button.about]
    [] OTHER -> [what |-> "none"]

Orders ==
  INSTANCE SubscriptionOrders WITH
    Chat <- User, Subscription <- Event, Worker <- Process,
    status <- [u \in User |-> [e \in Event |-> Status(u, e)]],
    order <- [p \in Process |-> OrderOf(proc[p])]

(* A tap or a command changes the subscriptions of the chat its menu is     *)
(* about and of nobody else (an admin's are not his own), and there exactly *)
(* the one it found, though others change the list before it does; it was   *)
(* the chat's or an admin's when it looked; a subscription made anew has no *)
(* pause or delay of an earlier one; and it is saved before the answer.     *)
OrdersCarriedOut == Orders!Spec

=============================================================================
