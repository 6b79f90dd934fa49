---------------------------- MODULE CameraMenus ------------------------------
(****************************************************************************)
(* The menus whose buttons stand for cameras (pkg/chat/wizard.go,           *)
(* wizard_cmds.go, wizard_admin_subs.go, camsettings_wizard.go, cameras.go):*)
(* subscribing to a camera, oneself or another, unsubscribing, pictures and *)
(* clips, and the clip settings.                                            *)
(*                                                                          *)
(* A button carries a place in the list of cameras, never a name.  The list *)
(* is replaced by every Refresh: of the retry loop, of the event stream, of *)
(* /refresh and of some of these menus.  Each press has a goroutine of its  *)
(* own, which looks into the list once or twice, acts on the camera it      *)
(* found, looks again for its answer, saves and edits the message.          *)
(*                                                                          *)
(* Left out: the subscribers' other keys and menus (SubscriptionMenus,      *)
(* EventCatalog), deleted subscribers (AdminRoles), labels, the state of a  *)
(* camera.  A chat has one message with a menu: an older one is like one    *)
(* that was not edited yet.                                                 *)
(****************************************************************************)
EXTENDS ClipSettings, Sequences

CONSTANTS
  Camera,    \* names of cameras
  NoCamera,  \* none
  Native,    \* what SecuritySpy says of each: width, height, codec
  Lists,     \* lists Refresh may bring
  User,      \* subscribers
  Manager,   \* those that are admins at times
  Tapper,    \* those that tap
  Trigger,   \* classes a menu offers
  Offered,   \* of each kind, the values a menu offers
  Found,     \* what the state file may say of each camera: Rules or NoEntry
  NoEntry,   \* no catalog entry
  Legacy,    \* pairs of camera and class whom all had subscribed to
  Press,     \* goroutines serving presses
  MaxTaps    \* (bound) how many buttons are tapped

AnyClass == "any" \* the class of a bare camera name, which no menu offers

ASSUME CameraAssumption ==
  /\ NoCamera \notin Camera /\ NoEntry \notin Rules
  /\ Native \in [Camera -> [width: Nat, height: Nat, codec: Codecs \ {"auto"}]]
  /\ Lists \subseteq Seq(Camera) /\ Lists # {}
  /\ Manager \subseteq User /\ Tapper \subseteq User /\ Press \cap User = {}
  /\ AnyClass \notin Trigger
  /\ Found \subseteq [Camera -> Rules \cup {NoEntry}]
  /\ DOMAIN Offered = Kind /\ \A k \in Kind : \A v \in Offered[k] : Allowed(k, v)
  /\ MaxTaps \in Nat
  /\ Legacy \subseteq Camera \X (Trigger \cup {AnyClass})

VARIABLES
  cams,      \* the list of cameras
  admins,    \* who is an admin
  subs,      \* each subscriber's camera subscriptions: camera and class
  clip,      \* each camera's catalog entry
  menu,      \* the buttons each chat has on display
  proc,      \* the goroutines
  taps,      \* how many were tapped
  unsaved,   \* (history) memory has a change that no save has seen
  chosen,    \* (history) the settings given by a press, where one was
  outdated   \* (history) whose buttons, and which presses and answers being
             \* prepared, were made before the list was last replaced

vars == <<cams, admins, subs, clip, menu, proc, taps, unsaved, chosen, outdated>>

-----------------------------------------------------------------------------
(* Buttons and menus *)

Class == Trigger \cup {AnyClass}
OfKind == {<<k>> : k \in Kind}
OfValue == UNION {{k} \X Offered[k] : k \in Kind}
Argument == {<<>>} \cup (Class \X User) \cup OfKind \cup OfValue
Roots == {"cams", "snaps", "clips", "pick"}
OfCamera == {"camera", "triggers", "subscribe", "add", "unsubscribe", "remove", "snap",
             "clip", "presets", "set"}

Button(do, place, cam, arg) == [do |-> do, place |-> place, cam |-> cam, arg |-> arg]
IsButton(b) ==
  /\ DOMAIN b = {"do", "place", "cam", "arg"}
  /\ b.do \in OfCamera /\ b.place \in Nat \ {0} /\ b.cam \in Camera /\ b.arg \in Argument
  /\ b.do \in {"subscribe", "add", "remove"} => b.arg \in Class \X User
  /\ b.do = "presets" => b.arg \in OfKind
  /\ b.do = "set" => b.arg \in OfValue

ClassesOf(u, cam) == {c \in Class : <<cam, c>> \in subs[u]}

(* A menu with a button for every camera *)
EachCamera(do, arg) == {Button(do, i, cams[i], arg) : i \in DOMAIN cams}

(* camsWizardCam *)
CameraMenu(u, i, cam) ==
  {Button("snap", i, cam, <<>>), Button("triggers", i, cam, <<>>)} \cup
  {Button("unsubscribe", i, cam, <<>>) : c \in ClassesOf(u, cam)} \cup
  {Button("clip", i, cam, <<>>) : a \in admins \cap {u}}
(* camsWizardSubscribe and camsWizardUnsubscribePick *)
TriggerMenu(u, i, cam) == {Button("add", i, cam, <<c, u>>) : c \in Trigger}
PickMenu(u, i, cam) == {Button("remove", i, cam, <<c, u>>) : c \in ClassesOf(u, cam)}
(* camSetWizardCam; the presets of a kind *)
ClipMenu(i, cam) == {Button("presets", i, cam, <<k>>) : k \in Kind}
PresetsUnnamed(i, cam, k) == {Button("set", i, cam, <<k>>) : v \in Offered[k]}
PresetMenu(i, cam, k) == {Button("set", i, cam, <<k, v>>) : v \in Offered[k]}

(* "pick" is the menu with which one subscribes oneself, or an admin        *)
(* another, to cameras of a class.                                          *)
Opening ==
  [do: Roots \ {"pick"}, place: {0}, cam: {NoCamera}, arg: {<<>>}] \cup
  [do: {"pick"}, place: {0}, cam: {NoCamera}, arg: Trigger \X User]

-----------------------------------------------------------------------------
(* Goroutines *)

Idle == [pc |-> "idle"]
Idling == \A p \in Press : proc[p] = Idle
Goto(p, q) == proc' = [proc EXCEPT ![p] = q]
Step(p, pc) == Goto(p, [proc[p] EXCEPT !.pc = pc])
Reply(p, pc, m) == Goto(p, [pc |-> pc, by |-> proc[p].by, menu |-> m])
Answered(p, m) == Reply(p, "edit", m)

IsPress(q) ==
  /\ DOMAIN q = {"pc", "by", "b", "cam", "class", "save"}
  /\ q.pc \in {"tapped", "again", "act", "new", "rule", "answer"}
  /\ q.by \in User /\ (q.b \in Opening \/ IsButton(q.b))
  /\ q.b \in Opening => q.pc = "tapped"
  /\ q.pc \in {"new", "rule"} => q.b.do = "set"
  /\ q.pc = "again" => q.b.do = "unsubscribe"
  /\ q.pc \in {"act", "new", "rule"} \/ (q.pc = "answer" /\ q.b.do = "set") => q.cam \in Camera
  /\ q.cam \in Camera \cup {NoCamera} /\ q.class \in Class /\ q.save \in BOOLEAN
IsReply(q) ==
  /\ DOMAIN q = {"pc", "by", "menu"} /\ q.pc \in {"save", "edit"} /\ q.by \in User
  /\ \A b \in q.menu : IsButton(b)

TypeOK ==
  /\ cams \in Seq(Camera) /\ admins \subseteq Manager
  /\ subs \in [User -> SUBSET (Camera \X Class)]
  /\ clip \in [Camera -> Rules \cup {NoEntry}]
  /\ DOMAIN menu = User /\ \A u \in User : \A b \in menu[u] : IsButton(b)
  /\ DOMAIN proc = Press /\ \A p \in Press : proc[p] = Idle \/ IsPress(proc[p]) \/ IsReply(proc[p])
  /\ taps \in 0 .. MaxTaps /\ unsaved \in BOOLEAN
  /\ DOMAIN chosen = Camera \X Kind
  /\ outdated \subseteq Press \cup User

UNCHANGEDRecords == UNCHANGED <<subs, clip, unsaved, chosen>>
UNCHANGEDState == UNCHANGEDRecords /\ UNCHANGED taps

(* requireAdmin, and the check of handleCamSetWizardCallback *)
May(u, b) ==
  \/ u \in admins
  \/ b.do \notin {"clips", "clip", "presets", "set"} /\ (b.do = "pick" => b.arg[2] = u)
     /\ (b.do = "subscribe" => b.arg[2] = u)

(* recvTelegramCallback: a button on display, or one that opens a menu.     *)
Tap(p, u) ==
  /\ proc[p] = Idle /\ taps < MaxTaps /\ taps' = taps + 1
  /\ \E b \in menu[u] \cup Opening :
       Goto(p, [pc |-> "tapped", by |-> u, b |-> b, cam |-> NoCamera, class |-> AnyClass,
                save |-> FALSE])
  /\ outdated' = IF u \in outdated THEN outdated \cup {p} ELSE outdated \ {p}
  /\ UNCHANGED <<cams, admins, menu>> /\ UNCHANGEDRecords

Refuse(p) ==
  LET q == proc[p] IN
  /\ q.pc = "tapped"
  /\ ~May(q.by, q.b) \/ (q.b.do \in OfCamera /\ q.b.place \notin DOMAIN cams)
  /\ Answered(p, {}) /\ UNCHANGED <<cams, admins, menu, outdated>> /\ UNCHANGEDState

Tapped(p, does) == proc[p].pc = "tapped" /\ proc[p].b.do \in does /\ May(proc[p].by, proc[p].b)

(* The list is replaced: everything made from the old one is outdated.      *)
Refresh ==
  /\ cams' \in Lists
  /\ outdated' = IF cams' = cams THEN outdated ELSE Press \cup User
  /\ UNCHANGED <<admins, menu, proc>> /\ UNCHANGEDState

(* camsWizardRoot, picsWizardRoot, vidsWizardRoot, camSetWizardRoot,        *)
(* subWizardCameras and adminSubsWizardSubCameras.  Those that refresh the  *)
(* list do it first: as Refresh may come at any time, it is not repeated    *)
(* here.                                                                    *)
Open(p) ==
  LET b == proc[p].b IN
  /\ Tapped(p, Roots)
  /\ Answered(p, CASE b.do = "cams" -> EachCamera("camera", <<>>)
                   [] b.do = "clips" -> EachCamera("clip", <<>>)
                   [] b.do = "pick" -> EachCamera("subscribe", b.arg)
                   [] OTHER -> EachCamera("snap", <<>>))
  /\ outdated' = outdated \ {p}
  /\ UNCHANGED <<cams, admins, menu>> /\ UNCHANGEDState

(* A button that stands for a camera: the one in its place now.             *)
Here(b) == cams[b.place]
LookedUp(p, does) == Tapped(p, does) /\ proc[p].b.place \in DOMAIN cams

OpenCamera(p) ==
  LET b == proc[p].b IN
  /\ LookedUp(p, {"camera", "triggers", "clip"})
  /\ Answered(p, CASE b.do = "camera" -> CameraMenu(proc[p].by, b.place, Here(b))
                   [] b.do = "triggers" -> TriggerMenu(proc[p].by, b.place, Here(b))
                   [] b.do = "clip" -> ClipMenu(b.place, Here(b)))
  /\ outdated' = outdated \ {p}
  /\ UNCHANGED <<cams, admins, menu>> /\ UNCHANGEDState

(* camSetWizardKind: the presets do not say of which camera, so to who      *)
(* tapped they are of the camera he came from.                              *)
OpenPresets(p) ==
  LET b == proc[p].b IN
  /\ LookedUp(p, {"presets"})
  /\ Answered(p, PresetMenu(b.place, b.cam, b.arg[1]))
  /\ UNCHANGED <<cams, admins, menu, outdated>> /\ UNCHANGEDState

(* camsWizardUnsubscribe: who has one subscription loses it, after another  *)
(* look at the list; who has several is asked which.                        *)
Unsubscribe(p) ==
  LET b == proc[p].b
      classes == ClassesOf(proc[p].by, Here(b)) IN
  /\ LookedUp(p, {"unsubscribe"})
  /\ \/ /\ classes = {} /\ Step(p, "answer") /\ UNCHANGED outdated
     \/ /\ \E c \in classes : classes = {c} /\ Goto(p, [proc[p] EXCEPT !.pc = "again", !.class = c])
        /\ UNCHANGED outdated
     \/ /\ \E c, d \in classes : c # d
        /\ Answered(p, PickMenu(proc[p].by, b.place, Here(b))) /\ outdated' = outdated \ {p}
  /\ UNCHANGED <<cams, admins, menu>> /\ UNCHANGEDState

(* The camera the press acts on *)
SeesNext(b) == IF b.place + 1 \in DOMAIN cams THEN cams[b.place + 1] ELSE cams[1]
Sees(b) == Here(b)
Choose(p, class) ==
  /\ Goto(p, [proc[p] EXCEPT !.pc = "act", !.cam = Sees(proc[p].b), !.class = class])
  /\ outdated' = outdated \ {p}

Look(p) ==
  /\ LookedUp(p, {"snap", "subscribe", "add", "remove", "set"})
  /\ IF proc[p].b.do = "remove" /\ ClassesOf(proc[p].by, Here(proc[p].b)) = {}
       THEN Step(p, "answer") /\ UNCHANGED outdated
       ELSE Choose(p, IF proc[p].b.do \in {"snap", "set"} THEN AnyClass ELSE proc[p].b.arg[1])
  /\ UNCHANGED <<cams, admins, menu>> /\ UNCHANGEDState

LookAgain(p) ==
  /\ proc[p].pc = "again"
  /\ IF proc[p].b.place \notin DOMAIN cams
       THEN Answered(p, {}) /\ UNCHANGED outdated
     ELSE IF ClassesOf(proc[p].by, Here(proc[p].b)) = {}
       THEN Step(p, "answer") /\ UNCHANGED outdated
     ELSE Choose(p, proc[p].class)
  /\ UNCHANGED <<cams, admins, menu>> /\ UNCHANGEDState

(* Subscribe, for oneself or another; "already on" saves, too. *)
Subscribe(p) ==
  LET q == proc[p] IN
  /\ q.pc = "act" /\ q.b.do \in {"subscribe", "add"}
  /\ subs' = [subs EXCEPT ![q.b.arg[2]] = @ \cup {<<q.cam, q.class>>}]
  /\ unsaved' = (unsaved \/ subs' # subs)
  /\ Goto(p, [q EXCEPT !.pc = "answer", !.save = TRUE])
  /\ UNCHANGED <<cams, admins, clip, menu, taps, chosen, outdated>>

(* camsWizardUnsubscribeApply *)
SavesNoRemoval(had) == FALSE
SavesRemoval(had) == had
Remove(p) ==
  LET q == proc[p]
      key == <<q.cam, q.class>> IN
  /\ q.pc = "act" /\ q.b.do \in {"unsubscribe", "remove"}
  /\ subs' = [subs EXCEPT ![q.by] = @ \ {key}]
  /\ unsaved' = (unsaved \/ subs' # subs)
  /\ Goto(p, [q EXCEPT !.pc = "answer", !.save = SavesRemoval(key \in subs[q.by])])
  /\ UNCHANGED <<cams, admins, clip, menu, taps, chosen, outdated>>

(* A picture or clip of the camera is taken (MediaFiles). *)
Snap(p) ==
  /\ proc[p].pc = "act" /\ proc[p].b.do = "snap" /\ Answered(p, {})
  /\ UNCHANGED <<cams, admins, menu, outdated>> /\ UNCHANGEDState

(* EnsureCameraSettings: Exists, then New, which leaves an entry someone    *)
(* else made meanwhile; then the rule is set.                               *)
Ensure(p) ==
  /\ proc[p].pc = "act" /\ proc[p].b.do = "set"
  /\ Step(p, IF clip[proc[p].cam] = NoEntry THEN "new" ELSE "rule")
  /\ UNCHANGED <<cams, admins, menu, outdated>> /\ UNCHANGEDState

Replaced(entry) == Defaults
NewEntry(entry) == IF entry = NoEntry THEN Defaults ELSE entry
New(p) ==
  LET cam == proc[p].cam IN
  /\ proc[p].pc = "new"
  /\ clip' = [clip EXCEPT ![cam] = NewEntry(@)]
  /\ unsaved' = (unsaved \/ clip' # clip)
  /\ Step(p, "rule")
  /\ UNCHANGED <<cams, admins, subs, menu, taps, chosen, outdated>>

RuleSet(p) ==
  LET q == proc[p]
      kind == q.b.arg[1]
      rule == RuleOf(kind, q.b.arg[2]) IN
  /\ q.pc = "rule"
  /\ clip' = [clip EXCEPT ![q.cam] = [@ EXCEPT ![kind] = rule]]
  /\ chosen' = [chosen EXCEPT ![<<q.cam, kind>>] = {rule}]
  /\ unsaved' = (unsaved \/ clip' # clip)
  /\ Goto(p, [q EXCEPT !.pc = "answer", !.save = TRUE])
  /\ UNCHANGED <<cams, admins, subs, menu, taps, outdated>>

(* The answer looks at the list again: a menu of the camera now in that     *)
(* place or, for the settings, of the camera that was.                      *)
MenuNow(q) ==
  CASE q.b.do = "subscribe" -> IF May(q.by, q.b) THEN EachCamera("subscribe", q.b.arg) ELSE {}
    [] q.b.do # "subscribe" /\ q.b.place \notin DOMAIN cams -> {}
    [] q.b.do = "set" /\ q.b.place \in DOMAIN cams -> ClipMenu(q.b.place, q.cam)
    [] OTHER -> CameraMenu(q.by, q.b.place, Here(q.b))

Answer(p) ==
  LET q == proc[p] IN
  /\ q.pc = "answer"
  /\ Reply(p, IF q.save THEN "save" ELSE "edit", MenuNow(q))
  /\ outdated' = IF q.b.do = "set" THEN outdated ELSE outdated \ {p}
  /\ UNCHANGED <<cams, admins, menu>> /\ UNCHANGEDState

Save(p) ==
  /\ proc[p].pc = "save" /\ unsaved' = FALSE /\ Step(p, "edit")
  /\ UNCHANGED <<cams, admins, subs, clip, menu, taps, chosen, outdated>>

Edit(p) ==
  LET u == proc[p].by IN
  /\ proc[p].pc = "edit" /\ menu' = [menu EXCEPT ![u] = proc[p].menu] /\ Goto(p, Idle)
  /\ outdated' = (IF p \in outdated THEN outdated \cup {u} ELSE outdated \ {u}) \ {p}
  /\ UNCHANGED <<cams, admins>> /\ UNCHANGEDState

Role(a) ==
  /\ admins' \in {admins \cup {a}, admins \ {a}}
  /\ UNCHANGED <<cams, menu, proc, outdated>> /\ UNCHANGEDState

Init ==
  /\ cams \in Lists /\ admins = Manager
  /\ subs = [u \in User |-> Legacy] /\ clip \in Found
  /\ menu = [u \in User |-> {}] /\ proc = [p \in Press |-> Idle]
  /\ taps = 0 /\ unsaved = FALSE /\ chosen = [x \in Camera \X Kind |-> {}] /\ outdated = {}

Serve(p) ==
  \/ Refuse(p) \/ Open(p) \/ OpenCamera(p) \/ OpenPresets(p) \/ Unsubscribe(p) \/ Look(p)
  \/ LookAgain(p) \/ Subscribe(p) \/ Remove(p) \/ Snap(p) \/ Ensure(p) \/ New(p)
  \/ RuleSet(p) \/ Answer(p) \/ Save(p) \/ Edit(p)

Next ==
  \/ Refresh
  \/ \E a \in Manager : Role(a)
  \/ \E p \in Press : Serve(p) \/ \E u \in Tapper : Tap(p, u)

Spec == Init /\ [][Next]_vars

-----------------------------------------------------------------------------
(* Properties *)

(* A press acts on the camera its button, or the menu before it, named,     *)
(* unless the list was replaced since: buttons carry places, and every menu *)
(* counts them as the look after a press does.                              *)
Acts(p) ==
  proc'[p] # proc[p] /\ proc'[p] # Idle /\ proc'[p].pc = "act" /\ p \notin outdated
    => proc'[p].cam = proc[p].b.cam
UndisturbedPick == [][\A p \in Press : Acts(p)]_vars

RulesOf(cam) == IF clip[cam] = NoEntry THEN Unset ELSE clip[cam]

(* A setting an admin gave a camera stays until another is given, and is    *)
(* what SecuritySpy is asked for: that two presses found no entry and both  *)
(* made one undoes neither's, and no menu offers what the limits change.    *)
ChoicesKept ==
  \A cam \in Camera, kind \in Kind :
    \A rule \in chosen[<<cam, kind>>] :
      clip[cam] # NoEntry /\ clip[cam][kind] = rule /\ ClipSettingsOf(RulesOf(cam))[kind] = rule

(* Whatever the state file said and whatever is tapped, what SecuritySpy is *)
(* asked for is within the limits, and recompressed unless it is native.    *)
ClipsWithinLimits ==
  \A cam \in Camera :
    /\ ClipSettingsOf(RulesOf(cam)) \in Settings
    /\ Recompressed(Native[cam], ClipSettingsOf(RulesOf(cam)))

(* When no press is being served, the state file has all that was changed.  *)
ChangesSaved == Idling => ~unsaved

=============================================================================
