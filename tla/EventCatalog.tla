---------------------------- MODULE EventCatalog -----------------------------
(****************************************************************************)
(* The event catalog, the subscriptions to its events and the state file,   *)
(* as the HTTP handlers (pkg/webserver) and the Telegram handlers           *)
(* (pkg/chat) use them concurrently.                                        *)
(*                                                                          *)
(*  - every HTTP request runs in a goroutine of its own; register, notify   *)
(*    and remove take the mutex Config.catalog around what they do to the   *)
(*    catalog and the save that follows;                                    *)
(*  - every button press runs in a goroutine of its own and takes no lock;  *)
(*    text commands run one at a time, in the poller;                       *)
(*  - both sides call SaveState, which writes all of memory to one file     *)
(*    (the library's file lock makes one save atomic);                      *)
(*  - the process may stop at any moment and start again from the file.     *)
(*                                                                          *)
(* What the library golift.io/subscribe does (Events, Subscribers, GetDB,   *)
(* StateFileSave, EventRemove) is modelled from how the code relies on it.  *)
(* Validation that rejects a request before it touches the catalog, event   *)
(* rules other than the description, and camera keys are left out.          *)
(****************************************************************************)
EXTENDS Naturals, FiniteSets

CONSTANTS
  Event,        \* event names that pass the handlers' validation
  BuiltIn,      \* the system events registered at every start
  Fold,         \* the name's letters without their case
  Text,         \* descriptions a client can send
  NoText,       \* a request without a description
  OwnName,      \* the default description: the event's own name
  BuiltInText,  \* the description a system event is given at start
  AnyText,      \* (history) no promise about the description
  User,         \* Telegram subscribers
  Request,      \* HTTP request goroutines
  NoRequest,    \* the mutex is free
  Handler,      \* Telegram handler goroutines
  SaveMayFail   \* can the state file be unwritable?

ASSUME CatalogAssumption ==
  /\ Event # {} /\ User # {}
  /\ BuiltIn \subseteq Event
  /\ Fold \in [Event -> Event]
  /\ NoText \notin Text /\ OwnName \notin Text /\ BuiltInText \notin Text
  /\ AnyText \notin Text \cup {OwnName, BuiltInText}
  /\ NoRequest \notin Request
  /\ SaveMayFail \in BOOLEAN

VARIABLES
  catalog,       \* Subs.Events: the names in memory
  text,          \* their "description" rule
  subs,          \* each subscriber's own Events
  disk,          \* the state file
  mutex,         \* holder of Config.catalog
  request,       \* the HTTP handlers
  handler,       \* the Telegram handlers
  promised,      \* (history) events a client was told are registered
  promisedText,  \* (history) the description it was told is set
  withdrawn,     \* (history) events a client was told are removed
  fromMenu       \* (history) subscriptions this process made from a menu

vars == <<catalog, text, subs, disk, mutex, request, handler,
          promised, promisedText, withdrawn, fromMenu>>
history == <<promised, promisedText, withdrawn, fromMenu>>

-----------------------------------------------------------------------------
(* Types and helpers *)

Description == Text \cup {OwnName, BuiltInText}

CatalogOp == {"put", "notify", "remove"}
SubOp == {"subscribe", "unsubscribe", "pause"}

RequestState ==
  [pc: {"idle", "run", "sweep", "save", "rollback"}, op: CatalogOp \cup SubOp,
   event: Event, text: Text \cup {NoText}, user: User,
   created: BOOLEAN, todo: SUBSET User]

HandlerState ==
  [pc: {"idle", "subscribe", "recheck", "undo", "save"}, kind: {"menu", "text"},
   event: Event, user: User]

TypeOK ==
  /\ catalog \subseteq Event
  /\ text \in [Event -> Description]
  /\ subs \in [User -> SUBSET Event]
  /\ disk \in [catalog: SUBSET Event, text: [Event -> Description],
               subs: [User -> SUBSET Event]]
  /\ mutex \in Request \cup {NoRequest}
  /\ request \in [Request -> RequestState]
  /\ handler \in [Handler -> HandlerState]
  /\ promised \subseteq Event
  /\ promisedText \in [Event -> Text \cup {AnyText}]
  /\ withdrawn \subseteq Event
  /\ fromMenu \subseteq User \X Event

(* What StateFileSave writes. *)
Memory == [catalog |-> catalog, text |-> text, subs |-> subs]

(* A handler that is not running; its other fields keep their last value, *)
(* reset here so that finished handlers all look alike.                    *)
IdleRequest == [pc |-> "idle", op |-> "put", event |-> CHOOSE e \in Event : TRUE,
                text |-> NoText, user |-> CHOOSE u \in User : TRUE,
                created |-> FALSE, todo |-> {}]
IdleHandler == [pc |-> "idle", kind |-> "menu", event |-> CHOOSE e \in Event : TRUE,
                user |-> CHOOSE u \in User : TRUE]

(* Events.Name: an entry that is the given name but for its case. *)
Matches(name) == {e \in catalog : Fold[e] = Fold[name]}

(* The mutex is taken and released with defer; one holder at a time. *)
LockAnyway == TRUE
LockFree == mutex = NoRequest
NeverUnlocked(r) == mutex
Unlocked(r) == IF mutex = r THEN NoRequest ELSE mutex

Reply(r) == request' = [request EXCEPT ![r] = IdleRequest]
Finish(h) == handler' = [handler EXCEPT ![h] = IdleHandler]

-----------------------------------------------------------------------------
(* HTTP handlers *)

(* A validated request reaches eventUpsertHandler, eventsHandler or       *)
(* subsHandler in a goroutine of its own.                                  *)
Receive(r) ==
  /\ request[r].pc = "idle"
  /\ \E op \in CatalogOp \cup SubOp, e \in Event, d \in Text \cup {NoText}, u \in User :
       /\ op \notin {"put", "notify"} => d = NoText
       /\ op \in CatalogOp => u = IdleRequest.user
       /\ request' = [request EXCEPT ![r] =
            [pc |-> "run", op |-> op, event |-> e, text |-> d, user |-> u,
             created |-> FALSE, todo |-> {}]]
  /\ UNCHANGED <<catalog, text, subs, disk, mutex, handler, history>>

(* upsertCatalogEvent: a new event gets the description, or its own name; *)
(* an event that exists has its description replaced when one is given.   *)
BlankDescription(e, d) == d
DescriptionAfter(e, d) ==
  IF d # NoText THEN d ELSE IF e \in catalog THEN text[e] ELSE OwnName

Upsert(e, d) ==
  /\ catalog' = catalog \cup {e}
  /\ text' = [text EXCEPT ![e] = DescriptionAfter(e, d)]
  /\ promisedText' = [promisedText EXCEPT
       ![e] = IF DescriptionAfter(e, d) = text[e] THEN @ ELSE AnyText]
  /\ withdrawn' = withdrawn \ {e}

(* upsertEvent up to its save: every accepted PUT saves, changed or not. *)
RegisterUnlessUnchanged(r) ==
  LET q == request[r] IN
  /\ q.pc = "run" /\ q.op = "put" /\ LockFree
  /\ IF q.event \in catalog /\ q.text \in {NoText, text[q.event]}
     THEN /\ Reply(r)
          /\ promised' = promised \cup {q.event}
          /\ promisedText' = [promisedText EXCEPT
               ![q.event] = IF q.text = NoText THEN @ ELSE q.text]
          /\ UNCHANGED <<catalog, text, mutex, withdrawn>>
     ELSE /\ mutex' = r
          /\ Upsert(q.event, q.text)
          /\ request' = [request EXCEPT ![r].pc = "save",
                                        ![r].created = q.event \notin catalog]
          /\ UNCHANGED promised
  /\ UNCHANGED <<subs, disk, handler, fromMenu>>
RegisterEvent(r) ==
  LET q == request[r] IN
  /\ q.pc = "run" /\ q.op = "put" /\ LockFree
  /\ mutex' = r
  /\ Upsert(q.event, q.text)
  /\ request' = [request EXCEPT ![r].pc = "save",
                                ![r].created = q.event \notin catalog]
  /\ UNCHANGED <<subs, disk, handler, promised, fromMenu>>

(* registerNotifyEvent for a name the catalog has: no save, and the client *)
(* is told its notification was taken.                                      *)
NotifyKnown(r) ==
  LET q == request[r] IN
  /\ q.pc = "run" /\ q.op = "notify" /\ LockFree
  /\ q.event \in catalog
  /\ promised' = promised \cup {q.event}
  /\ Reply(r)
  /\ UNCHANGED <<catalog, text, subs, disk, mutex, handler,
                 promisedText, withdrawn, fromMenu>>

(* registerNotifyEvent for a new name: up to its save. *)
NotifyNew(r) ==
  LET q == request[r] IN
  /\ q.pc = "run" /\ q.op = "notify" /\ LockFree
  /\ q.event \notin catalog
  /\ mutex' = r
  /\ Upsert(q.event, q.text)
  /\ request' = [request EXCEPT ![r].pc = "save", ![r].created = TRUE]
  /\ UNCHANGED <<subs, disk, handler, promised, fromMenu>>

(* EventRemove begins with the catalog: from here on no lookup finds the  *)
(* event.                                                                  *)
RemoveWithoutLock(r) == mutex
RemoveLock(r) == r
RemoveEvent(r) ==
  LET q == request[r] IN
  /\ q.pc = "run" /\ q.op = "remove" /\ LockFree
  /\ mutex' = RemoveLock(r)
  /\ catalog' = catalog \ {q.event}
  /\ text' = [text EXCEPT ![q.event] = OwnName]
  /\ promised' = promised \ {q.event}
  /\ promisedText' = [promisedText EXCEPT ![q.event] = AnyText]
  /\ request' = [request EXCEPT ![r].pc = "sweep", ![r].todo = User]
  /\ UNCHANGED <<subs, disk, handler, withdrawn, fromMenu>>

(* ... then takes it from one subscriber after another. *)
RemoveFromSubscriber(r) ==
  LET q == request[r] IN
  /\ q.pc = "sweep"
  /\ \E u \in q.todo :
       /\ subs' = [subs EXCEPT ![u] = @ \ {q.event}]
       /\ fromMenu' = fromMenu \ {<<u, q.event>>}
       /\ request' = [request EXCEPT ![r].todo = @ \ {u},
            ![r].pc = IF q.todo = {u} THEN "save" ELSE "sweep"]
  /\ UNCHANGED <<catalog, text, disk, mutex, handler,
                 promised, promisedText, withdrawn>>

(* applySubCmd.  Subscribe refuses a subscription that exists (409) and,    *)
(* unlike the menus, takes any event name; unsubscribe always succeeds;    *)
(* pause and unpause need the subscription (404).  All but the refusals    *)
(* go on to save, and none takes the mutex.                                *)
Subscription(u, name) == {e \in subs[u] : Fold[e] = Fold[name]}

ToSave(r) == request' = [request EXCEPT ![r].pc = "save"]

ApplySubscribe(r) ==
  LET q == request[r] IN
  /\ q.op = "subscribe"
  /\ IF q.event \in subs[q.user]
     THEN Reply(r) /\ UNCHANGED subs
     ELSE ToSave(r) /\ subs' = [subs EXCEPT ![q.user] = @ \cup {q.event}]
  /\ UNCHANGED fromMenu

ApplyUnsubscribe(r) ==
  LET q == request[r]
      found == Subscription(q.user, q.event) IN
  /\ q.op = "unsubscribe"
  /\ \E e \in IF found = {} THEN {q.event} ELSE found :
       /\ subs' = [subs EXCEPT ![q.user] = @ \ {e}]
       /\ fromMenu' = fromMenu \ {<<q.user, e>>}
  /\ ToSave(r)

ApplyPause(r) ==
  LET q == request[r] IN
  /\ q.op = "pause"
  /\ IF Subscription(q.user, q.event) = {} THEN Reply(r) ELSE ToSave(r)
  /\ UNCHANGED <<subs, fromMenu>>

ApplySubCmd(r) ==
  /\ request[r].pc = "run"
  /\ ApplySubscribe(r) \/ ApplyUnsubscribe(r) \/ ApplyPause(r)
  /\ UNCHANGED <<catalog, text, disk, mutex, handler,
                 promised, promisedText, withdrawn>>

(* SaveState succeeds; the lock is released and the client gets its 200. *)
SaveOk(r) ==
  LET q == request[r] IN
  /\ q.pc = "save"
  /\ disk' = Memory
  /\ mutex' = Unlocked(r)
  /\ promised' = IF q.op \in {"put", "notify"} THEN promised \cup {q.event} ELSE promised
  /\ promisedText' = IF q.op = "put" /\ q.text # NoText
                     THEN [promisedText EXCEPT ![q.event] = q.text] ELSE promisedText
  /\ withdrawn' = IF q.op = "remove" THEN withdrawn \cup {q.event} ELSE withdrawn
  /\ Reply(r)
  /\ UNCHANGED <<catalog, text, subs, handler, fromMenu>>

(* SaveState fails: the client gets its 500, at once if nothing was created. *)
SaveFail(r) ==
  LET q == request[r] IN
  /\ SaveMayFail
  /\ q.pc = "save"
  /\ IF q.created
     THEN request' = [request EXCEPT ![r].pc = "rollback"] /\ UNCHANGED mutex
     ELSE Reply(r) /\ mutex' = Unlocked(r)
  /\ UNCHANGED <<catalog, text, subs, disk, handler, history>>

(* ... or after Events.Remove took the event this request had created out *)
(* of the catalog.  Subscriptions are left alone.                          *)
KeepCreated(e) == catalog
RolledBack(e) == catalog \ {e}
Rollback(r) ==
  LET q == request[r] IN
  /\ q.pc = "rollback"
  /\ catalog' = RolledBack(q.event)
  /\ text' = [text EXCEPT ![q.event] = OwnName]
  /\ mutex' = Unlocked(r)
  /\ Reply(r)
  /\ promisedText' = [promisedText EXCEPT ![q.event] = AnyText]
  /\ UNCHANGED <<subs, disk, handler, promised, withdrawn, fromMenu>>

-----------------------------------------------------------------------------
(* Telegram handlers *)

(* subWizardSubscribeEvt: the button carries a name, perhaps from an old   *)
(* menu; Events.Name finds the entry it stands for, or the reply is "gone" *)
(* and nothing changes.  A text /sub looks the name up in resolveSubTarget *)
(* (Exists), and only the poller runs text commands.                       *)
PressSubscribe(h) ==
  /\ handler[h].pc = "idle"
  /\ \E u \in User, name \in Event : \E e \in Matches(name) :
       handler' = [handler EXCEPT ![h] =
         [pc |-> "subscribe", kind |-> "menu", event |-> e, user |-> u]]
  /\ UNCHANGED <<catalog, text, subs, disk, mutex, request, history>>

TextSubscribe(h) ==
  /\ handler[h].pc = "idle"
  /\ \A o \in Handler : handler[o].pc # "idle" => handler[o].kind # "text"
  /\ \E u \in User, e \in catalog :
       handler' = [handler EXCEPT ![h] =
         [pc |-> "subscribe", kind |-> "text", event |-> e, user |-> u]]
  /\ UNCHANGED <<catalog, text, subs, disk, mutex, request, history>>

(* Subscriber.Subscribe adds the event, or fails because it is there. The  *)
(* menu then looks again for the event; the text command does not.         *)
NoRecheck(h) == "save"
AfterSubscribe(h) == IF handler[h].kind = "menu" THEN "recheck" ELSE "save"
Subscribe(h) ==
  LET q == handler[h] IN
  /\ q.pc = "subscribe"
  /\ subs' = [subs EXCEPT ![q.user] = @ \cup {q.event}]
  /\ fromMenu' = IF q.kind = "menu" /\ q.event \notin subs[q.user]
                 THEN fromMenu \cup {<<q.user, q.event>>} ELSE fromMenu
  /\ handler' = [handler EXCEPT ![h].pc = AfterSubscribe(h)]
  /\ UNCHANGED <<catalog, text, disk, mutex, request,
                 promised, promisedText, withdrawn>>

(* "The HTTP remove endpoint can drop the event between the lookup above   *)
(* and the subscribe": Exists, and if it is gone ...                       *)
Recheck(h) ==
  LET q == handler[h] IN
  /\ q.pc = "recheck"
  /\ handler' = [handler EXCEPT ![h].pc = IF q.event \in catalog THEN "save" ELSE "undo"]
  /\ UNCHANGED <<catalog, text, subs, disk, mutex, request, history>>

(* ... Events.Remove on the subscriber, and no save. *)
Undo(h) ==
  LET q == handler[h] IN
  /\ q.pc = "undo"
  /\ subs' = [subs EXCEPT ![q.user] = @ \ {q.event}]
  /\ fromMenu' = fromMenu \ {<<q.user, q.event>>}
  /\ Finish(h)
  /\ UNCHANGED <<catalog, text, disk, mutex, request,
                 promised, promisedText, withdrawn>>

(* unsubWizardPick, camsWizardUnsub, cmdUnsub: remove one subscription. *)
Unsubscribe(h) ==
  /\ handler[h].pc = "idle"
  /\ \E u \in User : \E e \in subs[u] :
       /\ subs' = [subs EXCEPT ![u] = @ \ {e}]
       /\ fromMenu' = fromMenu \ {<<u, e>>}
       /\ handler' = [handler EXCEPT ![h] =
            [pc |-> "save", kind |-> "menu", event |-> e, user |-> u]]
  /\ UNCHANGED <<catalog, text, disk, mutex, request,
                 promised, promisedText, withdrawn>>

(* HandleCallback and HandleCommand save what a handler changed, and drop  *)
(* the error: the reply is the same when nothing reached the disk.         *)
HandlerSaves(h) ==
  /\ handler[h].pc = "save"
  /\ \/ disk' = Memory
     \/ SaveMayFail /\ UNCHANGED disk
  /\ Finish(h)
  /\ UNCHANGED <<catalog, text, subs, mutex, request, history>>

(* Every other command that saves (pause, delay, users, ...), and the save *)
(* before an orderly exit.                                                 *)
OtherSave ==
  /\ disk' = Memory
  /\ UNCHANGED <<catalog, text, subs, mutex, request, handler, history>>

-----------------------------------------------------------------------------
(* Start: GetDB reads the state file, EnsureBuiltInEvents adds the system   *)
(* events to the catalog and sets their description; nothing is saved.      *)
LoadedCatalog == disk.catalog \cup BuiltIn
LoadedText == [e \in Event |-> IF e \in BuiltIn THEN BuiltInText ELSE disk.text[e]]

Restart ==
  /\ catalog' = LoadedCatalog
  /\ text' = LoadedText
  /\ subs' = disk.subs
  /\ mutex' = NoRequest
  /\ request' = [r \in Request |-> IdleRequest]
  /\ handler' = [h \in Handler |-> IdleHandler]
  /\ promisedText' = [e \in Event |-> IF e \in BuiltIn THEN AnyText ELSE promisedText[e]]
  /\ withdrawn' = withdrawn \ BuiltIn
  /\ fromMenu' = {}
  /\ UNCHANGED <<disk, promised>>

Init ==
  /\ disk = [catalog |-> {}, text |-> [e \in Event |-> OwnName],
             subs |-> [u \in User |-> {}]]
  /\ catalog = LoadedCatalog
  /\ text = LoadedText
  /\ subs = disk.subs
  /\ mutex = NoRequest
  /\ request = [r \in Request |-> IdleRequest]
  /\ handler = [h \in Handler |-> IdleHandler]
  /\ promised = {} /\ withdrawn = {} /\ fromMenu = {}
  /\ promisedText = [e \in Event |-> AnyText]

(* What request r does once it was received. *)
HandleRequest(r) ==
  \/ RegisterEvent(r) \/ NotifyKnown(r) \/ NotifyNew(r) \/ RemoveEvent(r)
  \/ RemoveFromSubscriber(r) \/ ApplySubCmd(r)
  \/ SaveOk(r) \/ SaveFail(r) \/ Rollback(r)

HandleChat(h) ==
  \/ PressSubscribe(h) \/ TextSubscribe(h) \/ Subscribe(h) \/ Recheck(h)
  \/ Undo(h) \/ Unsubscribe(h) \/ HandlerSaves(h)

Next ==
  \/ \E r \in Request : Receive(r) \/ HandleRequest(r)
  \/ \E h \in Handler : HandleChat(h)
  \/ OtherSave
  \/ Restart

Spec == Init /\ [][Next]_vars

(* Goroutines that can run do run; sync.Mutex hands the lock to a waiter    *)
(* that has waited too long, so a request that keeps finding it free for a  *)
(* moment gets it in the end.                                               *)
Fairness == \A r \in Request : SF_vars(HandleRequest(r))
FairSpec == Spec /\ Fairness

-----------------------------------------------------------------------------
(* Properties *)

(* r holds the mutex and has created its event without having saved it. *)
Unsaved(r) == request[r].pc \in {"save", "rollback"} /\ request[r].created

(* webhandler_events.go 93-98: an event never "only exists until restart".  *)
(* With nobody between creation and save, all the catalog is on disk (or is *)
(* built in); a later notify that finds the event need not save it.         *)
NoMemoryOnlyEvent ==
  \A e \in catalog : e \in LoadedCatalog \/ \E r \in Request : Unsaved(r) /\ request[r].event = e

(* A client told "registered", "updated" or "got notify" can rely on it:    *)
(* the event is in the catalog and survives a restart, with the description *)
(* it was told is set, until a removal (a new description) begins; no save  *)
(* failure, rollback, save of another handler or crash takes it away.       *)
PromiseKept ==
  \A e \in promised :
    /\ e \in catalog /\ e \in LoadedCatalog
    /\ promisedText[e] # AnyText => text[e] = promisedText[e] /\ disk.text[e] = promisedText[e]

(* A client told "removed" can rely on it: no concurrent registration,      *)
(* rollback, save or restart brings the event back, unless someone          *)
(* registers it anew (or a restart registers a system event).               *)
RemovedStaysRemoved ==
  \A e \in withdrawn : e \notin catalog /\ e \notin disk.catalog

(* wizard.go 259-261: "Undo rather than leave a subscription to an event    *)
(* nobody can see".  A subscription this process made from a menu is to an  *)
(* event of the catalog, unless a handler or a removal is about to drop it. *)
NoMenuOrphan ==
  \A u \in User, e \in Event : <<u, e>> \in fromMenu =>
    \/ e \in catalog
    \/ \E h \in Handler : handler[h].pc \in {"recheck", "undo"}
                          /\ handler[h].user = u /\ handler[h].event = e
    \/ \E r \in Request : request[r].pc = "sweep"
                          /\ request[r].event = e /\ u \in request[r].todo

(* The catalog's contract with its clients. *)
Registry == INSTANCE EventRegistry
  WITH known <- promised, gone <- withdrawn \ BuiltIn, stored <- LoadedCatalog
RegistrySpec == Registry!Spec

(* Every request that was received is answered (or the process restarts),  *)
(* whatever the other requests do to the mutex and to the state file.       *)
RequestAnswered ==
  \A r \in Request : request[r].pc = "run" ~> request[r].pc = "idle"

=============================================================================
