# Motifini: a TLA+ model of the server

Motifini (Go, `src/`) stands between a SecuritySpy server, Telegram and HTTP
clients such as Home Assistant. It sends camera clips and texts to the Telegram
chats that subscribed to a camera or an event. This directory holds TLA+
modules that model its concurrent core, TLC configurations that check them on
small instances, and TLAPS proofs for any number of chats, events and requests.

## The system

### Goroutines

| goroutine | started at | what it does |
|---|---|---|
| main | `Motifini.Run`, `start.go:332` | loads the state file, starts everything, waits for a signal, saves, stops the web server |
| event stream | `ProcessEventStream`, `eventstream.go:21` | takes the events of SecuritySpy one after another; before the messenger is up, too |
| poller | `startTelegram`, `telegram.go:66` | takes Telegram's updates; answers a text itself |
| button press | `telegram.go:119` | one per press |
| HTTP request | `net/http` | one per request |
| SecuritySpy retry | `start.go:401` | refreshes until it succeeds once |

All of them share one database in memory (`golift.io/subscribe`): a catalog of
events, a list of subscribers, and for each its subscriptions with their rules
and pauses. Each accessor of the library locks for itself. A save writes all of
memory to the state file. Only three HTTP handlers take a lock
over several accesses (`Config.catalog`, `webserver.go:50`).

### Components

| component | state | operations | what is hard | modelled in |
|---|---|---|---|---|
| HTTP event API and catalog (`webhandler_events.go`, `webhandler_subscribe.go`, `sysevents.go`) | catalog, descriptions, subscriptions, state file, mutex | register, notify, remove, subscribe, unsubscribe, pause; menu and text subscriptions | requests beside button presses, failing saves and their rollback, restarts | `EventCatalog`, `EventRegistry` |
| records, roles, authentication (`telegram.go`, `wizard_admin.go`, `commands_admin.go`) | admin, ignored, authenticated of each chat | first contact, `/id`, allow, deny, ignore, unignore, admin, unadmin, delete | presses beside each other and the poller, pointers to deleted records, restarts | `AdminRoles` |
| notifications (`eventstream.go`, `messenger.go`, `notifyHandler`) | subscriptions, pauses, delays | motion, system event, HTTP notify, pause, delay, subscribe, unsubscribe | a capture and several sends between the choice of the recipients and the pauses | `Notifier` |
| start, configuration change, stop (`start.go`, `eventstream.go`, `messenger.go`, `webserver.go`) | `stopall`, `telebot`, pollers, `http` servers | `Start` and `Stop` of both, by two goroutines | a stop while the poller is busy, a change during startup, connections that fail | `Lifecycle` |
| subscription menus (`wizard.go`, `wizard_cmds.go`, `wizard_admin_subs.go`) | the buttons of a message, subscriptions and their rules | list, unsubscribe, pause, delay, for oneself or for another | buttons name a subscription by index; two chats change the same subscriptions | `SubscriptionMenus`, `SubscriptionOrders` |
| camera menus (`cameras.go`, `wizard*.go`, `camsettings_wizard.go`) | the list of cameras, buttons, camera subscriptions, clip settings | open, subscribe, unsubscribe, picture, clip, set | a button is a place in a list that any refresh replaces | `CameraMenus` |
| clip settings (`camsettings.go`) | rules of a camera's catalog entry | defaults, limits, sizes, codecs | boundaries, entries edited by hand, two presses that make the entry | `ClipSettings`, `CameraMenus` |
| names and the rename prompt (`wizard_admin.go`, `telegram.go`, `commands_admin.go`) | `Contact`, the names in `Meta`, `pendingRenameID` | prompt, cancel, answer, `/name`; names that chats report and menus recover | the prompt is a press, its answer a message; a cancel that is not saved; restarts | `RenamePrompt` |
| pictures and clips (`eventstream.go`, `webhandler_send.go`, `captureNotifyMedia`, `snapOne`, `snapAll`, `SendFileOrMsg`) | files in `TempDir` | capture, send, remove | a capture that fails, one file for many chats, a bot that is gone, a crash | `MediaFiles`, `Deliveries` |
| subscription keys (`subkeys.go`) | none | keys of a motion, classes of a chat | | in `Notifier` and `CameraMenus` |
| event menu sections, API key, configuration, logging, service, Home Assistant | | | | not modelled: layout, input and output without shared state, or another process |

### What makes each component correct

- Catalog: what a client was told (registered, updated, removed) is true in
  memory and in the file until someone changes it; a menu leaves no
  subscription to an event nobody can see; the mutex is always released.
- Roles: an answered role change survives a restart; the menu never takes the
  last admin.
- Notifications: nobody's own pause is cut short; nobody is sent the same
  subscription again within its repeat delay.
- Lifecycle: one poller; a `Stop` stops what runs and never closes a channel
  twice; after a configuration change web server and poller are back; a button
  press finds a bot.
- Subscription menus: a tap acts on the subscription its button names, and on
  no other once it has found it; what is answered with "Removed" or "Saved" is
  saved; an admin's menu changes the chat it is about.
- Camera menus: a press acts on the camera its button named; no setting an admin
  gave is lost; what SecuritySpy is asked for is within the limits and below
  half the native height, or native.
- Names: a name an admin gave stays; what he types goes to the chat he was asked
  about; a prompt he was shown outlives a restart.
- Pictures and clips: a file is there and whole for every recipient, is removed
  after the last, and all recipients of a request get the same, each once; a
  failed capture keeps nobody else from an answer.

## The modules

`EventRegistry` is the abstract catalog: three sets (`known`, `gone`, `stored`)
and the promise that no write of the state file breaks what a client was told.
It knows no handler, lock or file.

`EventCatalog` models the handlers. A request is a record with a program
counter: `Receive` (validated and routed), then per operation `RegisterEvent`,
`NotifyKnown`/`NotifyNew`, `RemoveLock`, `RemoveEvent`, `RemoveFromSubscriber`,
`ApplySubscribe`, ..., then `SaveOk` or `SaveFail`, then `Rollback` and the
answer. Menu presses take the steps of `subWizardSubscribeEvt`: look up,
subscribe, look again, undo, save. `OtherSave` is a save by any other handler.
`Restart` may happen at any step and starts from the state file, with
`EnsureBuiltInEvents`. A refinement mapping (in the module, `Registry`) shows
that the handlers implement `EventRegistry`.

`AdminRoles` models records at addresses, because handlers hold pointers: a
chat's record may be deleted and another created while a press still holds the
first. What a handler still has to do is a sequence of calls, each of which
locks for itself (`Calls`, `MenuCalls`, `Write`). `FirstContact`,
`Unauthenticate`, `Dispatch` and `Authenticate` are the poller's; presses run
between any two of them. `disturbed` is history: the presses, and the
message at the poller, during which another handler changed a record.

`Notifier` counts time in ticks. The stream's goroutine goes through capture,
send, pause; `Pick` and `HoldPicked` are the two halves of the loop that asks
which keys are active and then pauses them. `asked`, `cooldown` and `crossed`
are history: what the subscriber asked for, what is left of his delay since the
last message, and which pauses he made while the goroutine was already about to
set one.

`Lifecycle` numbers the starts of the messenger and of the web server. A
channel, the bot connected after it and the poller launched last share a
number. The poller's `select` reads `m.stopall` in each round (`NextRound`).
`HasMsgs` and `HasHTTP` say when `m.Msgs` and `m.HTTP` are set, which is before
they are started. `Refused` is main's end when `messenger.New` or
`webserver.Start` rejects what it is given (`messenger.go:40`,
`webserver.go:104`), `WebDisabled` a configuration without a web server. A nil
pointer or the close of a nil channel ends the program
(`panic`).

`SubscriptionMenus` gives each message a set of buttons and each press a
goroutine. A button that is about one subscription has a place, its index among
the sorted names, and a label, the name it had when the menu was made. `Tap`
takes a button, `Serve` runs the handler up to its first look at the names
(`FindPlace`, `ShowItem`, ...), `Apply...` changes the subscription found,
`MakeAnswer` reads the names again for the next menu, `Save` and `Edit` end the
press; between any two of these others may run. The text commands are served by
the poller, one at a time, and name the subscription. `ruled` says for which
subscriptions a pause or a delay was set since they were made. `outdated` is
history: the menus, and the goroutines whose place or answer is from before a
change that another goroutine made to the list. A tap of a button without a
place and its first look are one step: such a button means the same whenever it
is served.

`SubscriptionOrders` is what the chats may rely on: a change is ordered for one
chat, by itself or by somebody who is an admin then, is carried out in one step
of exactly what was ordered, and is saved before its handler is done. It knows
no menu, list or place. In the mapping (`OrderOf`, `Status`) an order is there
from the first look of a handler, which names the subscription, to its save.

`ClipSettings` has no state: a camera's rules, what the code makes of them
(`ClipSettingsOf`, with `clampClipLength`'s rounding) and what it asks SecuritySpy
for (`VideoClipOps`). `CameraMenus` uses it. A button there has the place it
carries and, as history, the camera it stood for when the menu was made. `Tap`
takes a button, `Look` (or `Unsubscribe` and `LookAgain`, which look twice) finds
the camera now in that place, `Subscribe`, `Remove`, `Snap` or `Ensure`, `New` and
`RuleSet` act on it, `Answer` looks at the list again, `Save` and `Edit` end the
press. `Refresh` replaces the list at any time. `outdated` is history: which
menus, presses and answers were made from a list that has been replaced.

`RenamePrompt` follows one admin's "Rename" from the press (`Ask`, `Shown`,
`SavePress`, `Edit`) to the message that answers it (`ReadPrompt`, `ClearPrompt`,
then `Rename` and `Answer`, or `SaveCancel` and `Command`). `Clear` is every
press that cancels. Every message and press first reports its sender's name
(`Report`), and `ReadName` and `FillName` are the two steps in which a menu
recovers a blank contact. `asked` and `promised` are history: what the admin was
last told to type and which name he was told a chat has. `muddled` marks admins
of whom two handlers were at work at once, or who lost the role or met a restart
on the way.

`MediaFiles` has six kinds of request that share a shape: capture, send to each,
remove. They differ in what a failed capture does (`AfterFailure`), in who removes
the file (`Clean`, `RemoveSent`, `Discard`) and in when the message is edited
(`Edit`). Without a bot an edit and a text answered to a command (`NeedsBot`)
panic, and so does the acknowledgement that starts a press; files and the texts
of a notify are dropped without a word (`telegram.go:342`, `telegram.go:360`).
`left` is history of the last step: the
files it left for good.

`Deliveries` is what whoever asks for them may rely on: once it is settled what
the recipients of a request get, it is the same for all, the whole file or a
text, each gets it once, and only a request that is not firm (a motion event, an
HTTP send) may be called off, before anyone was served. It knows no camera,
handler or kind of request. In the mapping (`WhatFor`, `DealOf`) a request is
open while it captures; the cameras of "all" are the stops of a tour.

`MC*` modules hold the definitions TLC needs (symmetry, a view, the folding of
names, small tables); `*_proofs` modules hold the proofs.

What is left out of all modules: texts and layout of messages, logging,
validation that rejects a request before it touches state, and what the library
does inside one call. Library calls are modelled by how the code relies on them
and marked external in `PROJECT.json`.

## The runs

| run | instance | checks | result |
|---|---|---|---|
| `catalog` | one event, two descriptions, two requests, one chat handler; saves fail, restarts | `TypeOK`, `NoMemoryOnlyEvent`, `PromiseKept`, `RemovedStaysRemoved`, `RegistrySpec` (refinement), `RequestAnswered` (liveness) | holds |
| `catalog_menus` | a client's event and a system event with the same letters, one request, two chat handlers; saves succeed | `NoMenuOrphan` | holds |
| `catalog_orphan` | one event; saves may fail | `NoMenuOrphan` | violated: finding 1 |
| `roles` | two chats, the poller, one press, every menu action, restarts | `TypeOK`, `RolesSaved`, `UndisturbedMenuKeepsAdmin`, `UndisturbedContactKeepsAdmins` | holds |
| `notifier` | one subscriber, a camera with one class, a system event, an HTTP event | `TypeOK`, `PauseKept`, `StreamWaits` | holds |
| `notifier_delay` | two subscribers, an HTTP event | `NotifyWaits` | violated: finding 2 |
| `lifecycle` | two configuration changes, one press | `TypeOK`, `OnePoller`, `StopClosesIdle`, `ServerKnown`, `BotUnlessFailed`, `StopFindsChannel`, `WebReturns`, `PollerReturns` | holds |
| `lifecycle_poller` | one change | `StopClosesRoutine` | violated: finding 3 |
| `menus` | a chat and an admin with a menu each, two subscriptions, two presses and the poller | `TypeOK`, `UndisturbedTap`, `ChangesSaved`, `OrdersCarriedOut` (refinement) | holds |
| `cameras` | an admin who taps, a second subscriber, two cameras, two presses at once, five taps | `TypeOK`, `UndisturbedPick`, `ChoicesKept`, `ClipsWithinLimits`, `ChangesSaved` | holds |
| `rename` | an admin, another chat, one press beside the poller, restarts | `TypeOK`, `NamesKept`, `NameGoesToAsked`, `PromptSurvives` | holds |
| `media` | two requests at once, two chats, two cameras | `TypeOK`, `FileThereForAll`, `FilesRemoved`, `DeliverySpec` (refinement), `RequestsEnd` (liveness) | holds |

### Findings

1. A save that fails rolls a new event back out of the catalog alone. A menu
   subscription made in between stays (`wizard.go:259-261` says why it should
   not).
2. A repeat delay set for an event of the HTTP API has no effect
   (`wizard_cmds.go:996-998` says what it does).
3. `Stop` closes a channel that the poller reads anew in each round. If it is
   busy until `Start` made a new one it goes on, beside the new poller
   (`messenger.go:91`, `README.md:149`). `StopClosesIdle` shows that being busy
   through the next `Start` is the only way.

The properties of the other runs hold because they excuse, by name, what the
code does not prevent. These excuses are disagreements of the same kind:

- `disturbed` (`UndisturbedMenuKeepsAdmin`): the check for the last admin and
  the write that follows are not one step (`wizard_admin.go:236`). Two admins
  who remove each other at once leave none, and the next stranger becomes admin.
  In `UndisturbedContactKeepsAdmins` it excuses a message that reads the admin
  flag, is overtaken by a press that changes it, and sets what it read
  (`telegram.go:190`).
- `raced` (`ServerKnown`): a configuration change between `m.HTTP = ...` and its
  start leaves two servers for one port, and `c.http` may be the one without
  it; no later `Stop` stops the other (`webserver.go:152`).
- `outdated` in `SubscriptionMenus`: a tap on a button whose list has changed
  since (a second tap, an edit that failed, a text, an admin) removes the next
  subscription in the list (`wizard.go:305`, `wizard.go:322`). The buttons for
  events carry the name so that this cannot happen (`wizard.go:243-244`).
- `outdated` in `CameraMenus`: after a refresh that adds or drops a camera, the
  buttons of every open menu stand for other cameras; `eventgroups.go:66-68`
  gives the reason why event buttons carry names instead. `PlacesNameCameras`
  shows that lists which disagree about a place are the only cause: a refresh
  that adds or drops cameras at the end of the list harms nobody.
- `muddled` (`NameGoesToAsked`): Cancel clears the prompt in memory and does not
  save (`wizard_cmds.go:163-171`), so a restart brings a cancelled prompt back
  and the admin's next message renames someone.
- `FilesRemoved` lets the failed captures of motion events, HTTP sends and chat
  commands leave partial files; `webhandler_events.go:368-373` removes those of
  a notify because "a flapping camera would pile up partial files".
- `StopFindsChannel` excuses `stopall = 0`: a configuration change between
  `m.Msgs = ...` (`start.go:419`) and the first `make` closes a nil channel, and
  the program ends. No later `Stop` can.

TLC also showed, beside the runs: an admin who allows a chat between the two
calls of its first contact (`telegram.go:177-179`) is told so, and the second
takes it back (`RolesSaved` counts the chat as `unsaved`); the check for the last admin is never the one
that refuses unless two presses overlap, since nobody removes himself; a pause
made while a clip is being captured replaces the repeat delay of that clip; a
system notification overwrites a longer pause made while it is on its way
(`PauseKept` excuses these two through `crossed` and `cooldown`).

### Bounds

- Two requests and two handlers are enough for every race the code guards
  against: each guard is about one other goroutine between two steps of one.
  One event is enough where properties are about one name; the second event of
  `catalog_menus` is there for names that differ in case.
- Two chats are enough for the last admin: one who removes, one who is removed.
  Two addresses per chat: one deleted but held, one current.
- `Notifier`: pauses of 0 and 2 ticks, a delay of 2 and a default of 1, so
  that a pause can be longer and shorter than the delay.
- `SubscriptionMenus`: two names, the least with which an index can name
  another subscription; `MaxAtWork = 2` goroutines at once, a tap and what
  disturbs it, chosen among two presses and the poller. `Offered`, `Typed` and
  `Own` say which of the buttons and commands a chat uses: together they run
  every action; of two handlers that differ only in whose subscriptions they
  change (the pause, the removal and the menu of one subscription) one of the
  two. TLC's view drops what no later step reads, and marks of `outdated` that
  nothing depends on.
- `Lifecycle`: `MaxChange = 2`: one change to cause a fault, one to show that it
  lasts.
- `CameraMenus`: two cameras and a list with and without the first, the least
  with which a place stands for another camera; one camera whose exact half
  SecuritySpy would not recompress, one of a few pixels; `MaxTaps = 5`: a menu,
  a camera's menu, a choice, and two taps of the second press. A state file
  without settings and one edited by hand.
- `RenamePrompt`: one press beside the poller, because a name is typed and
  everything else tapped; nothing is bounded but the number of names.
- `MediaFiles`: two requests, though none touches another's file; two chats, so
  that a file has a next recipient.

### Fairness

- `EventCatalog`: strong fairness of each request's handler. A goroutine that is
  runnable runs, and one that waits for the mutex gets it although others take it
  again and again: Go's mutex hands over to a waiter that starves. No request
  has to arrive, and nothing else of the environment is fair.
- `Lifecycle`: weak fairness of main, the stream, the pollers' handlers and the
  goroutine that listens: nothing stops the Go scheduler from running them, and
  every network call ends in an answer or an error. Updates, presses,
  configuration changes and the signal may never come. `PollerReturns` relies
  on `MaxChange`: changes that follow each other for ever could stop every
  poller before its first round.
- `MediaFiles`: weak fairness of each goroutine's step. A capture has a time
  limit (`SaveVideo`'s length, `SaveJPEG`'s request) and an upload the HTTP
  client of the bot: both end in a result or an error. No request has to come,
  and the bot may stay away.
- `AdminRoles`, `Notifier`, `SubscriptionMenus`, `CameraMenus` and
  `RenamePrompt` have safety properties only: what their presses wait for is in
  the modules above.

`Lifecycle` runs without deadlock check: the program ends by a signal or a panic.

## The proofs

| module | theorem | says |
|---|---|---|
| `EventCatalog_proofs` | `TypeCorrect`, `Invariant`, `PromisesKept`, `RemovalsKept`, `NothingOnlyInMemory` | the safety properties of `catalog` for any constants |
| | `RegistryImplemented` | `Spec => RegistrySpec`: the handlers implement `EventRegistry` |
| | `MenusSafe` | `~SaveMayFail => (Spec => []NoMenuOrphan)`: failing saves are the only cause of finding 1 |
| `AdminRoles_proofs` | `Invariant`, `TypeCorrect`, `RolesAreSaved` | an answered role change is on disk, for any number of chats and presses |
| | `MenuKeepsAnAdmin` | a press no other handler disturbs takes no last admin |
| | `ContactKeepsTheAdmins` | a message no press disturbs makes an admin only if there is none, and takes no role |
| `Notifier_proofs` | `Invariant`, `TypeCorrect`, `PausesAreKept` | pauses asked for are kept, for any subscribers, keys, delays and pauses |
| | `StreamHasWaited` | the stream sends nothing twice within a repeat delay |
| `Lifecycle_proofs` | `Invariant`, `TypeCorrect`, `OnePollerHolds`, `StopClosesIdleHolds`, `ServerKnownHolds`, `BotUnlessFailedHolds`, `StopFindsChannelHolds` | the safety properties of `lifecycle`, for any number of changes and presses |
| `SubscriptionMenus_proofs` | `TypeCorrect`, `UndisturbedTaps`, `ChangesAreSaved` | the invariants of `menus`, for any chats, menus, goroutines and events |
| | `OrdersImplemented` | `Spec => OrdersCarriedOut`: the menus and commands implement `SubscriptionOrders` |
| `CameraMenus_proofs` | `TypeOKHolds`, `UndisturbedPickHolds`, `ChoicesKeptHolds`, `ClipsWithinLimitsHolds`, `ChangesSavedHolds` | the properties of `cameras`, for any cameras, lists, native sizes, offers and rules in the file |
| | `PlacesNameCameras` | `ListsAgree => (Spec => [][ActsAsNamed]_vars)`: if no two lists disagree about a place, every press acts on the camera its button named |
| `RenamePrompt_proofs` | `TypeOKHolds`, `NamesKeptHolds`, `NameGoesToAskedHolds`, `PromptSurvivesHolds` | the properties of `rename`, for any chats, admins, names and presses |
| `MediaFiles_proofs` | `TypeOKHolds`, `FileThereHolds`, `FilesRemovedHolds` | the invariants of `media`, for any goroutines, finite sets of chats and cameras |
| | `DeliveriesImplemented` | `Spec => DeliverySpec`: the handlers implement `Deliveries` |

Each uses the assumptions on the constants that its module states by name
(`CatalogAssumption`, `RolesAssumption`, `NotifierAssumption`,
`LifecycleAssumption`, `MenusAssumption`, `CameraAssumption`, `PromptAssumption`,
`MediaAssumption`) and no other.

`EventCatalog`: no property is inductive, because memory and file differ
between a change and its save. `IInv` says for each program counter who holds
the mutex, what the request has done so far, and that only the holder can have
an event in memory that the file lacks. The refinement and `MenusSafe` follow
from it step by step.

`AdminRoles`: a handler that may still write holds the record of the chat it
names and ends in a save, and a change not yet saved belongs to a chat whose
handler is not finished or to one in `unsaved`. For the last admin,
`PressersStay` says what holds of a press until another handler changes roles:
whoever presses is still in the database, is an admin once he has been asked, and
what he has left to do takes nobody's role but another's. So one admin stays.
For messages, `MessageStays` says the same of the poller: as long as nothing
disturbs it, the record it holds is the one in the database and the flag it is
about to set is the one there.

`Notifier`: `PauseKept` alone is not inductive. `HoldInv` adds what the
goroutine knows when it is about to pause a key: the key had no pause when it
was picked, so one asked for since is noted in `crossed`; and the recipients it
goes through were all reached by the keys of the event. For `StreamWaits`,
`CoolInv` says that what is left of a delay is covered by the pause or by one
the goroutine still owes, and that those it has yet to tell have nothing left.

`Lifecycle`: `IInv` says which channel, bot and server belong to which start.
`Channels`: the one in use is the last start's, all before it are closed.
`Pollers`: one that no later start overtook waits on its own channel and is busy
only as long as that is in use, hence two that wait are the same. `Bots`: whoever
uses the bot was launched after a connection, unless one failed. `Servers`: unless
a change overtook main, none has the port between a stop and the start after it.
`StopClosesIdle` rests on `StoppedClosed` (a poller that was there at a stop and
that no start overtook has a closed channel), `StopFindsChannel` on `OpenAtStop`
(the channel in use is closed only from a stop to the start after it).

`SubscriptionMenus`: first that the places of a list are those of its names, one
each (`PlaceOnce`, `PlacesFilled`, `AtPlace`), from the theorems on finite sets:
a button made from a list finds its own label in that list. `CurrentInv` then
says that every menu, tapped button, found name and answer that is not marked
as outdated is right now; a change of a list marks all that was made from it
(`AppliedCurrent`), everything else leaves the list alone (`MoveCurrent`).
`ChangesSaved` is inductive given the types. `OrdersImplemented` goes through
the actions: each is one step of `SubscriptionOrders` or none. Of the invariants
it needs `TypeOK` alone, which says that only a subscription that is there is
`ruled`.

`CameraMenus`: `ClipsWithinLimits` is arithmetic about `ClipSettings` alone, for
every native size and every rule of the right type, from lemmas about division
(`clampClipLength`, the aspect ratio); `ChoicesKept` needs that a press about to
set a rule finds an entry, and that what a menu offers passes the limits
unchanged. For `UndisturbedPick` every menu, press
and answer that is not marked as outdated names, for each place, the camera that
is there now. For `PlacesNameCameras` (`AllNamed`) all of them do, marked or not,
because every list agrees with the one they were made from.

`RenamePrompt`: a name an admin was told is in the record and in the state file,
and only a rename overwrites a contact that is not blank; as long as an admin's
handlers do not overlap, the one at work knows where it is between the prompt in
his record and what he was asked.

`MediaFiles`: `FileOf` says what is at the path of a request at each of its
steps. `DeliveriesImplemented` maps each action to one step of `Deliveries` or
none, with `FileOf` for what is on the disk when a recipient is served.

Every safety property of the passing runs is proved, the three refinements
included. Liveness
(`RequestAnswered`, `WebReturns`, `PollerReturns`, `RequestsEnd`) is out of the
prover's reach and only model-checked.

## Not modelled

- Event menu sections (`eventgroups.go`), captions, spellings of classes, help:
  layout. What a press of an event's button does is in `EventCatalog`.
- Which events of the stream become a notice (`streamLive`, `streamSawDown`,
  `eventstream.go:58-66`, `99-116`): `Notifier` lets any system event happen any
  time.
- Saves that fail in menus: the handlers drop the error (`chat.go:160`), so
  there is no promise to state; failing saves are in `EventCatalog`, where the
  code handles them.
- What a text says. A message without words (a photo) reaches
  `handler.Text[0]` (`telegram.go:217`) and ends the program; the modules take
  every message for one with a word.
- A pause set for a message that was not sent, because there was no bot
  (`telegram.go:342`): bot and pauses are in different modules, and nothing says
  whether such a message should count.
- API key (`auth.go`): a comparison without state. Configuration, logging,
  counters, the macOS service: input and output. Home Assistant: a client of
  the HTTP API in another process.

## Plan

1. `streamLive` and `streamSawDown` in `Notifier`: a notice that the stream is up
   only after one that it was down.
2. The SecuritySpy retry of startup beside the event stream (`start.go:401`).
3. Pauses for messages that no bot sent: `Lifecycle` and `Notifier` composed.
