----------------------------- MODULE MediaFiles ------------------------------
(****************************************************************************)
(* Pictures and clips: a file in TempDir is made for a request, sent and    *)
(* removed (pkg/motifini/eventstream.go, pkg/webserver/webhandler_send.go   *)
(* and webhandler_events.go, pkg/chat/wizard_cmds.go, pkg/messenger).       *)
(*                                                                          *)
(*  - "motion": a camera's event, for its subscribers;                      *)
(*  - "notify": an HTTP notify, for the subscribers of its event, which is  *)
(*    a text if there is no picture;                                        *)
(*  - "relay": an HTTP send, to the recipients it names;                    *)
(*  - "command": a chat's /pics or /vid with a camera;                      *)
(*  - "button": one camera's button; the message is edited before the file  *)
(*    is sent;                                                              *)
(*  - "all": the button for all cameras; each file is sent and removed      *)
(*    before the next is made.                                              *)
(*                                                                          *)
(* A capture that fails may leave a part of a file.  An upload that fails   *)
(* is logged, and changes nothing here.  After a configuration change the   *)
(* bot may be gone (Lifecycle): then no file and no notify is sent, and the *)
(* program panics where a press is acknowledged, a message is edited or a   *)
(* command is answered by a text.  A crash loses the requests and leaves    *)
(* the files, which nothing clears at the next start.                       *)
(*                                                                          *)
(* Left out: who is subscribed and which camera is meant (Notifier,         *)
(* CameraMenus); requests have paths of their own, as their ids are random. *)
(****************************************************************************)
EXTENDS FiniteSets

CONSTANTS
  Worker,    \* goroutines: the event stream, HTTP requests, presses, the poller
  Chat,      \* chats
  Camera     \* cameras

ASSUME MediaAssumption == IsFiniteSet(Chat) /\ IsFiniteSet(Camera)

VARIABLES
  job,       \* what each goroutine is at
  file,      \* what is at the path of its request
  bot,       \* there is a bot
  left       \* (history) files the last step left for good: of which kind of
             \* request, and why

vars == <<job, file, bot, left>>

-----------------------------------------------------------------------------
(* Requests *)

Kind == {"motion", "notify", "relay", "command", "button", "all"}
ForMany == {"motion", "notify", "relay"}
Idle == [pc |-> "idle"]

(* What is left to serve: chats or, for all cameras, cameras. *)
Jobs ==
  [pc: {"capture", "discard", "edit", "send", "clean"}, kind: Kind \ {"all"},
   todo: SUBSET Chat, attach: BOOLEAN] \cup
  [pc: {"next", "capture", "send", "clean", "edit"}, kind: {"all"},
   todo: SUBSET Camera, attach: BOOLEAN]

TypeOK ==
  /\ job \in [Worker -> {Idle} \cup Jobs]
  /\ file \in [Worker -> {"none", "partial", "whole"}]
  /\ bot \in BOOLEAN
  /\ left \subseteq Kind \X {"failed", "done", "crash"}

Goto(w, j) == job' = [job EXCEPT ![w] = j]
Become(w, pc, todo, attach) ==
  Goto(w, [pc |-> pc, kind |-> job[w].kind, todo |-> todo, attach |-> attach])
Step(w, pc) == Become(w, pc, job[w].todo, job[w].attach)
AtStep(w, pc) == job[w] # Idle /\ job[w].pc = pc
SetFile(w, f) == file' = [file EXCEPT ![w] = f]
NothingLeft == left' = {}
Job(pc, kind, todo) == [pc |-> pc, kind |-> kind, todo |-> todo, attach |-> FALSE]

(* Offline cameras are not asked by "notify", "command" and "button": a     *)
(* text goes out.  "motion" and "relay" do not look.  An HTTP send may be   *)
(* of a text.  A press is acknowledged first: without a bot this is a Crash.*)
Begin(w) ==
  /\ job[w] = Idle
  /\ \/ \E kind \in ForMany, to \in SUBSET Chat : to # {} /\ Goto(w, Job("capture", kind, to))
     \/ \E kind \in {"notify", "relay"}, to \in SUBSET Chat :
          to # {} /\ Goto(w, Job("send", kind, to))
     \/ \E c \in Chat, pc \in {"capture", "send"} : Goto(w, Job(pc, "command", {c}))
     \/ \E c \in Chat, pc \in {"capture", "edit"} : bot /\ Goto(w, Job(pc, "button", {c}))
     \/ bot /\ Goto(w, Job("next", "all", Camera))
  /\ UNCHANGED <<file, bot>> /\ NothingLeft

(* snapAll: a camera that is offline is skipped. *)
NextCamera(w) ==
  /\ AtStep(w, "next")
  /\ IF job[w].todo = {} THEN Step(w, "edit")
     ELSE \E cam \in job[w].todo, pc \in {"capture", "next"} :
            Become(w, pc, job[w].todo \ {cam}, FALSE)
  /\ UNCHANGED <<file, bot>> /\ NothingLeft

(* SaveVideo or SaveJPEG *)
Capture(w) ==
  /\ AtStep(w, "capture") /\ SetFile(w, "whole")
  /\ Become(w, IF job[w].kind = "button" THEN "edit" ELSE "send", job[w].todo, TRUE)
  /\ UNCHANGED bot /\ NothingLeft

(* What is done about one that failed; the answer to a chat says so.        *)
AsForAll(kind) == IF kind = "notify" THEN "discard" ELSE "next"
Retries(kind) == "capture"
StopsAtError(kind) ==
  CASE kind = "notify" -> "discard" [] kind = "command" -> "send" [] kind = "button" -> "edit"
    [] OTHER -> "idle"
AfterFailure(kind) ==
  CASE kind = "notify" -> "discard" [] kind = "command" -> "send" [] kind = "button" -> "edit"
    [] kind = "all" -> "next" [] OTHER -> "idle"

Fail(w) ==
  LET kind == job[w].kind
      pc == AfterFailure(kind) IN
  /\ AtStep(w, "capture")
  /\ \E f \in {"none", "partial"} :
       IF kind = "notify" THEN SetFile(w, f) /\ left' = {}
       ELSE UNCHANGED file /\ left' = IF f = "partial" THEN {<<kind, "failed">>} ELSE {}
  /\ IF pc = "idle" THEN Goto(w, Idle) ELSE Step(w, pc)
  /\ UNCHANGED bot

(* captureNotifyMedia removes what a failed capture left. *)
Discard(w) ==
  /\ AtStep(w, "discard") /\ SetFile(w, "none") /\ Step(w, "send")
  /\ UNCHANGED bot /\ NothingLeft

-----------------------------------------------------------------------------
(* Sending *)

(* The program ends; the files stay. *)
Crash ==
  /\ left' = {<<job[w].kind, "crash">> : w \in {v \in Worker : file[v] # "none"}}
  /\ job' = [w \in Worker |-> Idle] /\ file' = [w \in Worker |-> "none"]
  /\ bot' = TRUE

(* SendTelegram and SendTelegramFile do nothing without a bot, and the one  *)
(* that sends a text does not look; it leaves the file for the next chat.   *)
NeedsBot(j) == j.kind = "command" /\ ~j.attach
RemovedBySender(w) == [file EXCEPT ![w] = "none"]
KeptBySender(w) == file
SendOne(w) ==
  /\ \E c \in job[w].todo :
       Become(w, IF job[w].todo = {c} THEN "clean" ELSE "send", job[w].todo \ {c}, job[w].attach)
  /\ file' = KeptBySender(w)
  /\ UNCHANGED bot /\ NothingLeft
Send(w) ==
  /\ AtStep(w, "send") /\ job[w].kind # "all"
  /\ IF NeedsBot(job[w]) /\ ~bot THEN Crash ELSE SendOne(w)

(* The deferred Remove of the others, and the one of handler.SendFile.      *)
Kept(f) == f
Removed(f) == "none"
Ended(w, f) == left' = IF f = "none" THEN {} ELSE {<<job[w].kind, "done">>}
Clean(w) ==
  /\ AtStep(w, "clean") /\ job[w].kind # "all"
  /\ Ended(w, Removed(file[w])) /\ SetFile(w, "none") /\ Goto(w, Idle)
  /\ UNCHANGED bot

SendAndRemove(w) ==
  /\ AtStep(w, "send") /\ job[w].kind = "all"
  /\ Step(w, "clean") /\ UNCHANGED <<file, bot>> /\ NothingLeft
RemoveSent(w) ==
  /\ AtStep(w, "clean") /\ job[w].kind = "all"
  /\ Ended(w, Removed(file[w])) /\ SetFile(w, "none")
  /\ Become(w, "next", job[w].todo, FALSE) /\ UNCHANGED bot

(* editTelegramMessage *)
Edit(w) ==
  /\ AtStep(w, "edit")
  /\ IF ~bot THEN Crash
     ELSE /\ IF job[w].attach THEN Step(w, "send") ELSE Goto(w, Idle)
          /\ UNCHANGED <<file, bot>> /\ NothingLeft

BotChanges == bot' = ~bot /\ UNCHANGED <<job, file>> /\ NothingLeft

Init ==
  /\ job = [w \in Worker |-> Idle] /\ file = [w \in Worker |-> "none"]
  /\ bot = TRUE /\ left = {}

Serve(w) ==
  NextCamera(w) \/ Capture(w) \/ Fail(w) \/ Discard(w) \/ Send(w) \/ Clean(w)
  \/ SendAndRemove(w) \/ RemoveSent(w) \/ Edit(w)

Next == (\E w \in Worker : Begin(w) \/ Serve(w)) \/ BotChanges \/ Crash

(* Captures have a time limit, uploads an HTTP client: both end. *)
Fairness == \A w \in Worker : WF_vars(Serve(w))
Spec == Init /\ [][Next]_vars /\ Fairness

-----------------------------------------------------------------------------
(* Properties *)

(* webhandler_events.go 370: "never attach a missing/partial file"; and     *)
(* telegram.go 364: callers own the file, "so the same file can be sent to  *)
(* multiple chats".                                                         *)
FileThereForAll ==
  \A w \in Worker : AtStep(w, "send") /\ job[w].attach => file[w] = "whole"

(* webhandler_events.go 371: "nothing downstream will clean it up, and a    *)
(* flapping camera would pile up partial files".  Only a crash, or a        *)
(* capture that fails for anything but a notify, leaves a file for good.    *)
OthersThanNotify == Kind \ {"notify"}
FilesRemoved ==
  left \subseteq (OthersThanNotify \X {"failed"}) \cup (Kind \X {"crash"})

(* Requests as Deliveries has them: a camera that all are asked of is a     *)
(* stop of a tour, and motion events and HTTP sends are not firm.           *)
WhatFor(j) ==
  CASE j.kind = "all" -> IF j.pc = "clean" THEN "handed" ELSE "tour"
    [] j.kind # "all" /\ j.pc = "capture" -> "open"
    [] OTHER -> IF j.attach THEN "file" ELSE "text"
DealOf(j) ==
  IF j = Idle THEN [what |-> "none"]
  ELSE [what |-> WhatFor(j), owed |-> j.todo, firm |-> j.kind \notin {"motion", "relay"}]

Delivery ==
  INSTANCE Deliveries WITH
    Recipient <- Chat \cup Camera, deal <- [w \in Worker |-> DealOf(job[w])], disk <- file

(* Whatever fails, all recipients of a request get the same, each once, and *)
(* nobody is forgotten: a capture that fails costs nobody the text of a     *)
(* notify, the answer to a chat or the other cameras.  Only the subscribers *)
(* of a motion event and the recipients of an HTTP send may get nothing,    *)
(* and then none of them gets anything.                                     *)
DeliverySpec == Delivery!Spec

(* Every request ends.                                                      *)
RequestsEnd == \A w \in Worker : job[w] # Idle ~> job[w] = Idle

=============================================================================
