------------------------------ MODULE Lifecycle ------------------------------
(****************************************************************************)
(* What is started, stopped and started again: the Telegram poller and the  *)
(* web server (pkg/motifini/start.go, eventstream.go, pkg/messenger,        *)
(* pkg/webserver).                                                          *)
(*                                                                          *)
(*  - "main" starts the messenger, then the web server if there is to be    *)
(*    one, and ends at a signal, or where one of them cannot be started;    *)
(*  - "stream", the goroutine of the event stream, is there first.  At a    *)
(*    configuration change it stops both and starts both again;             *)
(*  - each start of the messenger makes a channel and launches a poller,    *)
(*    which reads m.stopall anew before it waits;                           *)
(*  - a button press has a goroutine of its own; each start of the web      *)
(*    server launches one that reads c.http when it listens.                *)
(*                                                                          *)
(* Channels, the bots connected with them and the pollers launched for them *)
(* share the number of their start; so do servers.  0 is nil.  A refresh of *)
(* SecuritySpy's data changes none of this.  The program ends in a panic.   *)
(****************************************************************************)
EXTENDS Naturals, FiniteSets

CONSTANTS
  Press,       \* button presses handled at a time
  MaxChange    \* bound: configuration changes

ASSUME LifecycleAssumption == MaxChange \in Nat

Actor == {"main", "stream"}
Nr == 1 .. MaxChange + 1     \* one start by main, one by each change

VARIABLES
  pc,         \* what main and the event stream are about to do
  start,      \* the messenger start each is in
  serveAfter, \* the change stopped the web server and will start it
  starts,     \* messenger starts so far
  stopall,    \* m.stopall
  closed,     \* channels that were closed
  bot,        \* m.telebot
  poller,     \* what the poller of each start does, and the channel it waits on
  press,      \* the presses under way
  servers,    \* web server starts so far; the last one is c.http
  shut,       \* servers that were shut down
  launched,   \* goroutines that are about to listen
  listening,  \* the server that has the port
  changes,    \* configuration changes so far
  panic,      \* why the program ended
  stopped,    \* (history) pollers that were polling or handling at a Stop
  overtaken,  \* (history) pollers busy, or not begun, at a later Start
  failed,     \* (history) a connection to Telegram failed
  raced       \* (history) a change stopped the web server main had yet to start

telegram == <<start, starts, stopall, closed, bot, poller, press, stopped, overtaken>>
web == <<serveAfter, servers, shut, launched, listening>>
vars == <<pc, telegram, web, changes, panic, failed, raced>>

PollerState == [does: {"nothing", "begin", "wait", "handle", "ended"}, on: {0} \cup Nr]

TypeOK ==
  /\ pc \in [Actor -> {"build", "make", "connect", "go", "web", "serve", "run", "exit",
                       "idle", "stop"}]
  /\ start \in [Actor -> {0} \cup Nr] /\ serveAfter \in BOOLEAN
  /\ {starts, stopall, bot, servers, listening} \subseteq {0} \cup Nr
  /\ poller \in [Nr -> PollerState]
  /\ closed \cup stopped \cup overtaken \subseteq 1 .. starts
  /\ shut \subseteq 1 .. servers
  /\ press \subseteq Press /\ launched \in 0 .. servers /\ changes \in 0 .. MaxChange
  /\ panic \in {"none", "close", "nil bot"} /\ {failed, raced} \subseteq BOOLEAN

-----------------------------------------------------------------------------
Running == panic = "none" /\ pc["main"] # "exit"

Goto(a, label) == pc' = [pc EXCEPT ![a] = label]

(* m.Msgs and m.HTTP are set before what they point to is started. *)
HasMsgs == pc["main"] # "build"
HasHTTP == pc["main"] = "serve" \/ (pc["main"] = "run" /\ servers # 0)

Panic(why) ==
  panic' = why /\ UNCHANGED <<pc, telegram, web, changes, failed, raced>>

Does(p, what) == poller[p].does = what
Begun == [does |-> "begin", on |-> 0]
Ended == [does |-> "ended", on |-> 0]
Handling == [does |-> "handle", on |-> 0]

(* The loop reads m.stopall; if that is closed and an update is there too,  *)
(* select takes either.                                                     *)
NextRound ==
  IF stopall \in closed THEN {Ended, Handling} ELSE {[does |-> "wait", on |-> stopall]}

-----------------------------------------------------------------------------
(* Messenger.Start, by main or the event stream *)

BuildMessenger ==
  /\ Running /\ pc["main"] = "build"
  /\ Goto("main", "make")
  /\ UNCHANGED <<telegram, web, changes, panic, failed, raced>>

(* Pollers of earlier starts that will see the new channel. *)
Late ==
  {p \in Nr : Does(p, "begin") \/ Does(p, "handle")}
    \cup {start[a] : a \in {a \in Actor : pc[a] \in {"connect", "go"}}}

KeptChannel == IF stopall = 0 THEN starts + 1 ELSE stopall
NewChannel == starts + 1
LaunchFirst == "go"
AfterMake == "connect"

Make(a) ==
  /\ Running /\ pc[a] = "make" /\ (a = "main" => stopall = 0)
  /\ starts' = starts + 1 /\ stopall' = NewChannel
  /\ start' = [start EXCEPT ![a] = starts + 1]
  /\ overtaken' = overtaken \cup Late
  /\ Goto(a, AfterMake)
  /\ UNCHANGED <<closed, bot, poller, press, stopped, web, changes, panic, failed, raced>>

AfterStart(a) == IF a = "main" THEN "web" ELSE "serve"

Connect(a) ==
  /\ Running /\ pc[a] = "connect"
  /\ bot' = start[a]
  /\ Goto(a, "go")
  /\ UNCHANGED <<start, starts, stopall, closed, poller, press, stopped, overtaken, web,
                 changes, panic, failed, raced>>

(* NewBotAPI fails: at startup the program ends, later it goes on. *)
GiveUp(a) == IF a = "main" THEN "exit" ELSE "idle"
AfterFailure(a) == IF a = "main" THEN "exit" ELSE "serve"

ConnectFails(a) ==
  /\ Running /\ pc[a] = "connect"
  /\ bot' = 0
  /\ Goto(a, AfterFailure(a))
  /\ failed' = TRUE
  /\ UNCHANGED <<start, starts, stopall, closed, poller, press, stopped, overtaken, web,
                 changes, panic, raced>>

Launch(a) ==
  /\ Running /\ pc[a] = "go"
  /\ poller' = [poller EXCEPT ![start[a]] = Begun]
  /\ Goto(a, AfterStart(a))
  /\ UNCHANGED <<start, starts, stopall, closed, bot, press, stopped, overtaken, web,
                 changes, panic, failed, raced>>

(* New and webserver.Start check what they were given, and that nothing     *)
(* runs: main ends with their errors.                                       *)
Refused ==
  /\ Running /\ pc["main"] \in {"make", "serve"}
  /\ Goto("main", "exit")
  /\ UNCHANGED <<telegram, web, changes, panic, failed, raced>>

-----------------------------------------------------------------------------
(* startTelegram, and a goroutine for each button press *)

SetPoller(p, states) ==
  /\ \E state \in states : poller' = [poller EXCEPT ![p] = state]
  /\ UNCHANGED <<pc, start, starts, stopall, closed, bot, stopped, overtaken, web, changes,
                 panic, failed, raced>>

Begin(p) ==
  /\ Running /\ Does(p, "begin")
  /\ IF bot = 0 THEN Panic("nil bot")
     ELSE SetPoller(p, NextRound) /\ UNCHANGED press

TakeUpdate(p) ==
  /\ Running /\ Does(p, "wait") /\ poller[p].on \notin closed
  /\ SetPoller(p, {Handling}) /\ UNCHANGED press

Reply(p) ==
  /\ Running /\ Does(p, "handle")
  /\ IF bot = 0 THEN Panic("nil bot")
     ELSE SetPoller(p, NextRound) /\ UNCHANGED press

NoReply(p) ==
  /\ Running /\ Does(p, "handle")
  /\ SetPoller(p, NextRound) /\ UNCHANGED press

LaunchPress(p, h) ==
  /\ Running /\ Does(p, "handle") /\ h \notin press
  /\ press' = press \cup {h} /\ SetPoller(p, NextRound)

AnswerPress(h) ==
  /\ Running /\ h \in press
  /\ IF bot = 0 THEN Panic("nil bot")
     ELSE /\ press' = press \ {h}
          /\ UNCHANGED <<pc, start, starts, stopall, closed, bot, poller, stopped, overtaken,
                         web, changes, panic, failed, raced>>

End(p) ==
  /\ Running /\ Does(p, "wait") /\ poller[p].on \in closed
  /\ SetPoller(p, {Ended}) /\ UNCHANGED press

-----------------------------------------------------------------------------
(* Config.Start and Config.Stop of the web server *)

BuildServer ==
  /\ Running /\ pc["main"] = "web"
  /\ Goto("main", "serve")
  /\ UNCHANGED <<telegram, web, changes, panic, failed, raced>>

WebDisabled ==
  /\ Running /\ pc["main"] = "web"
  /\ Goto("main", "run")
  /\ UNCHANGED <<telegram, web, changes, panic, failed, raced>>

ServerStart == servers' = servers + 1 /\ launched' = launched + 1

Serve(a) ==
  /\ Running /\ pc[a] = "serve" /\ (a = "stream" => serveAfter)
  /\ ServerStart
  /\ Goto(a, IF a = "main" THEN "run" ELSE "idle")
  /\ UNCHANGED <<telegram, serveAfter, shut, listening, changes, panic, failed, raced>>

(* The port is taken, or c.http was shut down: an error that is logged. *)
Listen ==
  /\ Running /\ launched > 0
  /\ launched' = launched - 1
  /\ listening' = IF listening = 0 /\ servers \notin shut THEN servers ELSE listening
  /\ UNCHANGED <<pc, telegram, serveAfter, servers, shut, changes, panic, failed, raced>>

LeaveServer == UNCHANGED <<shut, listening>>
ShutWhatever == shut' = shut \cup {servers} /\ listening' = 0
ServerStop ==
  /\ shut' = IF servers = 0 THEN shut ELSE shut \cup {servers}
  /\ listening' = IF listening = servers THEN 0 ELSE listening

-----------------------------------------------------------------------------
(* handleConfigChange, the signal *)

ConfigChange ==
  /\ Running /\ pc["stream"] = "idle" /\ changes < MaxChange
  /\ changes' = changes + 1
  /\ serveAfter' = HasHTTP
  /\ IF HasHTTP THEN ServerStop ELSE UNCHANGED <<shut, listening>>
  /\ Goto("stream", "stop")
  /\ raced' = (raced \/ pc["main"] = "serve")
  /\ UNCHANGED <<telegram, servers, launched, panic, failed>>

LeftOpen == closed
Closed == closed \cup {stopall}

StopMessenger ==
  /\ Running /\ pc["stream"] = "stop" /\ HasMsgs /\ stopall \notin {0} \cup closed
  /\ closed' = Closed
  /\ stopped' = stopped \cup {p \in Nr : Does(p, "wait") \/ Does(p, "handle")}
  /\ Goto("stream", "make")
  /\ UNCHANGED <<start, starts, stopall, bot, poller, press, overtaken, web, changes, panic,
                 failed, raced>>

(* The messenger is there, a channel to close is not (yet). *)
StopUnmade ==
  /\ Running /\ pc["stream"] = "stop" /\ HasMsgs /\ stopall \in {0} \cup closed
  /\ Panic("close")

NoMessenger ==
  /\ Running /\ pc["stream"] = "stop" /\ ~HasMsgs
  /\ Goto("stream", "serve")
  /\ UNCHANGED <<telegram, web, changes, panic, failed, raced>>

(* No web server was there to start again. *)
ChangeEnds ==
  /\ Running /\ pc["stream"] = "serve" /\ ~serveAfter
  /\ Goto("stream", "idle")
  /\ UNCHANGED <<telegram, web, changes, panic, failed, raced>>

Signal ==
  /\ Running /\ pc["main"] = "run"
  /\ ServerStop
  /\ Goto("main", "exit")
  /\ UNCHANGED <<telegram, serveAfter, servers, launched, changes, panic, failed, raced>>

-----------------------------------------------------------------------------
Init ==
  /\ pc = [a \in Actor |-> IF a = "main" THEN "build" ELSE "idle"]
  /\ start = [a \in Actor |-> 0] /\ serveAfter = FALSE
  /\ starts = 0 /\ stopall = 0 /\ closed = {} /\ bot = 0
  /\ poller = [n \in Nr |-> [does |-> "nothing", on |-> 0]] /\ press = {}
  /\ servers = 0 /\ shut = {} /\ launched = 0 /\ listening = 0
  /\ changes = 0 /\ panic = "none" /\ stopped = {} /\ overtaken = {}
  /\ failed = FALSE /\ raced = FALSE

Startup(a) == Make(a) \/ Connect(a) \/ ConnectFails(a) \/ Launch(a) \/ Serve(a)
Main == BuildMessenger \/ BuildServer \/ WebDisabled \/ Refused \/ Startup("main")
Stream == StopMessenger \/ StopUnmade \/ NoMessenger \/ ChangeEnds \/ Startup("stream")
Handled(p) == Begin(p) \/ Reply(p) \/ NoReply(p) \/ \E h \in Press : LaunchPress(p, h)

Next ==
  \/ Main \/ Stream \/ ConfigChange \/ Signal \/ Listen
  \/ \E p \in Nr : Handled(p) \/ TakeUpdate(p) \/ End(p)
  \/ \E h \in Press : AnswerPress(h)

Spec == Init /\ [][Next]_vars

(* Goroutines go on; updates, changes and signals may never come. *)
Fairness ==
  /\ WF_vars(Main) /\ WF_vars(Stream) /\ WF_vars(Listen)
  /\ \A p \in Nr : WF_vars(Handled(p))

FairSpec == Spec /\ Fairness

-----------------------------------------------------------------------------
(* Properties *)

Polls(p) == Does(p, "wait") /\ poller[p].on \notin closed

(* README.md 149: "two pollers on one token steal each other's updates".    *)
(* There are never two, but where one is busy with an update, or has yet to *)
(* begin, through a Stop and the Start that follows.                        *)
OnePoller ==
  \A p, q \in Nr : Polls(p) /\ Polls(q) => p = q \/ {p, q} \cap overtaken # {}

(* messenger.go 91: "Stop closes the telegram routine."  A poller that was  *)
(* there at a Stop waits for no update but until it looks at its channel.   *)
StopClosesRoutine == \A p \in stopped : ~Polls(p)

(* ... and it waits for none at all, unless it was busy through the Start   *)
(* that followed: only then it takes the new channel for its own.           *)
StopClosesIdle == \A p \in stopped \ overtaken : ~Polls(p)

(* webserver.go 152: "Stop shuts down the HTTP listener."  The server that  *)
(* has the port is the one the next Stop will shut down, unless a change    *)
(* overtook the start of the first.                                         *)
ServerKnown == listening \in {0, servers} \/ raced

(* A nil bot is used only if Telegram could not be reached at a change.     *)
BotUnlessFailed == panic = "nil bot" => failed

(* A channel closed twice ends the program, and so does nil.  A Stop finds a *)
(* channel that is open whatever became of the Start before (messenger.go 77 *)
(* makes it before anything can fail), unless main has yet to make the first.*)
StopFindsChannel == panic = "close" => stopall = 0

(* Whatever fails in a configuration change, the web server is back after   *)
(* it (the deferred HTTP.Start).                                            *)
WebReturns == serveAfter /\ pc["stream"] # "idle" ~> listening # 0 \/ ~Running

(* ... and so is a poller, unless Telegram could not be reached. *)
PollerReturns == pc["stream"] = "go" ~> (\E p \in Nr : Polls(p)) \/ failed \/ ~Running

=============================================================================
