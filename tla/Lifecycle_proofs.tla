------------------------- MODULE Lifecycle_proofs ---------------------------
(****************************************************************************)
(* Proofs about Lifecycle for any number of presses and changes.            *)
(****************************************************************************)
EXTENDS Lifecycle, TLAPS

One(condition) == IF condition THEN 1 ELSE 0

(* Starts of the messenger and of the web server that main and the change   *)
(* under way may still make, beside those made, are one by main and one by  *)
(* each change.                                                             *)
StartsCounted ==
  starts + One(pc["main"] \in {"build", "make"}) + One(pc["stream"] \in {"stop", "make"})
    <= changes + 1

ServersCounted ==
  servers + One(pc["main"] \notin {"run", "exit"}) + One(pc["stream"] # "idle") <= changes + 1

Counted == StartsCounted /\ ServersCounted

(* The channel in use is that of the last start; the others are closed, and *)
(* so is it when the event stream is about to make the next.                *)
Channels ==
  /\ stopall = starts
  /\ 1 .. starts - 1 \subseteq closed
  /\ starts # 0 => pc["main"] \notin {"build", "make"}
  /\ pc["stream"] = "make" => stopall # 0 /\ stopall \in closed

(* What is launched was started.  A poller that no later start overtook     *)
(* waits on its own channel, and is busy only as long as that is in use.    *)
Pollers ==
  /\ \A a \in Actor : pc[a] \in {"connect", "go"} =>
       /\ start[a] \in 1 .. starts
       /\ start[a] \in overtaken \/ start[a] = stopall
  /\ \A p \in Nr : ~Does(p, "nothing") => p \in 1 .. starts
  /\ \A p \in Nr : Does(p, "wait") => poller[p].on \in 1 .. starts
  /\ \A p \in Nr \ overtaken :
       /\ Does(p, "begin") \/ Does(p, "handle") => stopall = p
       /\ Does(p, "wait") => poller[p].on = p

(* Whoever uses the bot was launched after a connection. *)
Bots ==
  bot = 0 /\ ~failed =>
    /\ \A p \in Nr : Does(p, "nothing")
    /\ press = {}
    /\ \A a \in Actor : pc[a] # "go"

(* Unless a change overtook the start of the first web server, there is     *)
(* none before main's, and none has the port between a stop and a start.    *)
Servers ==
  ~raced =>
    /\ pc["main"] \notin {"run", "exit"} =>
         servers = 0 /\ listening = 0 /\ (pc["stream"] = "idle" \/ ~serveAfter)
    /\ pc["stream"] # "idle" /\ serveAfter =>
         listening = 0 /\ (servers = 0 \/ servers \in shut)

IInv ==
  /\ TypeOK /\ Counted /\ Channels /\ Pollers /\ Bots /\ Servers
  /\ ServerKnown /\ BotUnlessFailed

-----------------------------------------------------------------------------
LEMMA MaxChangeNat == MaxChange \in Nat
BY LifecycleAssumption

LEMMA Types ==
  ASSUME TypeOK
  PROVE  /\ starts \in 0 .. MaxChange + 1 /\ stopall \in 0 .. MaxChange + 1
         /\ servers \in 0 .. MaxChange + 1 /\ listening \in 0 .. MaxChange + 1
         /\ changes \in 0 .. MaxChange /\ MaxChange \in Nat
<1>1. {starts, stopall, servers, listening} \subseteq {0} \cup Nr
  BY DEF TypeOK
<1>2. changes \in 0 .. MaxChange
  BY DEF TypeOK
<1> QED
  BY <1>1, <1>2, MaxChangeNat DEF Nr

(* Nothing is launched before a start, and the numbers of starts fit. *)
LEMMA NoneBefore ==
  ASSUME NEW n \in Nat, NEW x \in 1 .. n
  PROVE  x # 0 /\ n # 0
OBVIOUS

LEMMA Launched ==
  ASSUME IInv, NEW p \in Nr, ~Does(p, "nothing")
  PROVE  starts # 0
<1>1. p \in 1 .. starts
  BY DEF IInv, Pollers
<1>2. starts \in Nat
  BY Types DEF IInv
<1> QED
  BY <1>1, <1>2, NoneBefore

LEMMA StartedByNow ==
  ASSUME IInv, NEW a \in Actor, pc[a] \in {"connect", "go"}
  PROVE  start[a] # 0
<1>1. start[a] \in 1 .. starts
  BY DEF IInv, Pollers
<1>2. starts \in Nat
  BY Types DEF IInv
<1> QED
  BY <1>1, <1>2, NoneBefore

LEMMA ServerStopTypes ==
  ASSUME TypeOK, ServerStop \/ UNCHANGED <<shut, listening>>, servers' = servers
  PROVE  shut' \subseteq 1 .. servers' /\ listening' \in {0} \cup Nr
<1>1. servers \in {0} \cup Nr /\ listening \in {0} \cup Nr /\ shut \subseteq 1 .. servers
  BY DEF TypeOK
<1>2. servers # 0 => servers \in 1 .. servers
  BY <1>1 DEF Nr
<1> QED
  BY <1>1, <1>2 DEF ServerStop

LEMMA BuildMessengerKeeps ==
  ASSUME IInv, BuildMessenger
  PROVE  IInv'
<1>1. TypeOK'
  BY DEF IInv, Goto, telegram, web, BuildMessenger, TypeOK
<1>2. Counted'
  BY DEF IInv, Goto, Actor, telegram, web, BuildMessenger, Counted,
    StartsCounted, ServersCounted
<1>3. Channels'
  BY DEF IInv, Goto, Actor, telegram, BuildMessenger, Channels
<1>4. Pollers'
  BY DEF IInv, Goto, Does, telegram, BuildMessenger, Pollers
<1>5. Bots'
  BY DEF IInv, Goto, Does, telegram, BuildMessenger, Bots
<1>6. Servers'
  BY DEF IInv, Goto, Actor, web, BuildMessenger, Servers
<1>7. ServerKnown'
  BY DEF IInv, web, BuildMessenger, ServerKnown
<1>8. BotUnlessFailed'
  BY DEF IInv, BuildMessenger, BotUnlessFailed
<1> QED
  BY <1>1, <1>2, <1>3, <1>4, <1>5, <1>6, <1>7, <1>8 DEF IInv

LEMMA MakeKeeps ==
  ASSUME IInv, NEW a \in Actor, Make(a)
  PROVE  IInv'
<1>1. TypeOK'
  BY MaxChangeNat DEF IInv, Running, Goto, Actor, web, Make, Late, NewChannel,
    AfterMake, TypeOK, Nr, Counted, StartsCounted, One, Channels, Pollers
<1>2. Counted'
  BY DEF IInv, Running, Goto, Actor, web, Make, AfterMake, TypeOK, Counted,
    StartsCounted, ServersCounted, One, Nr
<1>3. Channels'
  BY DEF IInv, Running, Goto, Actor, Make, NewChannel, AfterMake, TypeOK, Channels
<1>4. Pollers'
  BY DEF IInv, Running, Goto, Does, Make, Late, NewChannel, TypeOK, Pollers, Nr
<1>5. Bots'
  BY DEF IInv, Goto, Does, Make, AfterMake, Bots
<1>6. Servers'
  BY DEF IInv, Goto, Actor, web, Make, Servers
<1>7. ServerKnown'
  BY DEF IInv, web, Make, ServerKnown
<1>8. BotUnlessFailed'
  BY DEF IInv, Make, BotUnlessFailed
<1> QED
  BY <1>1, <1>2, <1>3, <1>4, <1>5, <1>6, <1>7, <1>8 DEF IInv

LEMMA ConnectKeeps ==
  ASSUME IInv, NEW a \in Actor, Connect(a)
  PROVE  IInv'
<1>1. TypeOK'
  BY DEF IInv, Running, Goto, web, Connect, TypeOK
<1>2. Counted'
  BY DEF IInv, Goto, Actor, web, Connect, Counted, StartsCounted, ServersCounted
<1>3. Channels'
  BY DEF IInv, Goto, Actor, Connect, Channels
<1>4. Pollers'
  BY DEF IInv, Goto, Does, Connect, Pollers
<1>5. Bots'
  BY StartedByNow DEF Connect, IInv, Bots
<1>6. Servers'
  BY DEF IInv, Goto, Actor, web, Connect, Servers
<1>7. ServerKnown'
  BY DEF IInv, web, Connect, ServerKnown
<1>8. BotUnlessFailed'
  BY DEF IInv, Connect, BotUnlessFailed
<1> QED
  BY <1>1, <1>2, <1>3, <1>4, <1>5, <1>6, <1>7, <1>8 DEF IInv

LEMMA ConnectFailsKeeps ==
  ASSUME IInv, NEW a \in Actor, ConnectFails(a)
  PROVE  IInv'
<1>1. TypeOK'
  BY DEF IInv, Goto, web, ConnectFails, AfterFailure, TypeOK
<1>2. Counted'
  BY DEF IInv, Running, Goto, web, ConnectFails, AfterFailure, TypeOK, Counted,
    StartsCounted, ServersCounted, One, Nr
<1>3. Channels'
  BY DEF IInv, Goto, Actor, ConnectFails, AfterFailure, Channels
<1>4. Pollers'
  BY DEF IInv, Goto, Does, ConnectFails, Pollers
<1>5. Bots'
  BY DEF IInv, ConnectFails, Bots
<1>6. Servers'
  BY DEF IInv, Goto, Actor, web, ConnectFails, Servers
<1>7. ServerKnown'
  BY DEF IInv, web, ConnectFails, ServerKnown
<1>8. BotUnlessFailed'
  BY DEF IInv, ConnectFails, BotUnlessFailed
<1> QED
  BY <1>1, <1>2, <1>3, <1>4, <1>5, <1>6, <1>7, <1>8 DEF IInv

LEMMA LaunchKeeps ==
  ASSUME IInv, NEW a \in Actor, Launch(a)
  PROVE  IInv'
<1>1. TypeOK'
  BY DEF IInv, Goto, web, Launch, AfterStart, Begun, TypeOK, PollerState
<1>2. Counted'
  BY DEF IInv, Goto, Actor, web, Launch, AfterStart, Counted, StartsCounted,
    ServersCounted
<1>3. Channels'
  BY DEF IInv, Goto, Actor, Launch, AfterStart, Channels
<1>4. Pollers'
  BY DEF IInv, Goto, Does, Launch, Begun, Pollers
<1>5. Bots'
  BY DEF IInv, Launch, Bots
<1>6. Servers'
  BY DEF IInv, Goto, Actor, web, Launch, Servers
<1>7. ServerKnown'
  BY DEF IInv, web, Launch, ServerKnown
<1>8. BotUnlessFailed'
  BY DEF IInv, Launch, BotUnlessFailed
<1> QED
  BY <1>1, <1>2, <1>3, <1>4, <1>5, <1>6, <1>7, <1>8 DEF IInv

LEMMA BuildServerKeeps ==
  ASSUME IInv, BuildServer
  PROVE  IInv'
<1>1. TypeOK'
  BY DEF IInv, Goto, telegram, web, BuildServer, TypeOK
<1>2. Counted'
  BY DEF IInv, Goto, Actor, telegram, web, BuildServer, Counted, StartsCounted,
    ServersCounted
<1>3. Channels'
  BY DEF IInv, Goto, Actor, telegram, BuildServer, Channels
<1>4. Pollers'
  BY DEF IInv, Goto, Does, telegram, BuildServer, Pollers
<1>5. Bots'
  BY DEF IInv, Goto, Does, telegram, BuildServer, Bots
<1>6. Servers'
  BY DEF IInv, Goto, Actor, web, BuildServer, Servers
<1>7. ServerKnown'
  BY DEF IInv, web, BuildServer, ServerKnown
<1>8. BotUnlessFailed'
  BY DEF IInv, BuildServer, BotUnlessFailed
<1> QED
  BY <1>1, <1>2, <1>3, <1>4, <1>5, <1>6, <1>7, <1>8 DEF IInv

(* Main goes on without a web server, or ends. *)
LEMMA MainGoesOnKeeps ==
  ASSUME IInv, NEW label \in {"run", "exit"}, Running, pc["main"] \in {"web", "make", "serve"},
         Goto("main", label), UNCHANGED <<telegram, web, changes, panic, failed, raced>>
  PROVE  IInv'
<1>1. TypeOK'
  BY DEF IInv, Goto, telegram, web, TypeOK
<1>2. Counted'
  <2>1. /\ starts \in Nat /\ servers \in Nat /\ changes \in Nat
        /\ UNCHANGED <<starts, servers, changes>>
    BY Types DEF IInv, telegram, web
  <2>2. pc' = [pc EXCEPT !["main"] = label] /\ pc'["main"] = label /\ pc'["stream"] = pc["stream"]
    BY DEF IInv, TypeOK, Goto, Actor
  <2>3. StartsCounted'
    BY <2>1, <2>2 DEF IInv, Counted, StartsCounted, One
  <2>4. ServersCounted'
    BY <2>1, <2>2 DEF IInv, Counted, ServersCounted, One
  <2> QED
    BY <2>3, <2>4 DEF Counted
<1>3. Channels'
  BY DEF IInv, Goto, Actor, telegram, Channels
<1>4. Pollers'
  BY DEF IInv, Goto, Does, telegram, Pollers
<1>5. Bots'
  BY DEF IInv, Goto, Does, telegram, Bots
<1>6. Servers'
  BY DEF IInv, Goto, Actor, web, Servers
<1>7. ServerKnown'
  BY DEF IInv, web, ServerKnown
<1>8. BotUnlessFailed'
  BY DEF IInv, BotUnlessFailed
<1> QED
  BY <1>1, <1>2, <1>3, <1>4, <1>5, <1>6, <1>7, <1>8 DEF IInv

LEMMA ServeKeeps ==
  ASSUME IInv, NEW a \in Actor, Serve(a)
  PROVE  IInv'
<1>1. TypeOK'
  BY MaxChangeNat DEF IInv, Running, Goto, Actor, telegram, Serve, ServerStart,
    TypeOK, Nr, Counted, ServersCounted, One
<1>2. Counted'
  BY DEF IInv, Running, Goto, Actor, telegram, Serve, ServerStart, TypeOK,
    Counted, StartsCounted, ServersCounted, One, Nr
<1>3. Channels'
  BY DEF IInv, Goto, Actor, telegram, Serve, Channels
<1>4. Pollers'
  BY DEF IInv, Goto, Does, telegram, Serve, Pollers
<1>5. Bots'
  BY DEF IInv, Goto, Does, telegram, Serve, Bots
<1>6. Servers'
  BY DEF IInv, Goto, Actor, Serve, TypeOK, Servers
<1>7. ServerKnown'
  BY DEF IInv, Actor, Serve, ServerKnown, Servers
<1>8. BotUnlessFailed'
  BY DEF IInv, Serve, BotUnlessFailed
<1> QED
  BY <1>1, <1>2, <1>3, <1>4, <1>5, <1>6, <1>7, <1>8 DEF IInv

LEMMA ListenKeeps ==
  ASSUME IInv, Listen
  PROVE  IInv'
<1>1. TypeOK'
  BY DEF IInv, Running, telegram, Listen, TypeOK, Nr
<1>2. Counted'
  BY DEF IInv, telegram, Listen, Counted, StartsCounted, ServersCounted
<1>3. Channels'
  BY DEF IInv, telegram, Listen, Channels
<1>4. Pollers'
  BY DEF IInv, Does, telegram, Listen, Pollers
<1>5. Bots'
  BY DEF IInv, Does, telegram, Listen, Bots
<1>6. Servers'
  BY DEF IInv, Listen, Servers
<1>7. ServerKnown'
  BY DEF IInv, Listen, ServerKnown
<1>8. BotUnlessFailed'
  BY DEF IInv, Listen, BotUnlessFailed
<1> QED
  BY <1>1, <1>2, <1>3, <1>4, <1>5, <1>6, <1>7, <1>8 DEF IInv

LEMMA ConfigChangeKeeps ==
  ASSUME IInv, ConfigChange
  PROVE  IInv'
<1>1. TypeOK'
  <2>1. shut' \subseteq 1 .. servers' /\ listening' \in {0} \cup Nr
    BY ServerStopTypes DEF ConfigChange, IInv
  <2>2. changes' \in 0 .. MaxChange
    BY Types DEF ConfigChange, IInv
  <2>3. pc' \in [Actor -> {"build", "make", "connect", "go", "web", "serve", "run", "exit",
                         "idle", "stop"}]
    BY DEF ConfigChange, Goto, IInv, TypeOK
  <2>4. serveAfter' \in BOOLEAN /\ raced' \in BOOLEAN
    <3>1. HasHTTP \in BOOLEAN
      BY DEF HasHTTP
    <3>2. (raced \/ pc["main"] = "serve") \in BOOLEAN
      OBVIOUS
    <3>3. serveAfter' = HasHTTP /\ raced' = (raced \/ pc["main"] = "serve")
      BY DEF ConfigChange
    <3> QED
      BY <3>1, <3>2, <3>3, Zenon
  <2> QED
    BY <2>1, <2>2, <2>3, <2>4 DEF ConfigChange, telegram, IInv, TypeOK
<1>2. Counted'
  BY DEF IInv, Running, Goto, telegram, ConfigChange, TypeOK, Counted,
    StartsCounted, ServersCounted, One, Nr
<1>3. Channels'
  BY DEF IInv, Goto, Actor, telegram, ConfigChange, Channels
<1>4. Pollers'
  BY DEF IInv, Goto, Does, telegram, ConfigChange, Pollers
<1>5. Bots'
  BY DEF IInv, Goto, Does, telegram, ConfigChange, Bots
<1>6. Servers'
  BY DEF IInv, Goto, Actor, ConfigChange, HasHTTP, ServerStop, TypeOK, Servers,
    ServerKnown
<1>7. ServerKnown'
  BY DEF IInv, ConfigChange, ServerStop, ServerKnown
<1>8. BotUnlessFailed'
  BY DEF IInv, ConfigChange, BotUnlessFailed
<1> QED
  BY <1>1, <1>2, <1>3, <1>4, <1>5, <1>6, <1>7, <1>8 DEF IInv

LEMMA StopMessengerKeeps ==
  ASSUME IInv, StopMessenger
  PROVE  IInv'
<1>1. TypeOK'
  BY DEF IInv, Running, Goto, Actor, web, StopMessenger, Closed, TypeOK, Nr,
    Channels, Pollers
<1>2. Counted'
  BY DEF IInv, Goto, Actor, web, StopMessenger, Counted, StartsCounted,
    ServersCounted
<1>3. Channels'
  BY DEF IInv, Goto, Actor, StopMessenger, Closed, Channels
<1>4. Pollers'
  BY DEF IInv, Goto, Does, StopMessenger, Pollers
<1>5. Bots'
  BY DEF IInv, Goto, Does, StopMessenger, Bots
<1>6. Servers'
  BY DEF IInv, Goto, Actor, web, StopMessenger, Servers
<1>7. ServerKnown'
  BY DEF IInv, web, StopMessenger, ServerKnown
<1>8. BotUnlessFailed'
  BY DEF IInv, StopMessenger, BotUnlessFailed
<1> QED
  BY <1>1, <1>2, <1>3, <1>4, <1>5, <1>6, <1>7, <1>8 DEF IInv

LEMMA NoMessengerKeeps ==
  ASSUME IInv, NoMessenger
  PROVE  IInv'
<1>1. TypeOK'
  BY DEF IInv, Goto, telegram, web, NoMessenger, TypeOK
<1>2. Counted'
  BY DEF IInv, Running, telegram, web, NoMessenger, HasMsgs, TypeOK, Counted,
    StartsCounted, ServersCounted, One, Nr
<1>3. Channels'
  BY DEF IInv, Goto, telegram, NoMessenger, HasMsgs, Channels
<1>4. Pollers'
  BY DEF IInv, Goto, Does, telegram, NoMessenger, Pollers
<1>5. Bots'
  BY DEF IInv, Goto, Does, telegram, NoMessenger, Bots
<1>6. Servers'
  BY DEF IInv, web, NoMessenger, HasMsgs, Servers
<1>7. ServerKnown'
  BY DEF IInv, web, NoMessenger, ServerKnown
<1>8. BotUnlessFailed'
  BY DEF IInv, NoMessenger, BotUnlessFailed
<1> QED
  BY <1>1, <1>2, <1>3, <1>4, <1>5, <1>6, <1>7, <1>8 DEF IInv

LEMMA ChangeEndsKeeps ==
  ASSUME IInv, ChangeEnds
  PROVE  IInv'
<1>1. TypeOK'
  BY DEF IInv, Goto, telegram, web, ChangeEnds, TypeOK
<1>2. Counted'
  BY DEF IInv, Running, Goto, telegram, web, ChangeEnds, TypeOK, Counted,
    StartsCounted, ServersCounted, One, Nr
<1>3. Channels'
  BY DEF IInv, Goto, Actor, telegram, ChangeEnds, Channels
<1>4. Pollers'
  BY DEF IInv, Goto, Does, telegram, ChangeEnds, Pollers
<1>5. Bots'
  BY DEF IInv, Goto, Does, telegram, ChangeEnds, Bots
<1>6. Servers'
  BY DEF IInv, Goto, Actor, web, ChangeEnds, Servers
<1>7. ServerKnown'
  BY DEF IInv, web, ChangeEnds, ServerKnown
<1>8. BotUnlessFailed'
  BY DEF IInv, ChangeEnds, BotUnlessFailed
<1> QED
  BY <1>1, <1>2, <1>3, <1>4, <1>5, <1>6, <1>7, <1>8 DEF IInv

LEMMA SignalKeeps ==
  ASSUME IInv, Signal
  PROVE  IInv'
<1>1. TypeOK'
  <2>1. shut' \subseteq 1 .. servers' /\ listening' \in {0} \cup Nr
    BY ServerStopTypes DEF Signal, IInv
  <2> QED
    BY <2>1 DEF Signal, Goto, telegram, IInv, TypeOK
<1>2. Counted'
  BY DEF IInv, Goto, Actor, telegram, Signal, Counted, StartsCounted,
    ServersCounted
<1>3. Channels'
  BY DEF IInv, Goto, Actor, telegram, Signal, Channels
<1>4. Pollers'
  BY DEF IInv, Goto, Does, telegram, Signal, Pollers
<1>5. Bots'
  BY DEF IInv, Goto, Does, telegram, Signal, Bots
<1>6. Servers'
  BY DEF IInv, Goto, Signal, ServerStop, Servers
<1>7. ServerKnown'
  BY DEF IInv, Signal, ServerStop, ServerKnown
<1>8. BotUnlessFailed'
  BY DEF IInv, Signal, BotUnlessFailed
<1> QED
  BY <1>1, <1>2, <1>3, <1>4, <1>5, <1>6, <1>7, <1>8 DEF IInv

-----------------------------------------------------------------------------
(* A panic ends the program and changes nothing else; of a missing bot it   *)
(* comes only after a connection that failed.                               *)
LEMMA PanicKeeps ==
  ASSUME IInv, NEW why \in {"close", "nil bot"}, Panic(why), why = "nil bot" => failed
  PROVE  IInv'
<1>1. TypeOK'
  BY DEF IInv, telegram, web, Panic, TypeOK
<1>2. Counted'
  BY DEF IInv, telegram, web, Panic, Counted, StartsCounted, ServersCounted
<1>3. Channels'
  BY DEF IInv, telegram, Panic, Channels
<1>4. Pollers'
  BY DEF IInv, Does, telegram, Panic, Pollers
<1>5. Bots'
  BY DEF IInv, Does, telegram, Panic, Bots
<1>6. Servers'
  BY DEF IInv, web, Panic, Servers
<1>7. ServerKnown'
  BY DEF IInv, web, Panic, ServerKnown
<1>8. BotUnlessFailed'
  BY DEF IInv, Panic, BotUnlessFailed
<1> QED
  BY <1>1, <1>2, <1>3, <1>4, <1>5, <1>6, <1>7, <1>8 DEF IInv

(* What a poller does next: it ends, handles an update or waits on the      *)
(* channel in use.                                                          *)
LEMMA NextRoundStates ==
  ASSUME IInv, starts # 0, NEW state \in NextRound
  PROVE  /\ state \in PollerState
         /\ \/ state = Ended
            \/ state = Handling
            \/ state = [does |-> "wait", on |-> stopall] /\ stopall \in 1 .. starts
BY Types DEF NextRound, Ended, Handling, PollerState, IInv, Channels, Nr

(* A launched poller goes on while nothing else but the presses changes.    *)
LEMMA PollerKeeps ==
  ASSUME IInv, NEW p \in Nr, ~Does(p, "nothing"), NEW state \in PollerState,
         poller' = [poller EXCEPT ![p] = state],
         \/ state = Ended
         \/ state = Handling
         \/ state = [does |-> "wait", on |-> stopall] /\ stopall \in 1 .. starts,
         p \notin overtaken /\ state # Ended => stopall = p,
         press' \subseteq Press,
         UNCHANGED <<pc, start, starts, stopall, closed, bot, stopped, overtaken, web, changes,
                     panic, failed, raced>>
  PROVE  IInv'
<1>1. TypeOK'
  BY DEF IInv, web, TypeOK
<1>2. Counted'
  BY DEF IInv, web, Counted, StartsCounted, ServersCounted
<1>3. Channels'
  BY DEF IInv, Channels
<1>4. Pollers'
  <2>1. \A q \in Nr : poller'[q] = IF q = p THEN state ELSE poller[q]
    BY DEF IInv, TypeOK
  <2>2. \A a \in Actor : pc'[a] \in {"connect", "go"} =>
          /\ start'[a] \in 1 .. starts'
          /\ start'[a] \in overtaken' \/ start'[a] = stopall'
    BY DEF IInv, Pollers
  <2>3. p \in 1 .. starts
    BY DEF IInv, Pollers
  <2>4. ASSUME NEW q \in Nr
        PROVE  /\ ~Does(q, "nothing")' => q \in 1 .. starts'
               /\ Does(q, "wait")' => poller'[q].on \in 1 .. starts'
               /\ q \notin overtaken' =>
                    /\ Does(q, "begin")' \/ Does(q, "handle")' => stopall' = q
                    /\ Does(q, "wait")' => poller'[q].on = q
    <3>1. CASE q = p
      BY <2>1, <2>3, <3>1 DEF Does, Ended, Handling
    <3>2. CASE q # p
      BY <2>1, <3>2 DEF Does, IInv, Pollers
    <3> QED
      BY <3>1, <3>2
  <2> QED
    BY <2>2, <2>4 DEF Pollers
<1>5. Bots'
  BY DEF IInv, Bots
<1>6. Servers'
  BY DEF IInv, web, Servers
<1>7. ServerKnown'
  BY DEF IInv, web, ServerKnown
<1>8. BotUnlessFailed'
  BY DEF IInv, BotUnlessFailed
<1> QED
  BY <1>1, <1>2, <1>3, <1>4, <1>5, <1>6, <1>7, <1>8 DEF IInv

(* Presses end. *)
LEMMA PressesEnd ==
  ASSUME IInv, press' \subseteq press,
         UNCHANGED <<pc, start, starts, stopall, closed, bot, poller, stopped, overtaken,
                     web, changes, panic, failed, raced>>
  PROVE  IInv'
<1>1. TypeOK'
  BY DEF web, IInv, TypeOK
<1>2. Counted'
  BY DEF web, IInv, Counted, StartsCounted, ServersCounted
<1>3. Channels'
  BY DEF IInv, Channels
<1>4. Pollers'
  BY DEF IInv, Does, Pollers
<1>5. Bots'
  BY DEF IInv, Does, Bots
<1>6. Servers'
  BY DEF web, IInv, Servers
<1>7. ServerKnown'
  BY DEF web, IInv, ServerKnown
<1>8. BotUnlessFailed'
  BY DEF IInv, BotUnlessFailed
<1> QED
  BY <1>1, <1>2, <1>3, <1>4, <1>5, <1>6, <1>7, <1>8 DEF IInv

(* Panics for want of a bot. *)
LEMMA UserHasBot ==
  ASSUME IInv, bot = 0, (\E p \in Nr : ~Does(p, "nothing")) \/ press # {}
  PROVE  failed
BY DEF IInv, Bots

(* The poller that begins or has handled an update looks at the channel. *)
LEMMA NextRoundKeeps ==
  ASSUME IInv, NEW p \in Nr, Does(p, "begin") \/ Does(p, "handle"),
         SetPoller(p, NextRound), press' \subseteq Press
  PROVE  IInv'
<1>1. ~Does(p, "nothing")
  BY DEF Does
<1>2. PICK state \in NextRound : poller' = [poller EXCEPT ![p] = state]
  BY DEF SetPoller
<1>3. p \notin overtaken => stopall = p
  BY DEF IInv, Pollers
<1> QED
  BY <1>1, <1>2, <1>3, Launched, NextRoundStates, PollerKeeps DEF SetPoller

LEMMA HandledKeeps ==
  ASSUME IInv, NEW p \in Nr, Handled(p)
  PROVE  IInv'
<1>1. press \subseteq Press
  BY DEF IInv, TypeOK
<1>2. Does(p, "begin") \/ Does(p, "handle")
  BY DEF Handled, Begin, Reply, NoReply, LaunchPress
<1>3. CASE Panic("nil bot") /\ bot = 0
  <2>1. ~Does(p, "nothing")
    BY <1>2 DEF Does
  <2> QED
    BY <1>3, <2>1, UserHasBot, PanicKeeps
<1>4. CASE SetPoller(p, NextRound) /\ UNCHANGED press
  BY <1>1, <1>2, <1>4, NextRoundKeeps
<1>5. CASE \E h \in Press : SetPoller(p, NextRound) /\ press' = press \cup {h}
  BY <1>1, <1>2, <1>5, NextRoundKeeps
<1> QED
  BY <1>3, <1>4, <1>5 DEF Handled, Begin, Reply, NoReply, LaunchPress

LEMMA TakeUpdateKeeps ==
  ASSUME IInv, NEW p \in Nr, TakeUpdate(p)
  PROVE  IInv'
<1>1. ~Does(p, "nothing") /\ Handling \in PollerState /\ press' \subseteq Press
  BY DEF TakeUpdate, Does, Handling, PollerState, IInv, TypeOK
<1>2. p \notin overtaken => stopall = p
  BY Types DEF TakeUpdate, IInv, Pollers, Channels
<1> QED
  BY <1>1, <1>2, PollerKeeps DEF TakeUpdate, SetPoller

LEMMA EndKeeps ==
  ASSUME IInv, NEW p \in Nr, End(p)
  PROVE  IInv'
<1>1. ~Does(p, "nothing") /\ Ended \in PollerState /\ press' \subseteq Press
  BY DEF End, Does, Ended, PollerState, IInv, TypeOK
<1> QED
  BY <1>1, PollerKeeps DEF End, SetPoller

LEMMA AnswerPressKeeps ==
  ASSUME IInv, NEW h \in Press, AnswerPress(h)
  PROVE  IInv'
<1>1. CASE bot = 0
  BY <1>1, UserHasBot, PanicKeeps DEF AnswerPress
<1>2. CASE bot # 0
  BY <1>2, PressesEnd DEF AnswerPress
<1> QED
  BY <1>1, <1>2

-----------------------------------------------------------------------------
LEMMA InitInvariant == Init => IInv
<1> SUFFICES ASSUME Init PROVE IInv
  OBVIOUS
<1>1. TypeOK
  <2>1. poller \in [Nr -> PollerState]
    BY DEF Init, PollerState
  <2>2. /\ closed \cup stopped \cup overtaken \subseteq 1 .. starts
        /\ shut \subseteq 1 .. servers /\ launched \in 0 .. servers
        /\ changes \in 0 .. MaxChange
    BY MaxChangeNat DEF Init
  <2> QED
    BY <2>1, <2>2 DEF Init, TypeOK
<1>2. Counted
  BY DEF Init, Actor, Counted, StartsCounted, ServersCounted, One
<1>3. Channels
  BY DEF Init, Actor, Channels
<1>4. Pollers
  BY DEF Init, Does, Pollers
<1>5. Bots
  BY DEF Init, Does, Bots
<1>6. Servers
  BY DEF Init, Servers
<1>7. ServerKnown
  BY DEF Init, ServerKnown
<1>8. BotUnlessFailed
  BY DEF Init, BotUnlessFailed
<1> QED
  BY <1>1, <1>2, <1>3, <1>4, <1>5, <1>6, <1>7, <1>8 DEF IInv

LEMMA StepKeeps == IInv /\ [Next]_vars => IInv'
<1> SUFFICES ASSUME IInv, [Next]_vars PROVE IInv'
  OBVIOUS
<1>1. CASE UNCHANGED vars
  BY <1>1, PressesEnd DEF vars, telegram
<1>2. ASSUME NEW a \in Actor, Startup(a) PROVE IInv'
  BY <1>2, MakeKeeps, ConnectKeeps, ConnectFailsKeeps, LaunchKeeps,
    ServeKeeps DEF Startup
<1>3. CASE Main
  BY <1>2, <1>3, BuildMessengerKeeps, BuildServerKeeps, MainGoesOnKeeps
    DEF Main, Actor, WebDisabled, Refused
<1>4. CASE Stream
  <2>1. CASE StopUnmade
    BY <2>1, PanicKeeps DEF StopUnmade
  <2> QED
    BY <1>2, <1>4, <2>1, StopMessengerKeeps, NoMessengerKeeps,
      ChangeEndsKeeps DEF Stream, Actor
<1>5. CASE ConfigChange
  BY <1>5, ConfigChangeKeeps
<1>6. CASE Signal
  BY <1>6, SignalKeeps
<1>7. CASE Listen
  BY <1>7, ListenKeeps
<1>8. CASE \E p \in Nr : Handled(p) \/ TakeUpdate(p) \/ End(p)
  BY <1>8, HandledKeeps, TakeUpdateKeeps, EndKeeps
<1>9. CASE \E h \in Press : AnswerPress(h)
  BY <1>9, AnswerPressKeeps
<1> QED
  BY <1>1, <1>3, <1>4, <1>5, <1>6, <1>7, <1>8, <1>9 DEF Next

THEOREM Invariant == Spec => []IInv
BY InitInvariant, StepKeeps, PTL DEF Spec

-----------------------------------------------------------------------------
(* The state of main, the event stream, pollers and servers is of its type: *)
(* in particular each start of the messenger (start.go 418-434,             *)
(* eventstream.go 138-147) and of the web server has a number in Nr.        *)
THEOREM TypeCorrect == Spec => []TypeOK
BY Invariant, PTL DEF IInv

(* README.md 149, "two pollers on one token steal each other's updates":    *)
(* of two pollers that poll one was overtaken by a later start while it was *)
(* busy (startTelegram reads m.stopall anew, telegram.go 84).               *)
THEOREM OnePollerHolds == Spec => []OnePoller
<1>1. IInv => OnePoller
  BY Types DEF IInv, Channels, Pollers, OnePoller, Polls
<1> QED
  BY <1>1, Invariant, PTL

(* A poller that was there at a Stop and that no later start overtook has   *)
(* the channel the Stop closed.                                             *)
StoppedClosed == stopped \ overtaken \subseteq closed

LEMMA StoppedClosedKept ==
  ASSUME IInv, StoppedClosed, [Next]_vars
  PROVE  StoppedClosed'
<1>1. CASE UNCHANGED <<closed, stopped, overtaken>>
  BY <1>1 DEF StoppedClosed
<1>2. CASE StopMessenger
  <2>1. ASSUME NEW p \in Nr \ overtaken, Does(p, "wait") \/ Does(p, "handle")
        PROVE  p \in closed \cup {stopall}
    <3>1. CASE Does(p, "handle")
      BY <2>1, <3>1 DEF IInv, Pollers
    <3>2. CASE Does(p, "wait")
      <4>1. p \in 1 .. starts /\ stopall = starts /\ 1 .. starts - 1 \subseteq closed
        BY <2>1, <3>2 DEF IInv, Pollers, Channels
      <4> QED
        BY <4>1, Types DEF IInv
    <3> QED
      BY <2>1, <3>1, <3>2
  <2> QED
    BY <1>2, <2>1 DEF StopMessenger, Closed, StoppedClosed
<1>3. ASSUME NEW a \in Actor, Startup(a) PROVE StoppedClosed'
  <2>1. CASE Make(a)
    BY <2>1 DEF Make, StoppedClosed
  <2> QED
    BY <1>1, <1>3, <2>1 DEF Startup, Connect, ConnectFails, Launch, Serve, telegram
<1>4. CASE Main
  BY <1>1, <1>3, <1>4 DEF Main, Actor, BuildMessenger, BuildServer, WebDisabled, Refused, telegram
<1>5. CASE Stream
  BY <1>1, <1>2, <1>3, <1>5
    DEF Stream, Actor, StopUnmade, Panic, NoMessenger, ChangeEnds, telegram
<1>6. CASE ConfigChange \/ Signal \/ Listen
  BY <1>1, <1>6 DEF ConfigChange, Signal, Listen, telegram
<1>7. ASSUME NEW p \in Nr, Handled(p) \/ TakeUpdate(p) \/ End(p) PROVE StoppedClosed'
  BY <1>1, <1>7
    DEF Handled, Begin, Reply, NoReply, LaunchPress, TakeUpdate, End, SetPoller, Panic, telegram
<1>8. ASSUME NEW h \in Press, AnswerPress(h) PROVE StoppedClosed'
  BY <1>1, <1>8 DEF AnswerPress, Panic, telegram
<1>9. CASE UNCHANGED vars
  BY <1>1, <1>9 DEF vars, telegram
<1> QED
  BY <1>4, <1>5, <1>6, <1>7, <1>8, <1>9 DEF Next

(* messenger.go 91, "Stop closes the telegram routine": a poller that was   *)
(* there at a Stop takes no further update, unless it was busy when the     *)
(* next Start replaced the channel (telegram.go 84).                        *)
THEOREM StopClosesIdleHolds == Spec => []StopClosesIdle
<1>1. Init => StoppedClosed
  BY DEF Init, StoppedClosed
<1>2. IInv /\ StoppedClosed /\ [Next]_vars => StoppedClosed'
  BY StoppedClosedKept
<1>3. IInv /\ StoppedClosed => StopClosesIdle
  <2> SUFFICES ASSUME IInv, StoppedClosed, NEW p \in stopped \ overtaken PROVE ~Polls(p)
    BY DEF StopClosesIdle
  <2>1. p \in closed /\ p \in 1 .. starts
    BY DEF StoppedClosed, IInv, TypeOK
  <2>2. p \in Nr
    BY <2>1, Types DEF IInv, Nr
  <2> QED
    BY <2>1, <2>2 DEF IInv, Pollers, Polls
<1> QED
  BY <1>1, <1>2, <1>3, Invariant, PTL DEF Spec

(* Only between a Stop and the Start that follows is m.stopall closed.      *)
OpenAtStop == stopall \in closed => pc["stream"] = "make"

LEMMA OpenAtStopKept ==
  ASSUME IInv, OpenAtStop, StopFindsChannel, [Next]_vars
  PROVE  OpenAtStop' /\ StopFindsChannel'
<1>1. CASE UNCHANGED <<stopall, closed, panic>> /\ (pc["stream"] = "make" => UNCHANGED pc["stream"])
  BY <1>1 DEF OpenAtStop, StopFindsChannel
<1>2. ASSUME Panic("nil bot") PROVE OpenAtStop' /\ StopFindsChannel'
  BY <1>2 DEF Panic, telegram, OpenAtStop, StopFindsChannel
<1>3. pc = [a \in Actor |-> pc[a]]
  BY DEF IInv, TypeOK
<1>4. ASSUME NEW a \in Actor, Startup(a) PROVE OpenAtStop' /\ StopFindsChannel'
  <2>1. CASE Make(a)
    <3>1. stopall' \notin closed' /\ panic' = "none"
      BY <2>1, Types DEF Make, NewChannel, Running, IInv, TypeOK
    <3> QED
      BY <3>1 DEF OpenAtStop, StopFindsChannel
  <2>2. CASE Connect(a) \/ ConnectFails(a) \/ Launch(a) \/ Serve(a)
    BY <1>1, <1>3, <2>2 DEF Connect, ConnectFails, Launch, Serve, Goto, telegram, Actor
  <2> QED
    BY <1>4, <2>1, <2>2 DEF Startup
<1>5. CASE Main
  BY <1>1, <1>3, <1>4, <1>5
    DEF Main, Actor, BuildMessenger, BuildServer, WebDisabled, Refused, Goto, telegram
<1>6. CASE StopMessenger
  BY <1>3, <1>6 DEF StopMessenger, Goto, Running, Actor, OpenAtStop, StopFindsChannel
<1>7. CASE StopUnmade
  BY <1>7 DEF StopUnmade, Panic, telegram, OpenAtStop, StopFindsChannel
<1>8. CASE NoMessenger \/ ChangeEnds
  BY <1>1, <1>8 DEF NoMessenger, ChangeEnds, telegram
<1>9. CASE Stream
  BY <1>4, <1>6, <1>7, <1>8, <1>9 DEF Stream, Actor
<1>10. CASE ConfigChange \/ Signal \/ Listen
  BY <1>1, <1>3, <1>10 DEF ConfigChange, Signal, Listen, Goto, telegram, Actor
<1>11. ASSUME NEW p \in Nr, Handled(p) \/ TakeUpdate(p) \/ End(p)
       PROVE  OpenAtStop' /\ StopFindsChannel'
  BY <1>1, <1>2, <1>11
    DEF Handled, Begin, Reply, NoReply, LaunchPress, TakeUpdate, End, SetPoller
<1>12. ASSUME NEW h \in Press, AnswerPress(h) PROVE OpenAtStop' /\ StopFindsChannel'
  BY <1>1, <1>2, <1>12 DEF AnswerPress
<1>13. CASE UNCHANGED vars
  BY <1>1, <1>13 DEF vars, telegram
<1> QED
  BY <1>5, <1>9, <1>10, <1>11, <1>12, <1>13 DEF Next

(* close(m.stopall), messenger.go 94: no Stop closes a channel that is      *)
(* closed already, also where the Start before could not connect; a nil one *)
(* it finds only while main has yet to make the first (start.go 418-434).   *)
THEOREM StopFindsChannelHolds == Spec => []StopFindsChannel
<1>1. Init => OpenAtStop /\ StopFindsChannel
  BY DEF Init, OpenAtStop, StopFindsChannel
<1>2. /\ IInv /\ OpenAtStop /\ StopFindsChannel /\ [Next]_vars
      => OpenAtStop' /\ StopFindsChannel'
  BY OpenAtStopKept
<1> QED
  BY <1>1, <1>2, Invariant, PTL DEF Spec

(* The server with the port is the one Config.Stop shuts down               *)
(* (webserver.go 152), unless a change overtook the start of the first.     *)
THEOREM ServerKnownHolds == Spec => []ServerKnown
BY Invariant, PTL DEF IInv

(* Nobody uses a nil m.telebot (telegram.go 33, 144, 285, 299) unless a     *)
(* connection to Telegram failed.                                           *)
THEOREM BotUnlessFailedHolds == Spec => []BotUnlessFailed
BY Invariant, PTL DEF IInv

=============================================================================
