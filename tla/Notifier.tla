------------------------------ MODULE Notifier -------------------------------
(****************************************************************************)
(* Who is told of an event, and how long a subscription then stays quiet    *)
(* (pkg/motifini/eventstream.go, notifyHandler of pkg/webserver).           *)
(*                                                                          *)
(*  - one goroutine takes the events of the stream one after another: it    *)
(*    collects the subscribers, saves a clip, sends to one after the other, *)
(*    then pauses each subscription for its repeat delay;                   *)
(*  - HTTP requests notify subscribers too, each in a goroutine;            *)
(*  - subscribers change their subscriptions, pauses and delays any time.   *)
(*                                                                          *)
(* Time passes in ticks: a pause is what is left of it.  The stream's       *)
(* buffer is left out: whatever event may come next.  One subscription of a *)
(* subscriber is touched in one step.                                       *)
(****************************************************************************)
EXTENDS Naturals, FiniteSets

CONSTANTS
  Sub,           \* subscribers
  Camera,        \* the key of the camera, whatever the class
  Class,         \* its keys with a class ("Door:human")
  SystemEvent,   \* built-in events
  NotifyEvent,   \* events the HTTP API notifies
  Call,          \* HTTP requests
  Delay,         \* delays one may choose
  DefaultRepeatDelay,
  PauseLength    \* pauses one may choose; 0 clears

Key == {Camera} \cup Class \cup SystemEvent \cup NotifyEvent

ASSUME NotifierAssumption ==
  /\ Delay \cup PauseLength \subseteq Nat /\ DefaultRepeatDelay \in Nat
  /\ ({Camera} \cup Class) \cap (SystemEvent \cup NotifyEvent) = {}
  /\ SystemEvent \cap NotifyEvent = {}

VARIABLES
  subscribed,  \* the keys of each subscriber's Events
  pause,       \* what is left of the pause of a subscription
  delay,       \* its "delay" rule, or the default
  event,       \* the goroutine of the event stream
  call,        \* the HTTP requests
  asked,       \* (history) what is left of the pause its subscriber asked for
  crossed,     \* (history) pauses asked for while one was about to be set
  cooldown     \* (history) what is left of the delay since the last message,
               \* as long as the subscriber does not touch the subscription

vars == <<subscribed, pause, delay, event, call, asked, crossed, cooldown>>

-----------------------------------------------------------------------------
(* Subscriptions *)

Active(u, k) == k \in subscribed[u] /\ pause[u][k] = 0

(* CollectSubscribers: the keys an event reaches a subscriber by. *)
ReachedBy(keys) == [u \in Sub |-> {k \in keys : Active(u, k)}]
Recipients(due) == {u \in Sub : due[u] # {}}

(* ActiveKeysAmong *)
EverySubscribedKey(u, keys) == keys \cap subscribed[u]
ActiveKeysAmong(u, keys) == {k \in keys : Active(u, k)}

(* RuleGetD: a subscription without a rule has the default. *)
AlwaysDefault(u, k) == DefaultRepeatDelay
RepeatDelay(u, k) == delay[u][k]

Set(f, u, k, n) == [f EXCEPT ![u][k] = n]

(* Events.Pause: an error, dropped, if the key is not subscribed. *)
PauseAnyway(u, k, n) == pause' = Set(pause, u, k, n)
PauseKey(u, k, n) == pause' = IF k \in subscribed[u] THEN Set(pause, u, k, n) ELSE pause

-----------------------------------------------------------------------------
(* The goroutine of the event stream *)

NoKeys == [u \in Sub |-> {}]
Idle == [pc |-> "idle", keys |-> {}, due |-> NoKeys, todo |-> {}, to |-> {}]

Step == {"idle", "capture", "send", "pause", "picked"}
EventState == [pc: Step, keys: SUBSET Key, due: [Sub -> SUBSET Key], todo: SUBSET Sub,
               to: SUBSET (Sub \X Key)]
CallState == [due: [Sub -> SUBSET Key]]

TypeOK ==
  /\ subscribed \in [Sub -> SUBSET Key]
  /\ pause \in [Sub -> [Key -> Nat]] /\ asked \in [Sub -> [Key -> Nat]]
  /\ cooldown \in [Sub -> [Key -> Nat]]
  /\ delay \in [Sub -> [Key -> Delay \cup {DefaultRepeatDelay}]]
  /\ event \in EventState /\ call \in [Call -> CallState]
  /\ crossed \subseteq Sub \X Key
  /\ \A u \in Sub, k \in Key :
       k \notin subscribed[u] => pause[u][k] = 0 /\ delay[u][k] = DefaultRepeatDelay

UNCHANGEDSubscriptions == UNCHANGED <<subscribed, pause, delay, asked, crossed, cooldown>>

(* ClassesFromReasons: each reason of a trigger has a class, and motion is   *)
(* the class if there is none.  NotifyKeys: the keys of the classes, and the *)
(* camera's own for subscriptions from before there were any.                *)
ClassesFromReasons == (SUBSET Class) \ {{}}
NotifyKeys(classes) == {Camera} \cup classes

(* dispatchEvent, handleCameraMotion *)
CameraMotion ==
  /\ event.pc = "idle"
  /\ \E classes \in ClassesFromReasons :
       LET keys == NotifyKeys(classes) IN
       /\ Recipients(ReachedBy(keys)) # {}
       /\ event' = [Idle EXCEPT !.pc = "capture", !.keys = keys, !.due = ReachedBy(keys)]
  /\ UNCHANGED call /\ UNCHANGEDSubscriptions

(* notifySystemEvent: no clip to save. *)
SystemHappens ==
  /\ event.pc = "idle"
  /\ \E k \in SystemEvent :
       /\ Recipients(ReachedBy({k})) # {}
       /\ event' = [Idle EXCEPT !.pc = "send", !.keys = {k}, !.due = ReachedBy({k}),
                                !.todo = Recipients(ReachedBy({k}))]
  /\ UNCHANGED call /\ UNCHANGEDSubscriptions

(* SaveVideo; if it fails nobody is told. *)
SaveVideo ==
  /\ event.pc = "capture"
  /\ event' \in {Idle, [event EXCEPT !.pc = "send", !.todo = Recipients(event.due)]}
  /\ UNCHANGED call /\ UNCHANGEDSubscriptions

(* SendFileOrMsg, to one subscriber; after the last one the pauses. *)
Cooling(u, due) ==
  cooldown' = [cooldown EXCEPT ![u] = [k \in Key |->
                 IF k \in due /\ Active(u, k) THEN delay[u][k] ELSE @[k]]]

Deliver(u) ==
  /\ event.pc = "send" /\ u \in event.todo
  /\ event' = IF event.todo = {u}
              THEN [event EXCEPT !.pc = "pause", !.todo = Recipients(event.due)]
              ELSE [event EXCEPT !.todo = @ \ {u}]
  /\ Cooling(u, event.due[u])
  /\ UNCHANGED <<subscribed, pause, delay, call, asked, crossed>>

(* The goroutine goes on to the next subscriber, or ends. *)
NextSubscriber(todo) ==
  event' = IF todo = {} THEN Idle ELSE [event EXCEPT !.pc = "pause", !.todo = todo, !.to = {}]

(* handleCameraMotion: the keys that are active by now ... *)
Pick(u) ==
  /\ event.pc = "pause" /\ Camera \in event.keys /\ u \in event.todo
  /\ LET keys == ActiveKeysAmong(u, event.keys) IN
     IF keys = {} THEN NextSubscriber(event.todo \ {u})
     ELSE event' = [event EXCEPT !.pc = "picked", !.todo = @ \ {u}, !.to = {u} \X keys]
  /\ UNCHANGED call /\ UNCHANGEDSubscriptions

(* ... are paused, one after the other. *)
HoldPicked(u, k) ==
  /\ event.pc = "picked" /\ <<u, k>> \in event.to
  /\ PauseKey(u, k, RepeatDelay(u, k))
  /\ IF event.to = {<<u, k>>} THEN NextSubscriber(event.todo)
     ELSE event' = [event EXCEPT !.to = @ \ {<<u, k>>}]
  /\ UNCHANGED <<subscribed, delay, call, asked, crossed, cooldown>>

(* notifySystemEvent pauses each recipient, whatever it is by now. *)
HoldSystem(u, k) ==
  /\ event.pc = "pause" /\ Camera \notin event.keys /\ u \in event.todo /\ k \in event.keys
  /\ PauseKey(u, k, RepeatDelay(u, k))
  /\ NextSubscriber(event.todo \ {u})
  /\ UNCHANGED <<subscribed, delay, call, asked, crossed, cooldown>>

(* Whatever its pause, the goroutine is about to set one. *)
AboutToHold(u, k) ==
  \/ event.pc = "picked" /\ <<u, k>> \in event.to
  \/ /\ event.pc \in {"send", "pause"} /\ Camera \notin event.keys /\ k \in event.keys
     /\ IF event.pc = "pause" THEN u \in event.todo ELSE u \in Recipients(event.due)

-----------------------------------------------------------------------------
(* HTTP notifications: the subscribers, then the send to each; no pause *)

Notify(c) ==
  /\ Recipients(call[c].due) = {}
  /\ \E k \in NotifyEvent :
       /\ Recipients(ReachedBy({k})) # {}
       /\ call' = [call EXCEPT ![c].due = ReachedBy({k})]
  /\ UNCHANGED event /\ UNCHANGEDSubscriptions

NotifyOne(c, u) ==
  /\ call[c].due[u] # {}
  /\ call' = [call EXCEPT ![c].due[u] = {}]
  /\ Cooling(u, call[c].due[u])
  /\ UNCHANGED <<subscribed, pause, delay, event, asked, crossed>>

-----------------------------------------------------------------------------
(* Subscribers, in the chat or through the HTTP API *)

Touch(u, k) == cooldown' = Set(cooldown, u, k, 0)

Subscribe(u, k) ==
  /\ k \notin subscribed[u]
  /\ subscribed' = [subscribed EXCEPT ![u] = @ \cup {k}]
  /\ Touch(u, k)
  /\ UNCHANGED <<pause, delay, event, call, asked, crossed>>

(* The pause and the rules go with the subscription. *)
Unsubscribe(u, k) ==
  /\ k \in subscribed[u]
  /\ subscribed' = [subscribed EXCEPT ![u] = @ \ {k}]
  /\ pause' = Set(pause, u, k, 0) /\ asked' = Set(asked, u, k, 0)
  /\ delay' = Set(delay, u, k, DefaultRepeatDelay)
  /\ crossed' = crossed \ {<<u, k>>}
  /\ Touch(u, k)
  /\ UNCHANGED <<event, call>>

Pause(u, k, n) ==
  /\ k \in subscribed[u]
  /\ pause' = Set(pause, u, k, n) /\ asked' = Set(asked, u, k, n)
  /\ crossed' = IF n > 0 /\ AboutToHold(u, k) THEN crossed \cup {<<u, k>>} ELSE crossed \ {<<u, k>>}
  /\ Touch(u, k)
  /\ UNCHANGED <<subscribed, delay, event, call>>

SetDelay(u, k, n) ==
  /\ k \in subscribed[u] /\ n # delay[u][k]
  /\ delay' = Set(delay, u, k, n)
  /\ Touch(u, k)
  /\ UNCHANGED <<subscribed, pause, event, call, asked, crossed>>

-----------------------------------------------------------------------------
Less(f) == [u \in Sub |-> [k \in Key |-> IF f[u][k] = 0 THEN 0 ELSE f[u][k] - 1]]

Tick ==
  /\ pause' = Less(pause) /\ asked' = Less(asked) /\ cooldown' = Less(cooldown)
  /\ crossed' = {c \in crossed : asked'[c[1]][c[2]] > 0}
  /\ UNCHANGED <<subscribed, delay, event, call>>

Init ==
  /\ subscribed = [u \in Sub |-> {}]
  /\ pause = [u \in Sub |-> [k \in Key |-> 0]] /\ asked = pause /\ cooldown = pause
  /\ delay = [u \in Sub |-> [k \in Key |-> DefaultRepeatDelay]]
  /\ event = Idle /\ call = [c \in Call |-> [due |-> NoKeys]]
  /\ crossed = {}

Next ==
  \/ CameraMotion \/ SystemHappens \/ SaveVideo \/ Tick
  \/ \E u \in Sub : Deliver(u) \/ Pick(u)
  \/ \E c \in Call : Notify(c) \/ \E u \in Sub : NotifyOne(c, u)
  \/ \E u \in Sub, k \in Key :
       \/ HoldPicked(u, k) \/ HoldSystem(u, k)
       \/ Subscribe(u, k) \/ Unsubscribe(u, k)
       \/ \E n \in PauseLength : Pause(u, k, n)
       \/ \E n \in Delay : SetDelay(u, k, n)

Spec == Init /\ [][Next]_vars

-----------------------------------------------------------------------------
(* Properties *)

(* commands_nonadmin.go 264: "paused for at least N minutes".  No message   *)
(* of the stream cuts a pause short that its subscriber asked for, unless   *)
(* he asked while the goroutine was already about to pause that key.        *)
PauseKept ==
  \A u \in Sub, k \in Key : asked[u][k] <= pause[u][k] \/ <<u, k>> \in crossed

(* wizard_cmds.go 996-998: after a clip for a subscription, "it will wait   *)
(* at least" its delay "before sending another for that same subscription". *)
(* So does the stream, camera or system event, as long as the subscriber    *)
(* leaves the subscription alone.                                           *)
StreamWaits ==
  [][\A u \in Sub : Deliver(u) => \A k \in event.due[u] : cooldown[u][k] = 0]_vars

(* ... and a notification through the HTTP API. *)
NotifyWaits ==
  [][\A c \in Call, u \in Sub :
       NotifyOne(c, u) => \A k \in call[c].due[u] : cooldown[u][k] = 0]_vars

=============================================================================
