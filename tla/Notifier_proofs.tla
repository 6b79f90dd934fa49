--------------------------- MODULE Notifier_proofs ---------------------------
(****************************************************************************)
(* Proofs about Notifier for any subscribers, events, delays and pauses.    *)
(*                                                                          *)
(* PauseKept is kept by the goroutine's own pauses because of what it knows *)
(* when it sets one: a key it has picked, or a recipient it has yet to      *)
(* pause, had no pause then, so one asked for since is noted in crossed.    *)
(****************************************************************************)
EXTENDS Notifier, TLAPS

USE NotifierAssumption

-----------------------------------------------------------------------------
(* The inductive invariant *)

Harmless(u, k) == asked[u][k] = 0 \/ <<u, k>> \in crossed

HoldInv ==
  /\ \A u \in Sub, k \in Key : AboutToHold(u, k) => Harmless(u, k)
  /\ event.pc \in {"send", "pause", "picked"} => event.todo \subseteq Recipients(event.due)
  /\ Camera \notin event.keys =>
       \A u \in Sub : event.due[u] # {} => event.due[u] = event.keys
  /\ \A u \in Sub : event.due[u] \subseteq event.keys
  /\ event.pc \in {"capture", "picked"} => Camera \in event.keys

IInv == TypeOK /\ HoldInv /\ PauseKept

-----------------------------------------------------------------------------
(* Type correctness *)

LEMMA KeyKinds ==
  /\ Camera \in Key /\ Class \subseteq Key /\ SystemEvent \subseteq Key
  /\ NotifyEvent \subseteq Key /\ Camera \notin SystemEvent
BY DEF Key

LEMMA SetNat ==
  ASSUME NEW f \in [Sub -> [Key -> Nat]], NEW u \in Sub, NEW k \in Key, NEW n \in Nat
  PROVE  /\ Set(f, u, k, n) \in [Sub -> [Key -> Nat]]
         /\ \A v \in Sub, l \in Key :
              Set(f, u, k, n)[v][l] = IF v = u /\ l = k THEN n ELSE f[v][l]
BY DEF Set

LEMMA SetDelayType ==
  ASSUME TypeOK, NEW u \in Sub, NEW k \in Key, NEW n \in Delay \cup {DefaultRepeatDelay}
  PROVE  /\ Set(delay, u, k, n) \in [Sub -> [Key -> Delay \cup {DefaultRepeatDelay}]]
         /\ \A v \in Sub, l \in Key :
              Set(delay, u, k, n)[v][l] = IF v = u /\ l = k THEN n ELSE delay[v][l]
BY DEF Set, TypeOK

LEMMA LessType ==
  ASSUME NEW f \in [Sub -> [Key -> Nat]]
  PROVE  /\ Less(f) \in [Sub -> [Key -> Nat]]
         /\ \A v \in Sub, l \in Key : Less(f)[v][l] = IF f[v][l] = 0 THEN 0 ELSE f[v][l] - 1
BY DEF Less

LEMMA ReachedType ==
  ASSUME NEW keys \in SUBSET Key
  PROVE  /\ ReachedBy(keys) \in [Sub -> SUBSET Key]
         /\ \A u \in Sub : ReachedBy(keys)[u] \subseteq keys
         /\ Recipients(ReachedBy(keys)) \subseteq Sub
BY DEF ReachedBy, Recipients

LEMMA IdleType == Idle \in EventState
BY DEF Idle, EventState, Step, NoKeys

LEMMA CoolingType ==
  ASSUME TypeOK, NEW u \in Sub, NEW due, Cooling(u, due)
  PROVE  cooldown' \in [Sub -> [Key -> Nat]]
BY DEF TypeOK, Cooling

LEMMA PauseKeyType ==
  ASSUME TypeOK, NEW u \in Sub, NEW k \in Key, PauseKey(u, k, RepeatDelay(u, k))
  PROVE  /\ pause' \in [Sub -> [Key -> Nat]]
         /\ \A v \in Sub, l \in Key :
              pause'[v][l] = pause[v][l] \/ (v = u /\ l = k /\ k \in subscribed[u])
<1>1. RepeatDelay(u, k) \in Nat
  BY DEF TypeOK, RepeatDelay
<1>2. pause \in [Sub -> [Key -> Nat]]
  BY DEF TypeOK
<1>3. CASE k \in subscribed[u]
  <2>1. pause' = Set(pause, u, k, RepeatDelay(u, k))
    BY <1>3 DEF PauseKey
  <2> QED
    BY <1>1, <1>2, <1>3, <2>1, SetNat
<1>4. CASE k \notin subscribed[u]
  BY <1>2, <1>4 DEF PauseKey
<1> QED
  BY <1>3, <1>4

LEMMA NextSubscriberType ==
  ASSUME TypeOK, NEW todo \in SUBSET Sub, NextSubscriber(todo)
  PROVE  event' \in EventState
BY IdleType DEF TypeOK, NextSubscriber, EventState, Step

LEMMA TypeStep == TypeOK /\ [Next]_vars => TypeOK'
<1> SUFFICES ASSUME TypeOK, [Next]_vars PROVE TypeOK'
  OBVIOUS
<1>1. CASE UNCHANGED vars
  BY <1>1 DEF vars, TypeOK
<1>2. ASSUME CameraMotion PROVE TypeOK'
  <2>1. PICK classes \in SUBSET Class :
          event' = [Idle EXCEPT !.pc = "capture", !.keys = {Camera} \cup classes,
                                !.due = ReachedBy({Camera} \cup classes)]
    BY <1>2 DEF CameraMotion, ClassesFromReasons, NotifyKeys
  <2>2. {Camera} \cup classes \in SUBSET Key
    BY KeyKinds
  <2>3. event' \in EventState
    BY <2>1, <2>2, ReachedType, IdleType DEF EventState, Step
  <2> QED
    BY <1>2, <2>3 DEF CameraMotion, UNCHANGEDSubscriptions, TypeOK
<1>3. ASSUME SystemHappens PROVE TypeOK'
  <2>1. PICK k \in SystemEvent :
          event' = [Idle EXCEPT !.pc = "send", !.keys = {k}, !.due = ReachedBy({k}),
                                !.todo = Recipients(ReachedBy({k}))]
    BY <1>3 DEF SystemHappens
  <2>2. {k} \in SUBSET Key
    BY KeyKinds
  <2>3. event' \in EventState
    BY <2>1, <2>2, ReachedType, IdleType DEF EventState, Step
  <2> QED
    BY <1>3, <2>3 DEF SystemHappens, UNCHANGEDSubscriptions, TypeOK
<1>4. ASSUME SaveVideo PROVE TypeOK'
  <2>1. Recipients(event.due) \subseteq Sub
    BY DEF Recipients
  <2>2. event' \in EventState
    BY <1>4, <2>1, IdleType DEF SaveVideo, TypeOK, EventState, Step
  <2> QED
    BY <1>4, <2>2 DEF SaveVideo, UNCHANGEDSubscriptions, TypeOK
<1>5. ASSUME Tick PROVE TypeOK'
  BY <1>5, LessType DEF Tick, TypeOK
<1>6. ASSUME NEW u \in Sub, Deliver(u) PROVE TypeOK'
  <2>1. Recipients(event.due) \subseteq Sub
    BY DEF Recipients
  <2>2. event' \in EventState
    BY <1>6, <2>1 DEF Deliver, TypeOK, EventState, Step
  <2>3. cooldown' \in [Sub -> [Key -> Nat]]
    BY <1>6, CoolingType DEF Deliver
  <2> QED
    BY <1>6, <2>2, <2>3 DEF Deliver, TypeOK
<1>7. ASSUME NEW u \in Sub, Pick(u) PROVE TypeOK'
  <2>1. event \in EventState
    BY DEF TypeOK
  <2>2. event.todo \ {u} \in SUBSET Sub
    BY <2>1 DEF EventState
  <2>3. ActiveKeysAmong(u, event.keys) \subseteq Key
    BY <2>1 DEF EventState, ActiveKeysAmong
  <2>4. [event EXCEPT !.pc = "picked", !.todo = @ \ {u},
                      !.to = {u} \X ActiveKeysAmong(u, event.keys)] \in EventState
    BY <2>1, <2>2, <2>3 DEF EventState, Step
  <2>5. event' \in EventState
    BY <1>7, <2>2, <2>4, NextSubscriberType DEF Pick
  <2> QED
    BY <1>7, <2>5 DEF Pick, UNCHANGEDSubscriptions, TypeOK
<1>8. ASSUME NEW u \in Sub, NEW k \in Key, HoldPicked(u, k) \/ HoldSystem(u, k)
      PROVE  TypeOK'
  <2>1. event \in EventState
    BY DEF TypeOK
  <2>2. event.todo \in SUBSET Sub /\ event.todo \ {u} \in SUBSET Sub
        /\ [event EXCEPT !.to = @ \ {<<u, k>>}] \in EventState
    BY <2>1 DEF EventState
  <2>3. event' \in EventState
    BY <1>8, <2>2, NextSubscriberType DEF HoldPicked, HoldSystem
  <2>4. PauseKey(u, k, RepeatDelay(u, k))
    BY <1>8 DEF HoldPicked, HoldSystem
  <2>5. /\ pause' \in [Sub -> [Key -> Nat]]
        /\ \A v \in Sub, l \in Key :
             pause'[v][l] = pause[v][l] \/ (v = u /\ l = k /\ k \in subscribed[u])
    BY <2>4, PauseKeyType
  <2>6. UNCHANGED <<subscribed, delay, call, asked, crossed, cooldown>>
    BY <1>8 DEF HoldPicked, HoldSystem
  <2> QED
    BY <2>3, <2>5, <2>6 DEF TypeOK
<1>9. ASSUME NEW c \in Call, Notify(c) PROVE TypeOK'
  <2>1. PICK k \in NotifyEvent : call' = [call EXCEPT ![c].due = ReachedBy({k})]
    BY <1>9 DEF Notify
  <2>2. ReachedBy({k}) \in [Sub -> SUBSET Key]
    BY KeyKinds, ReachedType
  <2>3. call' \in [Call -> CallState]
    BY <2>1, <2>2 DEF TypeOK, CallState
  <2> QED
    BY <1>9, <2>3 DEF Notify, UNCHANGEDSubscriptions, TypeOK
<1>10. ASSUME NEW c \in Call, NEW u \in Sub, NotifyOne(c, u) PROVE TypeOK'
  <2>1. call' \in [Call -> CallState]
    BY <1>10 DEF NotifyOne, TypeOK, CallState
  <2>2. cooldown' \in [Sub -> [Key -> Nat]]
    BY <1>10, CoolingType DEF NotifyOne
  <2> QED
    BY <1>10, <2>1, <2>2 DEF NotifyOne, TypeOK
<1>11. ASSUME NEW u \in Sub, NEW k \in Key, Subscribe(u, k) PROVE TypeOK'
  BY <1>11, SetNat DEF Subscribe, Touch, TypeOK
<1>12. ASSUME NEW u \in Sub, NEW k \in Key, Unsubscribe(u, k) PROVE TypeOK'
  <2>1. /\ pause' = Set(pause, u, k, 0) /\ asked' = Set(asked, u, k, 0)
        /\ cooldown' = Set(cooldown, u, k, 0)
        /\ delay' = Set(delay, u, k, DefaultRepeatDelay)
        /\ subscribed' = [subscribed EXCEPT ![u] = @ \ {k}]
    BY <1>12 DEF Unsubscribe, Touch
  <2>2. /\ pause' \in [Sub -> [Key -> Nat]] /\ asked' \in [Sub -> [Key -> Nat]]
        /\ cooldown' \in [Sub -> [Key -> Nat]]
        /\ delay' \in [Sub -> [Key -> Delay \cup {DefaultRepeatDelay}]]
        /\ subscribed' \in [Sub -> SUBSET Key]
    BY <2>1, SetNat, SetDelayType DEF TypeOK
  <2>3. ASSUME NEW v \in Sub, NEW l \in Key, l \notin subscribed'[v]
        PROVE  pause'[v][l] = 0 /\ delay'[v][l] = DefaultRepeatDelay
    <3>1. (v = u /\ l = k) \/ l \notin subscribed[v]
      BY <2>1, <2>3 DEF TypeOK
    <3>2. /\ pause'[v][l] = IF v = u /\ l = k THEN 0 ELSE pause[v][l]
          /\ delay'[v][l] = IF v = u /\ l = k THEN DefaultRepeatDelay ELSE delay[v][l]
      BY <2>1 DEF Set, TypeOK
    <3> QED
      BY <3>1, <3>2 DEF TypeOK
  <2> QED
    BY <1>12, <2>2, <2>3 DEF Unsubscribe, TypeOK
<1>13. ASSUME NEW u \in Sub, NEW k \in Key, NEW n \in PauseLength, Pause(u, k, n)
       PROVE  TypeOK'
  <2>1. /\ pause' \in [Sub -> [Key -> Nat]] /\ asked' \in [Sub -> [Key -> Nat]]
        /\ cooldown' \in [Sub -> [Key -> Nat]]
        /\ \A v \in Sub, l \in Key : (v = u /\ l = k) \/ pause'[v][l] = pause[v][l]
    <3>1. /\ pause' = Set(pause, u, k, n) /\ asked' = Set(asked, u, k, n)
          /\ cooldown' = Set(cooldown, u, k, 0)
      BY <1>13 DEF Pause, Touch
    <3>2. n \in Nat
      OBVIOUS
    <3>3. /\ pause \in [Sub -> [Key -> Nat]] /\ asked \in [Sub -> [Key -> Nat]]
          /\ cooldown \in [Sub -> [Key -> Nat]]
      BY DEF TypeOK
    <3> QED
      BY <3>1, <3>2, <3>3 DEF Set
  <2>2. /\ k \in subscribed[u] /\ UNCHANGED <<subscribed, delay, event, call>>
        /\ crossed' \subseteq crossed \cup {<<u, k>>}
    BY <1>13 DEF Pause
  <2> QED
    BY <2>1, <2>2 DEF TypeOK
<1>14. ASSUME NEW u \in Sub, NEW k \in Key, NEW n \in Delay, SetDelay(u, k, n)
       PROVE  TypeOK'
  <2>1. /\ cooldown' \in [Sub -> [Key -> Nat]]
        /\ delay' \in [Sub -> [Key -> Delay \cup {DefaultRepeatDelay}]]
        /\ \A v \in Sub, l \in Key : (v = u /\ l = k) \/ delay'[v][l] = delay[v][l]
    <3>1. delay' = Set(delay, u, k, n) /\ cooldown' = Set(cooldown, u, k, 0)
      BY <1>14 DEF SetDelay, Touch
    <3>2. cooldown \in [Sub -> [Key -> Nat]]
      BY DEF TypeOK
    <3> QED
      BY <3>1, <3>2 DEF Set, TypeOK
  <2> QED
    BY <1>14, <2>1 DEF SetDelay, TypeOK
<1> QED
  BY <1>1, <1>2, <1>3, <1>4, <1>5, <1>6, <1>7, <1>8, <1>9, <1>10, <1>11, <1>12, <1>13,
     <1>14 DEF Next

-----------------------------------------------------------------------------
(* Pauses are kept *)

(* HoldInv, with what it says of the goroutine alone set apart. *)
EventInv(e) ==
  /\ e.pc \in {"send", "pause", "picked"} => e.todo \subseteq Recipients(e.due)
  /\ Camera \notin e.keys => \A u \in Sub : e.due[u] # {} => e.due[u] = e.keys
  /\ \A u \in Sub : e.due[u] \subseteq e.keys
  /\ e.pc \in {"capture", "picked"} => Camera \in e.keys

LEMMA HoldParts ==
  HoldInv <=> /\ EventInv(event)
              /\ \A u \in Sub, k \in Key : AboutToHold(u, k) => Harmless(u, k)
BY DEF HoldInv, EventInv

LEMMA IdleInv == EventInv(Idle)
BY DEF EventInv, Idle, NoKeys

(* A step of the goroutine that leaves pauses alone, or sets one it may. *)
LEMMA GoesOn ==
  ASSUME TypeOK, TypeOK', HoldInv, PauseKept, UNCHANGED <<asked, crossed>>,
         EventInv(event'),
         \A u \in Sub, k \in Key : AboutToHold(u, k)' => AboutToHold(u, k) \/ Harmless(u, k),
         \A u \in Sub, k \in Key : pause'[u][k] = pause[u][k] \/ Harmless(u, k)
  PROVE  HoldInv' /\ PauseKept'
<1>1. EventInv(event)'
  BY DEF EventInv, Recipients
<1>2. ASSUME NEW u \in Sub, NEW k \in Key, AboutToHold(u, k)' PROVE Harmless(u, k)'
  <2>1. Harmless(u, k)
    BY <1>2 DEF HoldInv
  <2> QED
    BY <2>1 DEF Harmless
<1>3. ASSUME NEW u \in Sub, NEW k \in Key
      PROVE  asked'[u][k] <= pause'[u][k] \/ <<u, k>> \in crossed'
  <2>2. pause'[u][k] \in Nat
    BY DEF TypeOK
  <2>3. CASE Harmless(u, k)
    BY <2>2, <2>3 DEF Harmless
  <2>4. CASE pause'[u][k] = pause[u][k]
    BY <2>4 DEF PauseKept
  <2> QED
    BY <2>3, <2>4
<1> QED
  BY <1>1, <1>2, <1>3 DEF HoldInv, EventInv, PauseKept

LEMMA ActiveHarmless ==
  ASSUME TypeOK, PauseKept, NEW u \in Sub, NEW k \in Key, Active(u, k)
  PROVE  Harmless(u, k)
BY DEF TypeOK, PauseKept, Active, Harmless

(* A step of another goroutine. *)
LEMMA LeftAlone ==
  ASSUME HoldInv, PauseKept, UNCHANGED <<asked, crossed, event, pause>>
  PROVE  HoldInv' /\ PauseKept'
BY DEF HoldInv, PauseKept, AboutToHold, Harmless, Recipients

LEMMA NextSubscriberInv ==
  ASSUME TypeOK, HoldInv, NEW todo \in SUBSET Sub, NextSubscriber(todo),
         todo \subseteq Recipients(event.due)
  PROVE  /\ EventInv(event')
         /\ \A u \in Sub, k \in Key : AboutToHold(u, k)' =>
              Camera \notin event.keys /\ u \in todo /\ k \in event.keys
<1>1. EventInv(event) /\ event \in EventState
  BY HoldParts DEF TypeOK
<1>2. CASE todo = {}
  <2>1. event' = Idle
    BY <1>2 DEF NextSubscriber
  <2> QED
    BY <2>1, IdleInv DEF AboutToHold, Idle
<1>3. CASE todo # {}
  <2>1. event' = [event EXCEPT !.pc = "pause", !.todo = todo, !.to = {}]
    BY <1>3 DEF NextSubscriber
  <2>2. /\ event'.pc = "pause" /\ event'.todo = todo /\ event'.keys = event.keys
        /\ event'.due = event.due
    BY <1>1, <2>1 DEF EventState
  <2>3. EventInv(event')
    BY <1>1, <2>2 DEF EventInv
  <2> QED
    BY <2>2, <2>3 DEF AboutToHold
<1> QED
  BY <1>2, <1>3

LEMMA HoldStep == TypeOK /\ HoldInv /\ PauseKept /\ [Next]_vars => HoldInv' /\ PauseKept'
<1> SUFFICES ASSUME TypeOK, HoldInv, PauseKept, [Next]_vars PROVE HoldInv' /\ PauseKept'
  OBVIOUS
<1>0. /\ TypeOK' /\ EventInv(event) /\ event \in EventState
      /\ event.keys \in SUBSET Key /\ event.todo \in SUBSET Sub
  BY TypeStep, HoldParts DEF TypeOK, EventState
<1>1. CASE UNCHANGED vars
  BY <1>1, LeftAlone DEF vars
<1>2. ASSUME CameraMotion PROVE HoldInv' /\ PauseKept'
  <2>1. PICK classes \in SUBSET Class :
          event' = [Idle EXCEPT !.pc = "capture", !.keys = {Camera} \cup classes,
                                !.due = ReachedBy({Camera} \cup classes)]
    BY <1>2 DEF CameraMotion, ClassesFromReasons, NotifyKeys
  <2>2. /\ event'.pc = "capture" /\ event'.keys = {Camera} \cup classes
        /\ event'.due = ReachedBy({Camera} \cup classes)
    BY <2>1 DEF Idle
  <2>3. {Camera} \cup classes \in SUBSET Key
    BY KeyKinds
  <2>4. EventInv(event')
    BY <2>2, <2>3, ReachedType DEF EventInv
  <2>5. \A u \in Sub, k \in Key : ~AboutToHold(u, k)'
    BY <2>2 DEF AboutToHold
  <2> QED
    BY <1>0, <1>2, <2>4, <2>5, GoesOn DEF CameraMotion, UNCHANGEDSubscriptions
<1>3. ASSUME SystemHappens PROVE HoldInv' /\ PauseKept'
  <2>1. PICK l \in SystemEvent :
          event' = [Idle EXCEPT !.pc = "send", !.keys = {l}, !.due = ReachedBy({l}),
                                !.todo = Recipients(ReachedBy({l}))]
    BY <1>3 DEF SystemHappens
  <2>2. /\ event'.pc = "send" /\ event'.keys = {l} /\ event'.due = ReachedBy({l})
        /\ event'.todo = Recipients(ReachedBy({l}))
    BY <2>1 DEF Idle
  <2>3. /\ \A u \in Sub : ReachedBy({l})[u] \subseteq {l}
        /\ \A u \in Sub : ReachedBy({l})[u] # {} => Active(u, l) /\ ReachedBy({l})[u] = {l}
    BY DEF ReachedBy
  <2>4. EventInv(event')
    BY <2>2, <2>3 DEF EventInv
  <2>5. ASSUME NEW u \in Sub, NEW k \in Key, AboutToHold(u, k)' PROVE Harmless(u, k)
    <3>1. k = l /\ u \in Recipients(event'.due)
      BY <2>2, <2>5 DEF AboutToHold
    <3>2. Active(u, k)
      BY <2>2, <2>3, <3>1 DEF Recipients
    <3> QED
      BY <3>2, ActiveHarmless
  <2> QED
    BY <1>0, <1>3, <2>4, <2>5, GoesOn DEF SystemHappens, UNCHANGEDSubscriptions
<1>4. ASSUME SaveVideo PROVE HoldInv' /\ PauseKept'
  <2>1. CASE event' = Idle
    <3>1. EventInv(event') /\ \A u \in Sub, k \in Key : ~AboutToHold(u, k)'
      BY <2>1, IdleInv DEF AboutToHold, Idle
    <3> QED
      BY <1>0, <1>4, <3>1, GoesOn DEF SaveVideo, UNCHANGEDSubscriptions
  <2>2. CASE event' = [event EXCEPT !.pc = "send", !.todo = Recipients(event.due)]
    <3>1. /\ event'.pc = "send" /\ event'.todo = Recipients(event.due)
          /\ event'.keys = event.keys /\ event'.due = event.due
      BY <1>0, <2>2 DEF EventState
    <3>2. Camera \in event.keys
      BY <1>0, <1>4 DEF SaveVideo, EventInv
    <3>3. EventInv(event') /\ \A u \in Sub, k \in Key : ~AboutToHold(u, k)'
      BY <1>0, <3>1, <3>2 DEF EventInv, AboutToHold
    <3> QED
      BY <1>0, <1>4, <3>3, GoesOn DEF SaveVideo, UNCHANGEDSubscriptions
  <2> QED
    BY <1>4, <2>1, <2>2 DEF SaveVideo
<1>5. ASSUME Tick PROVE HoldInv' /\ PauseKept'
  <2>1. \A u \in Sub, k \in Key :
          /\ asked'[u][k] = IF asked[u][k] = 0 THEN 0 ELSE asked[u][k] - 1
          /\ pause'[u][k] = IF pause[u][k] = 0 THEN 0 ELSE pause[u][k] - 1
          /\ asked[u][k] \in Nat /\ pause[u][k] \in Nat
    BY <1>5, LessType DEF Tick, TypeOK
  <2>2. ASSUME NEW u \in Sub, NEW k \in Key, <<u, k>> \in crossed
        PROVE  asked'[u][k] = 0 \/ <<u, k>> \in crossed'
    BY <1>5, <2>1, <2>2 DEF Tick
  <2>3. ASSUME NEW u \in Sub, NEW k \in Key, Harmless(u, k) PROVE Harmless(u, k)'
    BY <2>1, <2>2, <2>3 DEF Harmless
  <2>4. ASSUME NEW u \in Sub, NEW k \in Key
        PROVE  asked'[u][k] <= pause'[u][k] \/ <<u, k>> \in crossed'
    BY <2>1, <2>2 DEF PauseKept
  <2>5. event' = event
    BY <1>5 DEF Tick
  <2> QED
    BY <2>3, <2>4, <2>5 DEF HoldInv, PauseKept, AboutToHold, Recipients
<1>6. ASSUME NEW v \in Sub, Deliver(v) PROVE HoldInv' /\ PauseKept'
  <2>1. /\ event'.keys = event.keys /\ event'.due = event.due
        /\ \/ event'.pc = "pause" /\ event'.todo = Recipients(event.due)
           \/ event'.pc = "send" /\ event'.todo = event.todo \ {v}
        /\ event.pc = "send"
    BY <1>0, <1>6 DEF Deliver, EventState
  <2>2. EventInv(event')
    BY <1>0, <2>1 DEF EventInv
  <2>3. \A u \in Sub, k \in Key : AboutToHold(u, k)' => AboutToHold(u, k)
    BY <2>1 DEF AboutToHold
  <2> QED
    BY <1>0, <1>6, <2>2, <2>3, GoesOn DEF Deliver
<1>7. ASSUME NEW v \in Sub, Pick(v) PROVE HoldInv' /\ PauseKept'
  <2> DEFINE keys == ActiveKeysAmong(v, event.keys)
  <2>1. event.pc = "pause" /\ event.todo \subseteq Recipients(event.due)
        /\ UNCHANGED <<asked, crossed, pause>> /\ Camera \in event.keys
    BY <1>0, <1>7 DEF Pick, EventInv, UNCHANGEDSubscriptions
  <2>2. CASE keys = {}
    <3>1. NextSubscriber(event.todo \ {v})
      BY <1>7, <2>2 DEF Pick
    <3>2. event.todo \ {v} \in SUBSET Sub /\ event.todo \ {v} \subseteq Recipients(event.due)
      BY <1>0, <2>1
    <3>3. EventInv(event') /\ \A u \in Sub, k \in Key : ~AboutToHold(u, k)'
      BY <2>1, <3>1, <3>2, NextSubscriberInv
    <3> QED
      BY <1>0, <2>1, <3>3, GoesOn
  <2>3. CASE keys # {}
    <3>1. /\ event'.pc = "picked" /\ event'.to = {v} \X keys /\ event'.keys = event.keys
          /\ event'.due = event.due /\ event'.todo \subseteq event.todo
      BY <1>0, <1>7, <2>3 DEF Pick, EventState
    <3>2. EventInv(event')
      BY <1>0, <2>1, <3>1 DEF EventInv
    <3>3. ASSUME NEW u \in Sub, NEW k \in Key, AboutToHold(u, k)' PROVE Harmless(u, k)
      <4>1. u = v /\ k \in keys
        BY <3>1, <3>3 DEF AboutToHold
      <4> QED
        BY <4>1, ActiveHarmless DEF ActiveKeysAmong
    <3> QED
      BY <1>0, <2>1, <3>2, <3>3, GoesOn
  <2> QED
    BY <2>2, <2>3
<1>8. ASSUME NEW v \in Sub, NEW l \in Key, HoldPicked(v, l) PROVE HoldInv' /\ PauseKept'
  <2>1. /\ event.pc = "picked" /\ <<v, l>> \in event.to /\ Camera \in event.keys
        /\ UNCHANGED <<asked, crossed>>
    BY <1>0, <1>8 DEF HoldPicked, EventInv
  <2>2. Harmless(v, l)
    BY <2>1 DEF HoldInv, AboutToHold
  <2>3. \A u \in Sub, k \in Key : pause'[u][k] = pause[u][k] \/ Harmless(u, k)
    BY <1>8, <2>2, PauseKeyType DEF HoldPicked
  <2>4. CASE event.to = {<<v, l>>}
    <3>1. event' = Idle \/ event' = [event EXCEPT !.pc = "pause", !.to = {}, !.todo = event.todo]
      BY <1>8, <2>4 DEF HoldPicked, NextSubscriber
    <3>2. CASE event' = Idle
      <4>1. EventInv(event') /\ \A u \in Sub, k \in Key : ~AboutToHold(u, k)'
        BY <3>2, IdleInv DEF AboutToHold, Idle
      <4> QED
        BY <1>0, <2>1, <2>3, <4>1, GoesOn
    <3>3. CASE event' = [event EXCEPT !.pc = "pause", !.to = {}, !.todo = event.todo]
      <4>1. /\ event'.pc = "pause" /\ event'.keys = event.keys /\ event'.due = event.due
            /\ event'.todo = event.todo
        BY <1>0, <3>3 DEF EventState
      <4>2. event.todo \subseteq Recipients(event.due)
        BY <1>0, <2>1 DEF EventInv
      <4>3. EventInv(event') /\ \A u \in Sub, k \in Key : ~AboutToHold(u, k)'
        BY <1>0, <2>1, <4>1, <4>2 DEF EventInv, AboutToHold
      <4> QED
        BY <1>0, <2>1, <2>3, <4>3, GoesOn
    <3> QED
      BY <3>1, <3>2, <3>3
  <2>5. CASE event.to # {<<v, l>>}
    <3>1. /\ event'.pc = "picked" /\ event'.keys = event.keys /\ event'.due = event.due
          /\ event'.to \subseteq event.to /\ event'.todo = event.todo
      BY <1>0, <1>8, <2>1, <2>5 DEF HoldPicked, EventState
    <3>2. EventInv(event')
      BY <1>0, <2>1, <3>1 DEF EventInv
    <3>3. \A u \in Sub, k \in Key : AboutToHold(u, k)' => AboutToHold(u, k)
      BY <2>1, <3>1 DEF AboutToHold
    <3> QED
      BY <1>0, <2>1, <2>3, <3>2, <3>3, GoesOn
  <2> QED
    BY <2>4, <2>5
<1>9. ASSUME NEW v \in Sub, NEW l \in Key, HoldSystem(v, l) PROVE HoldInv' /\ PauseKept'
  <2>1. /\ event.pc = "pause" /\ Camera \notin event.keys /\ v \in event.todo
        /\ l \in event.keys /\ UNCHANGED <<asked, crossed>>
        /\ event.todo \subseteq Recipients(event.due)
    BY <1>0, <1>9 DEF HoldSystem, EventInv
  <2>2. Harmless(v, l)
    BY <2>1 DEF HoldInv, AboutToHold
  <2>3. \A u \in Sub, k \in Key : pause'[u][k] = pause[u][k] \/ Harmless(u, k)
    BY <1>9, <2>2, PauseKeyType DEF HoldSystem
  <2>4. NextSubscriber(event.todo \ {v}) /\ event.todo \ {v} \in SUBSET Sub
        /\ event.todo \ {v} \subseteq Recipients(event.due)
    BY <1>0, <1>9, <2>1 DEF HoldSystem
  <2>5. EventInv(event')
        /\ \A u \in Sub, k \in Key : AboutToHold(u, k)' => AboutToHold(u, k)
    BY <2>1, <2>4, NextSubscriberInv DEF AboutToHold
  <2> QED
    BY <1>0, <2>1, <2>3, <2>5, GoesOn
<1>10. ASSUME NEW c \in Call, Notify(c) PROVE HoldInv' /\ PauseKept'
  BY <1>10, LeftAlone DEF Notify, UNCHANGEDSubscriptions
<1>11. ASSUME NEW c \in Call, NEW u \in Sub, NotifyOne(c, u) PROVE HoldInv' /\ PauseKept'
  BY <1>11, LeftAlone DEF NotifyOne
<1>12. ASSUME NEW u \in Sub, NEW k \in Key, Subscribe(u, k) PROVE HoldInv' /\ PauseKept'
  BY <1>12, LeftAlone DEF Subscribe
<1>13. ASSUME NEW u \in Sub, NEW k \in Key, NEW n \in Delay, SetDelay(u, k, n)
       PROVE  HoldInv' /\ PauseKept'
  BY <1>13, LeftAlone DEF SetDelay
<1>14. ASSUME NEW v \in Sub, NEW l \in Key, NEW n \in Nat,
              asked' = Set(asked, v, l, n), pause' = Set(pause, v, l, n), event' = event,
              crossed \ {<<v, l>>} \subseteq crossed',
              AboutToHold(v, l) => n = 0 \/ <<v, l>> \in crossed'
       PROVE  HoldInv' /\ PauseKept'
  <2>1. \A u \in Sub, k \in Key :
          /\ asked'[u][k] = IF u = v /\ k = l THEN n ELSE asked[u][k]
          /\ pause'[u][k] = IF u = v /\ k = l THEN n ELSE pause[u][k]
    BY <1>14 DEF Set, TypeOK
  <2>2. \A u \in Sub, k \in Key : AboutToHold(u, k)' <=> AboutToHold(u, k)
    BY <1>14 DEF AboutToHold, Recipients
  <2>3. ASSUME NEW u \in Sub, NEW k \in Key, AboutToHold(u, k)' PROVE Harmless(u, k)'
    BY <1>14, <2>1, <2>2, <2>3 DEF HoldInv, Harmless
  <2>4. ASSUME NEW u \in Sub, NEW k \in Key
        PROVE  asked'[u][k] <= pause'[u][k] \/ <<u, k>> \in crossed'
    BY <1>14, <2>1 DEF PauseKept
  <2>5. EventInv(event)'
    BY <1>0, <1>14 DEF EventInv, Recipients
  <2> QED
    BY <2>3, <2>4, <2>5 DEF HoldInv, EventInv, PauseKept
<1>15. ASSUME NEW u \in Sub, NEW k \in Key, Unsubscribe(u, k) PROVE HoldInv' /\ PauseKept'
  BY <1>14, <1>15 DEF Unsubscribe
<1>16. ASSUME NEW u \in Sub, NEW k \in Key, NEW n \in PauseLength, Pause(u, k, n)
       PROVE  HoldInv' /\ PauseKept'
  <2>1. n \in Nat
    OBVIOUS
  <2>2. /\ asked' = Set(asked, u, k, n) /\ pause' = Set(pause, u, k, n) /\ event' = event
        /\ crossed \ {<<u, k>>} \subseteq crossed'
    BY <1>16 DEF Pause
  <2>3. AboutToHold(u, k) => n = 0 \/ <<u, k>> \in crossed'
    BY <1>16, <2>1 DEF Pause
  <2> QED
    BY <1>14, <2>1, <2>2, <2>3
<1> QED
  BY <1>1, <1>2, <1>3, <1>4, <1>5, <1>6, <1>7, <1>8, <1>9, <1>10, <1>11, <1>12, <1>13,
     <1>15, <1>16 DEF Next

-----------------------------------------------------------------------------
(* The theorems *)

LEMMA InitIInv == Init => IInv
<1> SUFFICES ASSUME Init PROVE IInv
  OBVIOUS
<1>1. TypeOK
  BY IdleType DEF Init, TypeOK, CallState, NoKeys
<1>2. HoldInv
  BY IdleInv, HoldParts DEF Init, AboutToHold, Idle
<1>3. PauseKept
  BY DEF Init, PauseKept
<1> QED
  BY <1>1, <1>2, <1>3 DEF IInv

(* The strengthened invariant holds of every run. *)
THEOREM Invariant == Spec => []IInv
<1>1. IInv /\ [Next]_vars => IInv'
  BY TypeStep, HoldStep DEF IInv
<1> QED
  BY InitIInv, <1>1, PTL DEF Spec

(* Subscriptions, pauses and goroutines keep their types; only a            *)
(* subscription has a pause or a delay of its own.                          *)
THEOREM TypeCorrect == Spec => []TypeOK
<1>1. IInv => TypeOK
  BY DEF IInv
<1> QED
  BY Invariant, <1>1, PTL

(* No message of the stream cuts short a pause its subscriber asked for     *)
(* before the goroutine was about to pause that key.                        *)
THEOREM PausesAreKept == Spec => []PauseKept
<1>1. IInv => PauseKept
  BY DEF IInv
<1> QED
  BY Invariant, <1>1, PTL

-----------------------------------------------------------------------------
(* Repeat delays *)

(* The goroutine has told u by k, and is yet to pause k. *)
Owed(u, k) ==
  /\ k \in event.due[u]
  /\ \/ event.pc = "send" /\ u \notin event.todo
     \/ event.pc = "pause" /\ u \in event.todo
     \/ event.pc = "picked" /\ (u \in event.todo \/ <<u, k>> \in event.to)

(* The goroutine has yet to tell u. *)
Untold(u) == event.pc = "capture" \/ (event.pc = "send" /\ u \in event.todo)

(* The keys of the stream are not those of HTTP notifications, and a system *)
(* event has one.                                                           *)
KeysInv ==
  /\ event.keys \cap NotifyEvent = {}
  /\ Camera \notin event.keys => \A k, l \in event.keys : k = l
  /\ \A c \in Call, u \in Sub : call[c].due[u] \subseteq NotifyEvent

(* What is left of a delay is covered by the pause, or by the one that is   *)
(* yet to be set; a subscriber who is yet to be told has none left.         *)
Covered(u, k) ==
  \/ cooldown[u][k] <= pause[u][k]
  \/ Owed(u, k) /\ Active(u, k)

CoolInv ==
  /\ \A u \in Sub : \A k \in event.due[u] : Untold(u) => cooldown[u][k] = 0
  /\ \A u \in Sub, k \in Key \ NotifyEvent : Covered(u, k)
  /\ \A u \in Sub, k \in Key : cooldown[u][k] <= delay[u][k]

LEMMA KeysStep == TypeOK /\ KeysInv /\ [Next]_vars => KeysInv'
<1> SUFFICES ASSUME TypeOK, KeysInv, [Next]_vars PROVE KeysInv'
  OBVIOUS
<1>1. CASE UNCHANGED <<event, call>>
  BY <1>1 DEF KeysInv
<1>2. ASSUME UNCHANGED call, event'.keys = event.keys PROVE KeysInv'
  BY <1>2 DEF KeysInv
<1>3. ASSUME UNCHANGED call, event' = Idle PROVE KeysInv'
  BY <1>3 DEF KeysInv, Idle
<1>4. event \in EventState /\ call \in [Call -> CallState]
  BY DEF TypeOK
<1>5. CASE CameraMotion
  <2>1. PICK classes \in SUBSET Class :
          event' = [Idle EXCEPT !.pc = "capture", !.keys = {Camera} \cup classes,
                                !.due = ReachedBy({Camera} \cup classes)]
    BY <1>5 DEF CameraMotion, ClassesFromReasons, NotifyKeys
  <2>2. event'.keys = {Camera} \cup classes
    BY <2>1 DEF Idle
  <2> QED
    BY <1>5, <2>2 DEF CameraMotion, KeysInv
<1>6. CASE SystemHappens
  <2>1. PICK k \in SystemEvent :
          event' = [Idle EXCEPT !.pc = "send", !.keys = {k}, !.due = ReachedBy({k}),
                                !.todo = Recipients(ReachedBy({k}))]
    BY <1>6 DEF SystemHappens
  <2>2. event'.keys = {k}
    BY <2>1 DEF Idle
  <2> QED
    BY <1>6, <2>2 DEF SystemHappens, KeysInv
<1>7. CASE SaveVideo \/ \E u \in Sub : Deliver(u)
  BY <1>2, <1>3, <1>4, <1>7 DEF SaveVideo, Deliver, EventState
<1>8. ASSUME NEW todo, NextSubscriber(todo), UNCHANGED call PROVE KeysInv'
  BY <1>2, <1>3, <1>4, <1>8 DEF NextSubscriber, EventState
<1>9. CASE \E u \in Sub : Pick(u)
  BY <1>2, <1>4, <1>8, <1>9 DEF Pick, EventState
<1>10. CASE \E u \in Sub, k \in Key : HoldPicked(u, k) \/ HoldSystem(u, k)
  BY <1>2, <1>4, <1>8, <1>10 DEF HoldPicked, HoldSystem, EventState
<1>11. ASSUME NEW c \in Call, Notify(c) PROVE KeysInv'
  <2>1. PICK k \in NotifyEvent : call' = [call EXCEPT ![c].due = ReachedBy({k})]
    BY <1>11 DEF Notify
  <2>2. \A u \in Sub : ReachedBy({k})[u] \subseteq NotifyEvent
    BY DEF ReachedBy
  <2>3. \A d \in Call, u \in Sub : call'[d].due[u] \subseteq NotifyEvent
    <3> TAKE d \in Call, u \in Sub
    <3>1. CASE d = c
      BY <1>4, <2>1, <2>2, <3>1 DEF CallState
    <3>2. CASE d # c
      BY <1>4, <2>1, <3>2 DEF KeysInv
    <3> QED
      BY <3>1, <3>2
  <2> QED
    BY <1>11, <2>3 DEF Notify, KeysInv
<1>12. ASSUME NEW c \in Call, NEW u \in Sub, NotifyOne(c, u) PROVE KeysInv'
  <2>1. \A d \in Call, v \in Sub : call'[d].due[v] \in {{}, call[d].due[v]}
    BY <1>4, <1>12 DEF NotifyOne, CallState
  <2> QED
    BY <1>12, <2>1 DEF NotifyOne, KeysInv
<1> QED
  BY <1>1, <1>5, <1>6, <1>7, <1>9, <1>10, <1>11, <1>12
  DEF Next, vars, Tick, Subscribe, Unsubscribe, Pause, SetDelay

(* A step of the goroutine that sets no pause and tells nobody. *)
LEMMA CoolsOn ==
  ASSUME CoolInv, UNCHANGED <<subscribed, pause, delay, cooldown>>,
         \A u \in Sub : \A k \in event'.due[u] : Untold(u)' => cooldown[u][k] = 0,
         \A u \in Sub, k \in Key : Owed(u, k) /\ Active(u, k) => Owed(u, k)'
  PROVE  CoolInv'
BY DEF CoolInv, Covered, Active

(* What a subscriber touches has no delay left. *)
LEMMA CoolTouched ==
  ASSUME TypeOK, TypeOK', CoolInv, NEW u \in Sub, NEW k \in Key, Touch(u, k), UNCHANGED event,
         \A v \in Sub, l \in Key : (v = u /\ l = k) \/
           /\ pause'[v][l] = pause[v][l] /\ delay'[v][l] = delay[v][l]
           /\ l \in subscribed[v] => l \in subscribed'[v]
  PROVE  CoolInv'
<1>1. \A v \in Sub, l \in Key :
        cooldown'[v][l] = IF v = u /\ l = k THEN 0 ELSE cooldown[v][l]
  <2>1. cooldown \in [Sub -> [Key -> Nat]] /\ cooldown' = Set(cooldown, u, k, 0)
    BY DEF Touch, TypeOK
  <2>2. \A v \in Sub, l \in Key :
          Set(cooldown, u, k, 0)[v][l] = IF v = u /\ l = k THEN 0 ELSE cooldown[v][l]
    BY <2>1 DEF Set
  <2> QED
    BY <2>1, <2>2
<1>2. \A v \in Sub : event.due[v] \subseteq Key
  BY DEF TypeOK, EventState
<1>3. ASSUME NEW v \in Sub, NEW l \in event.due[v], Untold(v)' PROVE cooldown'[v][l] = 0
  BY <1>1, <1>2, <1>3 DEF CoolInv, Untold
<1>4. ASSUME NEW v \in Sub, NEW l \in Key \ NotifyEvent PROVE Covered(v, l)'
  <2>1. CASE v = u /\ l = k
    <3>1. cooldown'[v][l] = 0 /\ pause'[v][l] \in Nat
      BY <1>1, <2>1 DEF TypeOK
    <3> QED
      BY <3>1 DEF Covered
  <2>2. CASE ~(v = u /\ l = k)
    <3>1. Covered(v, l) /\ cooldown'[v][l] = cooldown[v][l]
      BY <1>1, <2>2 DEF CoolInv
    <3> QED
      BY <2>2, <3>1 DEF Covered, Owed, Active
  <2> QED
    BY <2>1, <2>2
<1>5. ASSUME NEW v \in Sub, NEW l \in Key PROVE cooldown'[v][l] <= delay'[v][l]
  <2>1. cooldown[v][l] <= delay[v][l] /\ delay'[v][l] \in Nat
    BY DEF CoolInv, TypeOK
  <2> QED
    BY <1>1, <2>1
<1> QED
  BY <1>3, <1>4, <1>5 DEF CoolInv

(* A message starts the delays of the keys it was due to and that are       *)
(* active still.                                                            *)
LEMMA CoolingValue ==
  ASSUME TypeOK, NEW u \in Sub, NEW due, Cooling(u, due)
  PROVE  \A v \in Sub, l \in Key :
           cooldown'[v][l] = IF v = u /\ l \in due /\ Active(u, l) THEN delay[u][l]
                             ELSE cooldown[v][l]
BY DEF TypeOK, Cooling

LEMMA CoolDeliver ==
  ASSUME TypeOK, HoldInv, CoolInv, NEW u \in Sub, Deliver(u)
  PROVE  CoolInv'
<1>1. /\ event \in EventState /\ event.pc = "send" /\ u \in event.todo
      /\ event.todo \subseteq Recipients(event.due)
      /\ event' = IF event.todo = {u}
                  THEN [event EXCEPT !.pc = "pause", !.todo = Recipients(event.due)]
                  ELSE [event EXCEPT !.todo = @ \ {u}]
      /\ UNCHANGED <<subscribed, pause, delay>>
  BY DEF TypeOK, Deliver, HoldInv
<1>2. /\ event'.due = event.due
      /\ \/ event'.pc = "pause" /\ event.todo = {u} /\ event'.todo = Recipients(event.due)
         \/ event'.pc = "send" /\ event'.todo = event.todo \ {u}
  BY <1>1 DEF EventState
<1>3. \A v \in Sub, l \in Key :
        cooldown'[v][l] = IF v = u /\ l \in event.due[u] /\ Active(u, l) THEN delay[u][l]
                          ELSE cooldown[v][l]
  BY CoolingValue DEF Deliver
<1>4. \A v \in Sub : event.due[v] \subseteq Key
  BY <1>1 DEF EventState
<1>5. ASSUME NEW v \in Sub, NEW l \in event'.due[v], Untold(v)' PROVE cooldown'[v][l] = 0
  BY <1>1, <1>2, <1>3, <1>4, <1>5 DEF CoolInv, Untold
<1>6. \A v \in Sub : \A l \in event.due[v] : (Owed(v, l) \/ v = u) => Owed(v, l)'
  BY <1>1, <1>2 DEF Owed, Recipients
<1>7. ASSUME NEW v \in Sub, NEW l \in Key \ NotifyEvent PROVE Covered(v, l)'
  <2>1. CASE v = u /\ l \in event.due[u] /\ Active(u, l)
    <3>1. cooldown'[v][l] = delay[v][l] /\ delay[v][l] \in Nat
      BY <1>3, <2>1 DEF TypeOK
    <3> QED
      BY <1>1, <1>6, <2>1, <3>1 DEF Covered, Active
  <2>2. CASE ~(v = u /\ l \in event.due[u] /\ Active(u, l))
    <3>1. Covered(v, l) /\ cooldown'[v][l] = cooldown[v][l]
      BY <1>3, <2>2 DEF CoolInv
    <3>2. Owed(v, l) => Owed(v, l)'
      BY <1>6 DEF Owed
    <3> QED
      BY <1>1, <3>1, <3>2 DEF Covered, Active
  <2> QED
    BY <2>1, <2>2
<1>8. \A v \in Sub, l \in Key : cooldown'[v][l] <= delay'[v][l]
  <2>1. \A v \in Sub, l \in Key : delay[v][l] \in Nat /\ cooldown[v][l] <= delay[v][l]
    BY DEF TypeOK, CoolInv
  <2> QED
    BY <1>1, <1>3, <2>1
<1> QED
  BY <1>5, <1>7, <1>8 DEF CoolInv

(* The pause that is set covers the delay. *)
LEMMA CoolPaused ==
  ASSUME TypeOK, CoolInv, NEW u \in Sub, NEW k \in Key, PauseKey(u, k, RepeatDelay(u, k)),
         UNCHANGED <<subscribed, delay, cooldown>>,
         \A v \in Sub : ~Untold(v)',
         \A v \in Sub, l \in Key :
           Owed(v, l) /\ Active(v, l) => (v = u /\ l = k) \/ Owed(v, l)'
  PROVE  CoolInv'
<1>1. \A v \in Sub, l \in Key :
        pause'[v][l] = IF v = u /\ l = k /\ k \in subscribed[u] THEN delay[u][k]
                       ELSE pause[v][l]
  <2>1. delay[u][k] \in Nat /\ pause \in [Sub -> [Key -> Nat]]
    BY DEF TypeOK
  <2>2. CASE k \in subscribed[u]
    <3>1. pause' = Set(pause, u, k, delay[u][k])
      BY <2>2 DEF PauseKey, RepeatDelay
    <3>2. \A v \in Sub, l \in Key :
            Set(pause, u, k, delay[u][k])[v][l] =
              IF v = u /\ l = k THEN delay[u][k] ELSE pause[v][l]
      BY <2>1 DEF Set
    <3> QED
      BY <2>2, <3>1, <3>2
  <2>3. CASE k \notin subscribed[u]
    BY <2>3 DEF PauseKey
  <2> QED
    BY <2>2, <2>3
<1>2. \A v \in Sub, l \in Key :
        /\ pause[v][l] \in Nat /\ cooldown[v][l] \in Nat /\ delay[v][l] \in Nat
        /\ l \notin subscribed[v] => pause[v][l] = 0
  BY DEF TypeOK
<1>3. ASSUME NEW v \in Sub, NEW l \in Key \ NotifyEvent PROVE Covered(v, l)'
  <2>1. Covered(v, l)
    BY DEF CoolInv
  <2>2. CASE v = u /\ l = k /\ k \in subscribed[u]
    BY <1>1, <2>2 DEF Covered, CoolInv
  <2>3. CASE ~(v = u /\ l = k /\ k \in subscribed[u])
    BY <1>1, <2>1, <2>3 DEF Covered, Active
  <2> QED
    BY <2>2, <2>3
<1> QED
  BY <1>3 DEF CoolInv

(* Whoever is next, those the goroutine is yet to pause stay owed. *)
LEMMA OwedNext ==
  ASSUME TypeOK, NEW todo \in SUBSET Sub, NextSubscriber(todo)
  PROVE  /\ \A u \in Sub : ~Untold(u)'
         /\ \A u \in todo, k \in Key : k \in event.due[u] => Owed(u, k)'
<1>1. CASE todo = {}
  BY <1>1 DEF NextSubscriber, Idle, Untold
<1>2. CASE todo # {}
  BY <1>2 DEF NextSubscriber, Untold, Owed, TypeOK, EventState
<1> QED
  BY <1>1, <1>2

(* From idle nothing is owed; all who are due are yet to be told, and have  *)
(* no delay left.                                                           *)
LEMMA CoolBegins ==
  ASSUME TypeOK, CoolInv, event.pc = "idle", UNCHANGED <<subscribed, pause, delay, cooldown>>,
         NEW keys \in SUBSET (Key \ NotifyEvent), event'.due = ReachedBy(keys)
  PROVE  CoolInv'
<1>1. \A u \in Sub, k \in Key : ~Owed(u, k)
  BY DEF Owed
<1>2. ASSUME NEW u \in Sub, NEW k \in event'.due[u] PROVE cooldown[u][k] = 0
  <2>1. k \in keys /\ Active(u, k) /\ k \in Key
    BY <1>2 DEF ReachedBy
  <2>2. cooldown[u][k] <= pause[u][k] /\ pause[u][k] = 0 /\ cooldown[u][k] \in Nat
    BY <1>1, <2>1 DEF CoolInv, Covered, Active, TypeOK
  <2> QED
    BY <2>2
<1> QED
  BY <1>1, <1>2, CoolsOn

LEMMA CoolStep == TypeOK /\ HoldInv /\ KeysInv /\ CoolInv /\ [Next]_vars => CoolInv'
<1> SUFFICES ASSUME TypeOK, HoldInv, KeysInv, CoolInv, [Next]_vars PROVE CoolInv'
  OBVIOUS
<1>0. /\ TypeOK' /\ event \in EventState /\ event.keys \in SUBSET Key
      /\ event.todo \in SUBSET Sub /\ \A u \in Sub : event.due[u] \subseteq event.keys
  BY TypeStep DEF TypeOK, EventState, HoldInv
<1>1. CASE UNCHANGED vars
  BY <1>1, CoolsOn DEF vars, CoolInv, Untold, Owed
<1>2. CASE CameraMotion
  <2>1. PICK classes \in SUBSET Class :
          event' = [Idle EXCEPT !.pc = "capture", !.keys = {Camera} \cup classes,
                                !.due = ReachedBy({Camera} \cup classes)]
    BY <1>2 DEF CameraMotion, ClassesFromReasons, NotifyKeys
  <2>2. event'.due = ReachedBy({Camera} \cup classes)
    BY <2>1 DEF Idle
  <2>3. {Camera} \cup classes \in SUBSET (Key \ NotifyEvent)
    BY DEF Key
  <2> QED
    BY <1>2, <2>2, <2>3, CoolBegins DEF CameraMotion, UNCHANGEDSubscriptions
<1>3. CASE SystemHappens
  <2>1. PICK k \in SystemEvent :
          event' = [Idle EXCEPT !.pc = "send", !.keys = {k}, !.due = ReachedBy({k}),
                                !.todo = Recipients(ReachedBy({k}))]
    BY <1>3 DEF SystemHappens
  <2>2. event'.due = ReachedBy({k})
    BY <2>1 DEF Idle
  <2>3. {k} \in SUBSET (Key \ NotifyEvent)
    BY DEF Key
  <2> QED
    BY <1>3, <2>2, <2>3, CoolBegins DEF SystemHappens, UNCHANGEDSubscriptions
<1>4. CASE SaveVideo
  <2>1. CASE event' = Idle
    <3>1. \A u \in Sub, k \in Key : ~Owed(u, k)
      BY <1>4 DEF SaveVideo, Owed
    <3>2. \A u \in Sub : ~Untold(u)'
      BY <2>1 DEF Untold, Idle
    <3> QED
      BY <1>4, <3>1, <3>2, CoolsOn DEF SaveVideo, UNCHANGEDSubscriptions
  <2>2. CASE event' = [event EXCEPT !.pc = "send", !.todo = Recipients(event.due)]
    <3>1. event'.due = event.due /\ event.pc = "capture"
      BY <1>0, <1>4, <2>2 DEF SaveVideo, EventState
    <3>2. \A u \in Sub : \A k \in event'.due[u] : cooldown[u][k] = 0
      BY <3>1 DEF CoolInv, Untold
    <3>3. \A u \in Sub, k \in Key : ~Owed(u, k)
      BY <3>1 DEF Owed
    <3> QED
      BY <1>4, <3>2, <3>3, CoolsOn DEF SaveVideo, UNCHANGEDSubscriptions
  <2> QED
    BY <1>4, <2>1, <2>2 DEF SaveVideo
<1>5. ASSUME NEW u \in Sub, Deliver(u) PROVE CoolInv'
  BY <1>5, CoolDeliver
<1>6. ASSUME NEW u \in Sub, Pick(u) PROVE CoolInv'
  <2> DEFINE keys == ActiveKeysAmong(u, event.keys)
  <2>1. event.pc = "pause" /\ u \in event.todo /\ UNCHANGED <<subscribed, pause, delay, cooldown>>
    BY <1>6 DEF Pick, UNCHANGEDSubscriptions
  <2>2. \A k \in Key : Owed(u, k) /\ Active(u, k) => k \in keys
    BY <1>0 DEF Owed, ActiveKeysAmong
  <2>3. CASE keys = {}
    <3>1. NextSubscriber(event.todo \ {u}) /\ event.todo \ {u} \in SUBSET Sub
      BY <1>0, <1>6, <2>3 DEF Pick
    <3>2. \A v \in Sub : ~Untold(v)'
      BY <3>1, OwedNext
    <3>3. \A v \in Sub, k \in Key : Owed(v, k) /\ Active(v, k) => Owed(v, k)'
      BY <2>1, <2>2, <2>3, <3>1, OwedNext DEF Owed
    <3> QED
      BY <2>1, <3>2, <3>3, CoolsOn
  <2>4. CASE keys # {}
    <3>1. event' = [event EXCEPT !.pc = "picked", !.todo = @ \ {u}, !.to = {u} \X keys]
      BY <1>6, <2>4 DEF Pick
    <3>2. /\ event'.pc = "picked" /\ event'.due = event.due
          /\ event'.todo = event.todo \ {u} /\ event'.to = {u} \X keys
      BY <1>0, <3>1 DEF EventState
    <3>3. \A v \in Sub : ~Untold(v)'
      BY <3>2 DEF Untold
    <3>4. \A v \in Sub, k \in Key : Owed(v, k) /\ Active(v, k) => Owed(v, k)'
      BY <2>1, <2>2, <3>2 DEF Owed
    <3> QED
      BY <2>1, <3>3, <3>4, CoolsOn
  <2> QED
    BY <2>3, <2>4
<1>7. ASSUME NEW u \in Sub, NEW k \in Key, HoldPicked(u, k) PROVE CoolInv'
  <2>1. /\ event.pc = "picked" /\ PauseKey(u, k, RepeatDelay(u, k))
        /\ UNCHANGED <<subscribed, delay, cooldown>>
    BY <1>7 DEF HoldPicked
  <2>2. CASE event.to = {<<u, k>>}
    <3>1. NextSubscriber(event.todo)
      BY <1>7, <2>2 DEF HoldPicked
    <3>2. \A v \in Sub, l \in Key : Owed(v, l) => (v = u /\ l = k) \/ Owed(v, l)'
      BY <1>0, <2>1, <2>2, <3>1, OwedNext DEF Owed
    <3> QED
      BY <1>0, <2>1, <3>1, <3>2, OwedNext, CoolPaused
  <2>3. CASE event.to # {<<u, k>>}
    <3>1. event' = [event EXCEPT !.to = @ \ {<<u, k>>}]
      BY <1>7, <2>3 DEF HoldPicked
    <3>2. /\ event'.pc = "picked" /\ event'.due = event.due
          /\ event'.todo = event.todo /\ event'.to = event.to \ {<<u, k>>}
      BY <1>0, <2>1, <3>1 DEF EventState
    <3>3. \A v \in Sub : ~Untold(v)'
      BY <3>2 DEF Untold
    <3>4. \A v \in Sub, l \in Key : Owed(v, l) => (v = u /\ l = k) \/ Owed(v, l)'
      BY <2>1, <3>2 DEF Owed
    <3> QED
      BY <2>1, <3>3, <3>4, CoolPaused
  <2> QED
    BY <2>2, <2>3
<1>8. ASSUME NEW u \in Sub, NEW k \in Key, HoldSystem(u, k) PROVE CoolInv'
  <2>1. /\ event.pc = "pause" /\ PauseKey(u, k, RepeatDelay(u, k)) /\ u \in event.todo
        /\ Camera \notin event.keys /\ k \in event.keys
        /\ NextSubscriber(event.todo \ {u}) /\ event.todo \ {u} \in SUBSET Sub
        /\ UNCHANGED <<subscribed, delay, cooldown>>
    BY <1>0, <1>8 DEF HoldSystem
  <2>2. \A v \in Sub, l \in Key : Owed(v, l) => (v = u /\ l = k) \/ Owed(v, l)'
    BY <1>0, <2>1, OwedNext DEF Owed, KeysInv
  <2> QED
    BY <2>1, <2>2, OwedNext, CoolPaused
<1>9. ASSUME NEW c \in Call, Notify(c) PROVE CoolInv'
  BY <1>9, CoolsOn DEF Notify, UNCHANGEDSubscriptions, CoolInv, Untold, Owed
<1>10. ASSUME NEW c \in Call, NEW u \in Sub, NotifyOne(c, u) PROVE CoolInv'
  <2>1. /\ call[c].due[u] \subseteq NotifyEvent
        /\ UNCHANGED <<subscribed, pause, delay, event>>
    BY <1>10 DEF NotifyOne, KeysInv
  <2>2. \A v \in Sub, l \in Key :
          cooldown'[v][l] = IF v = u /\ l \in call[c].due[u] /\ Active(u, l) THEN delay[u][l]
                            ELSE cooldown[v][l]
    BY <1>10, CoolingValue DEF NotifyOne
  <2>3. \A v \in Sub, l \in Key \ NotifyEvent : cooldown'[v][l] = cooldown[v][l]
    BY <2>1, <2>2
  <2>4. \A v \in Sub : event.due[v] \subseteq Key \ NotifyEvent
    BY <1>0 DEF KeysInv
  <2>5. \A v \in Sub : \A l \in event'.due[v] : Untold(v)' => cooldown'[v][l] = 0
    BY <2>1, <2>3, <2>4 DEF CoolInv, Untold
  <2>6. ASSUME NEW v \in Sub, NEW l \in Key \ NotifyEvent PROVE Covered(v, l)'
    <3>1. Covered(v, l) /\ cooldown'[v][l] = cooldown[v][l]
      BY <2>3 DEF CoolInv
    <3> QED
      BY <2>1, <3>1 DEF Covered, Owed, Active
  <2>7. \A v \in Sub, l \in Key : cooldown'[v][l] <= delay'[v][l]
    <3>1. \A v \in Sub, l \in Key : delay[v][l] \in Nat /\ cooldown[v][l] <= delay[v][l]
      BY DEF CoolInv, TypeOK
    <3> QED
      BY <2>1, <2>2, <3>1
  <2> QED
    BY <2>5, <2>6, <2>7 DEF CoolInv
<1>11. ASSUME NEW u \in Sub, NEW k \in Key, Subscribe(u, k) PROVE CoolInv'
  <2>1. \A v \in Sub : subscribed[v] \subseteq subscribed'[v]
    BY <1>11 DEF Subscribe, TypeOK
  <2> QED
    BY <1>0, <1>11, <2>1, CoolTouched DEF Subscribe
<1>12. ASSUME NEW u \in Sub, NEW k \in Key, Unsubscribe(u, k) PROVE CoolInv'
  <2>1. \A v \in Sub, l \in Key : (v = u /\ l = k) \/
          /\ pause'[v][l] = pause[v][l] /\ delay'[v][l] = delay[v][l]
          /\ l \in subscribed[v] => l \in subscribed'[v]
    <3>1. /\ subscribed \in [Sub -> SUBSET Key] /\ pause \in [Sub -> [Key -> Nat]]
          /\ subscribed' = [subscribed EXCEPT ![u] = @ \ {k}]
          /\ pause' = Set(pause, u, k, 0) /\ delay' = Set(delay, u, k, DefaultRepeatDelay)
      BY <1>12 DEF Unsubscribe, TypeOK
    <3>2. \A v \in Sub, l \in Key : (v = u /\ l = k) \/ pause'[v][l] = pause[v][l]
      BY <3>1, SetNat
    <3>3. \A v \in Sub, l \in Key : (v = u /\ l = k) \/ delay'[v][l] = delay[v][l]
      BY <3>1, SetDelayType
    <3>4. \A v \in Sub, l \in Key :
            (v = u /\ l = k) \/ (l \in subscribed[v] => l \in subscribed'[v])
      BY <3>1
    <3> QED
      BY <3>2, <3>3, <3>4
  <2> QED
    BY <1>0, <1>12, <2>1, CoolTouched DEF Unsubscribe
<1>13. ASSUME NEW u \in Sub, NEW k \in Key, NEW n \in PauseLength, Pause(u, k, n)
       PROVE  CoolInv'
  <2>1. \A v \in Sub, l \in Key : (v = u /\ l = k) \/ pause'[v][l] = pause[v][l]
    <3>1. pause \in [Sub -> [Key -> Nat]] /\ pause' = Set(pause, u, k, n) /\ n \in Nat
      BY <1>13 DEF Pause, TypeOK
    <3> QED
      BY <3>1, SetNat
  <2> QED
    BY <1>0, <1>13, <2>1, CoolTouched DEF Pause
<1>14. ASSUME NEW u \in Sub, NEW k \in Key, NEW n \in Delay, SetDelay(u, k, n) PROVE CoolInv'
  <2>1. \A v \in Sub, l \in Key : (v = u /\ l = k) \/ delay'[v][l] = delay[v][l]
    BY <1>14, SetDelayType DEF SetDelay
  <2> QED
    BY <1>0, <1>14, <2>1, CoolTouched DEF SetDelay
<1>15. CASE Tick
  <2>1. /\ \A v \in Sub, l \in Key :
             /\ pause'[v][l] = IF pause[v][l] = 0 THEN 0 ELSE pause[v][l] - 1
             /\ cooldown'[v][l] = IF cooldown[v][l] = 0 THEN 0 ELSE cooldown[v][l] - 1
        /\ UNCHANGED <<subscribed, delay, event>>
    BY <1>15, LessType DEF Tick, TypeOK
  <2>2. \A v \in Sub, l \in Key :
          pause[v][l] \in Nat /\ cooldown[v][l] \in Nat /\ delay[v][l] \in Nat
    BY DEF TypeOK
  <2>3. \A v \in Sub : \A l \in event'.due[v] : Untold(v)' => cooldown'[v][l] = 0
    BY <1>0, <2>1 DEF CoolInv, Untold
  <2>4. ASSUME NEW v \in Sub, NEW l \in Key \ NotifyEvent PROVE Covered(v, l)'
    <3>1. CASE Owed(v, l) /\ Active(v, l)
      BY <2>1, <3>1 DEF Covered, Owed, Active
    <3>2. CASE cooldown[v][l] <= pause[v][l]
      BY <2>1, <2>2, <3>2 DEF Covered
    <3> QED
      BY <3>1, <3>2 DEF CoolInv, Covered
  <2>5. \A v \in Sub, l \in Key : cooldown'[v][l] <= delay'[v][l]
    BY <2>1, <2>2 DEF CoolInv
  <2> QED
    BY <2>3, <2>4, <2>5 DEF CoolInv
<1> QED
  BY <1>1, <1>2, <1>3, <1>4, <1>5, <1>6, <1>7, <1>8, <1>9, <1>10, <1>11, <1>12, <1>13,
     <1>14, <1>15 DEF Next

(* wizard_cmds.go 996-998: the event stream tells nobody of a subscription  *)
(* again within its repeat delay (handleCameraMotion, notifySystemEvent),   *)
(* as long as the subscriber leaves it alone.                               *)
THEOREM StreamHasWaited == Spec => StreamWaits
<1>1. Init => KeysInv /\ CoolInv
  <2> SUFFICES ASSUME Init PROVE KeysInv /\ CoolInv
    OBVIOUS
  <2>1. KeysInv
    BY DEF Init, KeysInv, Idle, NoKeys
  <2>2. \A u \in Sub, k \in Key :
          cooldown[u][k] = 0 /\ pause[u][k] = 0 /\ delay[u][k] \in Nat
    BY DEF Init
  <2> QED
    BY <2>1, <2>2 DEF Init, CoolInv, Covered, Idle, NoKeys
<1>2. IInv /\ KeysInv /\ CoolInv /\ [Next]_vars => (KeysInv /\ CoolInv)'
  BY KeysStep, CoolStep DEF IInv
<1>3. CoolInv => [\A u \in Sub : Deliver(u) => \A k \in event.due[u] : cooldown[u][k] = 0]_vars
  BY DEF CoolInv, Deliver, Untold
<1> QED
  BY <1>1, <1>2, <1>3, Invariant, PTL DEF Spec, StreamWaits

=============================================================================
