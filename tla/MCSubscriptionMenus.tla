------------------------ MODULE MCSubscriptionMenus --------------------------
(* Small instances of SubscriptionMenus for TLC. *)
EXTENDS SubscriptionMenus, TLC

CONSTANTS Someone, Boss, HisMenu, BossMenu

(* The chat lists its subscriptions to remove one or set its delay, the admin *)
(* opens one to pause it; it subscribes and pauses all by commands.          *)
MCOffered ==
  Someone :> {"unsubs", "unsub", "delays", "pick", "delay"} @@
  Boss :> {"subs", "open", "pause"}
MCChatOf == HisMenu :> Someone @@ BossMenu :> Boss

Symmetry == Permutations(Press)

(* What is never read again is left out: of a goroutine that has found what  *)
(* it is to change, the place, and of the label but whether it is the name   *)
(* found; of one that has changed the list, the button and the name; of a    *)
(* menu without places and a goroutine that will read the list, whether they *)
(* are outdated.                                                             *)
Seen(q) ==
  CASE q = Idle -> <<>>
    [] q.pc = "tapped" -> <<q.message, q.button, 0>>
    [] q.pc = "edit" -> <<q.message, q.menu>>
    [] q.pc = "save" -> <<q.message, q.menu, q.save, q.button.about>>
    [] q.pc = "answer" -> <<q.message, q.save, q.button.about, q.button.do, 0>>
    [] OTHER -> <<q.message, q.event, q.event = q.button.label, q.button.about, q.button.do, 1>>
Placed(buttons) == \E b \in buttons : b.place # NoPlace
Marked ==
  {m \in outdated \cap Message : Placed(menu[m])} \cup
  {p \in outdated \cap Process :
     \/ proc[p].pc = "tapped"
     \/ proc[p].pc = "apply" /\ proc[p].event # proc[p].button.label
     \/ proc[p].pc \in {"save", "edit"} /\ Placed(proc[p].menu)}
View ==
  <<[p \in Process |-> Seen(proc[p])], subscribed, ruled, admins, menu,
    unsaved, Marked>>

=============================================================================
