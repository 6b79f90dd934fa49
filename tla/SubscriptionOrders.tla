-------------------------- MODULE SubscriptionOrders -------------------------
(****************************************************************************)
(* What the chats may rely on when menus and commands change subscriptions, *)
(* with no menu, list or place in sight.                                    *)
(*                                                                          *)
(* A change is ordered for one chat, by itself or by somebody who is an     *)
(* admin then, and is about one subscription or about all.  It is carried   *)
(* out in one step, of exactly those, whatever else has changed since; what *)
(* has no subscription to set the rules of is withdrawn or changes nothing. *)
(* Whoever carried it out is not done before everything is saved.           *)
(****************************************************************************)
CONSTANTS
  Chat, Subscription,
  Worker             \* who carries out orders

VARIABLES
  status,            \* of each subscription of each chat
  admins,            \* who may order for others
  order,             \* what each worker is to do, or None
  unsaved            \* chats changed since the last save

orderVars == <<status, admins, order, unsaved>>

None == [what |-> "none"]
Saving(u) == [what |-> "saving", of |-> u]
Whole == {Subscription} \cup {{e} : e \in Subscription}
Orders ==
  [what: {"subscribe", "unsubscribe", "rule"}, by: Chat, of: Chat, names: Whole]

(* None there, one with no rules of its own, or one with rules. *)
Status == {"none", "plain", "ruled"}

TypeOK ==
  /\ status \in [Chat -> [Subscription -> Status]]
  /\ admins \subseteq Chat
  /\ order \in [Worker -> {None} \cup {Saving(u) : u \in Chat} \cup Orders]
  /\ unsaved \subseteq Chat

(* To subscribe again keeps the rules; a new subscription starts with none. *)
Becomes(what, s) ==
  CASE what = "subscribe" /\ s = "none" -> "plain"
    [] what = "unsubscribe" -> "none"
    [] what = "rule" /\ s # "none" -> "ruled"
    [] OTHER -> s

Give(w) ==
  /\ order[w] = None
  /\ order'[w] \in {o \in Orders : o.by = o.of \/ o.by \in admins}
  /\ order' = [order EXCEPT ![w] = order'[w]]
  /\ UNCHANGED <<status, admins, unsaved>>

CarryOut(w) ==
  /\ order[w] \in Orders
  /\ status' = [status EXCEPT ![order[w].of] =
       [e \in Subscription |-> IF e \in order[w].names THEN Becomes(order[w].what, @[e]) ELSE @[e]]]
  /\ order' = [order EXCEPT ![w] = Saving(@.of)]
  /\ unsaved' = unsaved \cup {order[w].of}
  /\ UNCHANGED admins

Withdraw(w) ==
  /\ order[w] \in Orders /\ order[w].what = "rule"
  /\ \A e \in order[w].names : status[order[w].of][e] = "none"
  /\ order' = [order EXCEPT ![w] = None]
  /\ UNCHANGED <<status, admins, unsaved>>

Save(w) ==
  /\ order[w] \in {Saving(u) : u \in Chat}
  /\ order' = [order EXCEPT ![w] = None]
  /\ unsaved' = {}
  /\ UNCHANGED <<status, admins>>

Role(u) ==
  /\ admins' \in {admins \cup {u}, admins \ {u}}
  /\ UNCHANGED <<status, order, unsaved>>

Init ==
  /\ status = [u \in Chat |-> [e \in Subscription |-> "none"]]
  /\ admins \in SUBSET Chat
  /\ order = [w \in Worker |-> None]
  /\ unsaved = {}

Next ==
  \/ \E u \in Chat : Role(u)
  \/ \E w \in Worker : Save(w) \/ CarryOut(w) \/ Withdraw(w) \/ Give(w)

Spec == Init /\ [][Next]_orderVars

=============================================================================
