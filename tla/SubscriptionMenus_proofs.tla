---------------------- MODULE SubscriptionMenus_proofs -----------------------
(****************************************************************************)
(* Proofs about SubscriptionMenus for any chats, menus, goroutines and      *)
(* number of events.                                                        *)
(*                                                                          *)
(* The places of a list are those of its names, one each: what a menu shows *)
(* is what its places find until the list changes, and then its mark says   *)
(* so.                                                                      *)
(****************************************************************************)
EXTENDS SubscriptionMenus, FiniteSetTheorems, TLAPS

USE MenusAssumption

-----------------------------------------------------------------------------
(* Places *)

LEMMA NamesFinite ==
  ASSUME NEW names \in SUBSET Event
  PROVE  IsFiniteSet(names) /\ Cardinality(names) \in 0 .. Count
<1>1. IsFiniteSet(Event) /\ Cardinality(Event) <= Count
  BY FS_Interval DEF Event
<1>2. IsFiniteSet(names) /\ Cardinality(names) <= Cardinality(Event)
  BY <1>1, FS_Subset
<1>3. Cardinality(Event) \in Nat /\ Cardinality(names) \in Nat
  BY <1>1, <1>2, FS_CardinalityType
<1> QED
  BY <1>1, <1>2, <1>3

LEMMA PlaceBelow ==
  ASSUME NEW names \in SUBSET Event, NEW e \in names
  PROVE  Place(names, e) \in 0 .. Cardinality(names) - 1
<1> DEFINE Below == {x \in names : x < e}
<1>1. IsFiniteSet(names) /\ Cardinality(names) \in Nat
  BY NamesFinite
<1>2. IsFiniteSet(names \ {e}) /\ Cardinality(names \ {e}) = Cardinality(names) - 1
  BY <1>1, FS_RemoveElement
<1>3. Below \in SUBSET (names \ {e})
  BY DEF Event
<1>4. IsFiniteSet(Below) /\ Cardinality(Below) <= Cardinality(names \ {e})
  BY <1>2, <1>3, FS_Subset
<1>5. Cardinality(Below) \in Nat
  BY <1>4, FS_CardinalityType
<1> QED
  BY <1>1, <1>2, <1>4, <1>5 DEF Place

LEMMA PlaceRises ==
  ASSUME NEW names \in SUBSET Event, NEW e \in names, NEW f \in names, e < f
  PROVE  Place(names, e) < Place(names, f)
<1> DEFINE Lower == {x \in names : x < e}
           Higher == {x \in names : x < f}
<1>1. /\ IsFiniteSet(Lower) /\ Cardinality(Lower) \in Nat
      /\ IsFiniteSet(Higher) /\ Cardinality(Higher) \in Nat
  <2>1. Lower \in SUBSET Event /\ Higher \in SUBSET Event
    OBVIOUS
  <2> HIDE DEF Lower, Higher
  <2> QED
    BY <2>1, NamesFinite
<1>2. e \in Higher /\ Lower \in SUBSET (Higher \ {e})
  <2>1. \A x \in Event : x < e => x < f /\ x # e
    BY DEF Event
  <2> QED
    BY <2>1
<1>3. IsFiniteSet(Higher \ {e}) /\ Cardinality(Higher \ {e}) = Cardinality(Higher) - 1
  <2> HIDE DEF Higher
  <2> QED
    BY <1>1, <1>2, FS_RemoveElement
<1>4. Cardinality(Lower) <= Cardinality(Higher \ {e})
  <2> HIDE DEF Lower, Higher
  <2> QED
    BY <1>2, <1>3, FS_Subset
<1>5. Cardinality(Lower) < Cardinality(Higher)
  BY <1>1, <1>3, <1>4
<1> QED
  BY <1>5 DEF Place

(* One name to a place. *)
LEMMA PlaceOnce ==
  ASSUME NEW names \in SUBSET Event, NEW e \in names, NEW f \in names,
         Place(names, e) = Place(names, f)
  PROVE  e = f
<1>1. e \in Int /\ f \in Int /\ Place(names, e) \in Int
  BY PlaceBelow DEF Event
<1>2. ~(e < f) /\ ~(f < e)
  BY <1>1, PlaceRises
<1> QED
  BY <1>1, <1>2

(* A name to each place. *)
LEMMA PlacesFilled ==
  ASSUME NEW names \in SUBSET Event, NEW i \in Int, Within(names, i)
  PROVE  \E e \in names : Place(names, e) = i
<1> DEFINE n == Cardinality(names)
           places == [e \in names |-> Place(names, e)]
<1>1. n \in Nat /\ i \in 0 .. n - 1
  BY NamesFinite DEF Within
<1>2. places \in [names -> 0 .. n - 1]
  BY PlaceBelow
<1>3. places \in Injection(names, 0 .. n - 1)
  BY <1>2, PlaceOnce DEF Injection, IsInjective
<1>4. IsFiniteSet(0 .. n - 1) /\ Cardinality(0 .. n - 1) = n
  BY <1>1, FS_Interval
<1>5. places \in Surjection(names, 0 .. n - 1)
  BY <1>3, <1>4, FS_Injection
<1> QED
  BY <1>1, <1>5 DEF Surjection

(* names[idx] is the name that was given the place idx in the same list. *)
LEMMA AtPlace ==
  ASSUME NEW names \in SUBSET Event, NEW e \in names
  PROVE  Within(names, Place(names, e)) /\ At(names, Place(names, e)) = e
<1>1. Within(names, Place(names, e))
  BY PlaceBelow, NamesFinite DEF Within
<1>2. At(names, Place(names, e)) \in names
        /\ Place(names, At(names, Place(names, e))) = Place(names, e)
  BY DEF At
<1> QED
  BY <1>1, <1>2, PlaceOnce

LEMMA AtType ==
  ASSUME NEW names \in SUBSET Event, NEW i \in Int, Within(names, i)
  PROVE  At(names, i) \in names
BY PlacesFilled DEF At

-----------------------------------------------------------------------------
(* Buttons *)

LEMMA RowType ==
  ASSUME NEW do \in Do, NEW u \in User, NEW names \in SUBSET Event
  PROVE  Row(do, u, names) \in SUBSET Button
<1> SUFFICES ASSUME NEW e \in names PROVE MakeButton(do, u, Place(names, e), e) \in Button
  BY DEF Row
<1>1. Place(names, e) \in -1 .. Count - 1
  BY PlaceBelow, NamesFinite
<1> QED
  BY <1>1 DEF Button, MakeButton, Event, NoEvent

LEMMA ListMenuType ==
  ASSUME NEW do \in List, NEW u \in User, NEW names \in SUBSET Event
  PROVE  ListMenu(do, u, names) \in SUBSET Button
<1>1. {"open", "unsub", "pause", "pick", "pauseAll"} \subseteq Do
  BY DEF Do, List, Change
<1>2. MakeButton("pauseAll", u, NoPlace, NoEvent) \in Button
  BY <1>1 DEF MakeButton, Button, NoPlace, Nameless
<1>3. do \in {"subs", "unsubs", "pauses", "delays"}
  BY DEF List
<1> QED
  BY <1>1, <1>2, <1>3, RowType DEF ListMenu

LEMMA ItemMenuType ==
  ASSUME NEW b \in Button, NEW e \in Event
  PROVE  ItemMenu(b.about, b.place, e) \in SUBSET Button /\ DelayMenu(b, e) \in SUBSET Button
<1>1. {"pause", "pick", "unsub", "delay"} \subseteq Do
  BY DEF Do, Change
<1> QED
  BY <1>1 DEF ItemMenu, DelayMenu, MakeButton, Button, Event, NoEvent

LEMMA NavigationType ==
  ASSUME NEW c \in User
  PROVE  Navigation(c) \cup Commands(c) \subseteq Button
<1>1. /\ List \cup {"subscribe", "drop", "pauseAll", "pause", "delay"} \subseteq Do
      /\ NoEvent \notin Event
  BY DEF Do, List, Change, Event, NoEvent
<1>2. ASSUME NEW u \in User, NEW do \in Do, NEW e \in Event \cup {NoEvent},
             e = NoEvent => do \in Nameless
      PROVE  MakeButton(do, u, NoPlace, e) \in Button
  BY <1>2 DEF MakeButton, Button, NoPlace
<1>3. \A u \in User : Lists(u) \cup ByName(u) \cup AllOnes(u) \cup RulesByName(u) \subseteq Button
  <2> TAKE u \in User
  <2>1. Lists(u) \subseteq Button
    BY <1>1, <1>2 DEF Lists, Nameless
  <2>2. ASSUME NEW b \in ByName(u) PROVE b \in Button
    <3>1. PICK do \in {"subscribe", "drop"}, e \in Event : b = MakeButton(do, u, NoPlace, e)
      BY DEF ByName
    <3> QED
      BY <1>1, <1>2, <3>1
  <2>3. ASSUME NEW b \in RulesByName(u) PROVE b \in Button
    <3>1. PICK do \in {"pause", "delay"}, e \in Event : b = MakeButton(do, u, NoPlace, e)
      BY DEF RulesByName
    <3> QED
      BY <1>1, <1>2, <3>1
  <2>4. AllOnes(u) \subseteq Button
    BY <1>1, <1>2 DEF AllOnes, Nameless
  <2> QED
    BY <2>1, <2>2, <2>3, <2>4
<1>4. Own \subseteq User
  OBVIOUS
<1> QED
  BY <1>3, <1>4 DEF Navigation, ManageMenu, Commands

-----------------------------------------------------------------------------
(* Goroutines *)

LEMMA Moved ==
  ASSUME TypeOK, NEW p \in Process, NEW q \in {Idle} \cup Handling, Goto(p, q)
  PROVE  /\ proc' \in [Process -> {Idle} \cup Handling]
         /\ \A x \in Process : proc'[x] = IF x = p THEN q ELSE proc[x]
BY DEF TypeOK, Goto

LEMMA BeginType ==
  ASSUME NEW m \in Message, NEW b \in Button, NEW e \in Event \cup {NoEvent},
         e = NoEvent => b.do = "pauseAll"
  PROVE  [Begin(m, b) EXCEPT !.event = e] \in Handling
BY DEF Begin, Handling

LEMMA AnswerType ==
  ASSUME NEW m \in Message, NEW b \in Button, NEW buttons \in SUBSET Button
  PROVE  [Begin(m, b) EXCEPT !.pc = "edit", !.menu = buttons] \in Handling
BY DEF Begin, Handling

(* Who is at work has a button. *)
LEMMA AtWork ==
  ASSUME TypeOK, NEW p \in Process, proc[p].pc # "idle"
  PROVE  proc[p] \in Handling
<1>1. Idle.pc = "idle"
  BY DEF Idle
<1> QED
  BY <1>1 DEF TypeOK

-----------------------------------------------------------------------------
(* Type correctness *)

LEMMA LookType ==
  ASSUME TypeOK, NEW p \in Process, NEW m \in Message, NEW b \in Button, Look(p, m, b)
  PROVE  TypeOK'
<1> DEFINE names == subscribed[b.about]
<1>1. /\ b.about \in User /\ b.do \in Do /\ b.place \in Int /\ b.label \in Event \cup {NoEvent}
      /\ b.label = NoEvent => b.do \in Nameless
  BY DEF Button
<1>2. names \in SUBSET Event
  BY <1>1 DEF TypeOK
<1>3. outdated' \subseteq outdated \cup {p}
  BY DEF Look, Refuse, ShowList, ShowItem, ShowSeconds, FindPlace, FindName, Reread
<1>4. ASSUME NEW buttons \in SUBSET Button, Answer(p, m, b, buttons)
      PROVE  proc' \in [Process -> {Idle} \cup Handling]
  BY <1>4, AnswerType, Moved DEF Answer
<1>5. ASSUME NEW e \in Event \cup {NoEvent}, e = NoEvent => b.do = "pauseAll", Found(p, m, b, e)
      PROVE  proc' \in [Process -> {Idle} \cup Handling]
  BY <1>5, BeginType, Moved DEF Found
<1>6. ASSUME Within(names, b.place) PROVE At(names, b.place) \in Event
  BY <1>1, <1>2, <1>6, AtType
<1>7. proc' \in [Process -> {Idle} \cup Handling]
  <2>1. CASE Refuse(p, m, b)
    BY <1>4, <2>1 DEF Refuse
  <2>2. CASE ShowList(p, m, b)
    BY <1>1, <1>2, <1>4, <2>2, ListMenuType DEF ShowList
  <2>3. CASE ShowItem(p, m, b)
    BY <1>4, <1>6, <2>3, ItemMenuType DEF ShowItem
  <2>4. CASE ShowSeconds(p, m, b)
    <3>1. b.label \in Event
      BY <1>1, <2>4 DEF ShowSeconds, Nameless, List
    <3> QED
      BY <1>4, <2>4, <3>1, ItemMenuType DEF ShowSeconds
  <2>5. CASE FindPlace(p, m, b)
    BY <1>4, <1>5, <1>6, <2>5 DEF FindPlace, Event, NoEvent
  <2>6. CASE FindName(p, m, b)
    BY <1>1, <1>4, <1>5, <2>6 DEF FindName, Nameless
  <2> QED
    BY <2>1, <2>2, <2>3, <2>4, <2>5, <2>6 DEF Look
<1> QED
  BY <1>3, <1>7 DEF Look, UNCHANGEDSubscriptions, TypeOK

LEMMA ButtonType ==
  ASSUME TypeOK, NEW m \in Message
  PROVE  Tappable(m) \cup Commands(ChatOf[m]) \subseteq Button
<1>1. menu[m] \in SUBSET Button /\ ChatOf[m] \in User
  BY DEF TypeOK
<1>2. Tappable(m) \subseteq menu[m] \cup Navigation(ChatOf[m])
  BY DEF Tappable
<1> QED
  BY <1>1, <1>2, NavigationType

LEMMA TapType ==
  ASSUME TypeOK, NEW p \in Process, NEW m \in Message, Tap(p, m)
  PROVE  TypeOK'
<1>1. PICK b \in Tappable(m) : Goto(p, [Begin(m, b) EXCEPT !.pc = "tapped"])
  BY DEF Tap
<1>2. [Begin(m, b) EXCEPT !.pc = "tapped"] \in Handling
  BY <1>1, ButtonType DEF Begin, Handling
<1>3. proc' \in [Process -> {Idle} \cup Handling]
  BY <1>1, <1>2, Moved
<1> QED
  BY <1>3 DEF Tap, Inherit, UNCHANGEDSubscriptions, TypeOK

(* A goroutine at work: the parts of its record, and what its next may be. *)
LEMMA AtWorkType ==
  ASSUME TypeOK, NEW p \in Process, proc[p].pc # "idle"
  PROVE  /\ proc[p].message \in Message /\ proc[p].button \in Button
         /\ proc[p].event \in Event \cup {NoEvent} /\ proc[p].menu \in SUBSET Button
         /\ Target(p) \in User /\ subscribed[Target(p)] \in SUBSET Event
         /\ [proc[p] EXCEPT !.pc = "answer", !.save = TRUE] \in Handling
<1>1. proc[p] \in Handling
  BY AtWork
<1>2. proc[p].button.about \in User
  BY <1>1 DEF Handling, Button
<1> QED
  BY <1>1, <1>2 DEF Handling, Target, TypeOK

LEMMA AppliedType ==
  ASSUME TypeOK, NEW p \in Process, proc[p].pc # "idle", Applied(p)
  PROVE  proc' \in [Process -> {Idle} \cup Handling] /\ unsaved' \subseteq User
<1>1. proc' \in [Process -> {Idle} \cup Handling]
  BY AtWorkType, Moved DEF Applied, Saving
<1> QED
  BY <1>1, AtWorkType DEF Applied, TypeOK

LEMMA NextMenuType ==
  ASSUME TypeOK, NEW p \in Process, proc[p].pc # "idle"
  PROVE  NextMenu(p) \in SUBSET Button
<1> DEFINE u == proc[p].button.about
<1>1. u \in User /\ Listed(p) \in SUBSET Event
  BY AtWorkType DEF Target, Listed, Names
<1>2. {"unsub", "open"} \subseteq Do
  BY DEF Do, Change
<1>3. Row("unsub", u, Listed(p)) \in SUBSET Button /\ Row("open", u, Listed(p)) \in SUBSET Button
  BY <1>1, <1>2, RowType
<1> QED
  BY <1>3 DEF NextMenu

LEMMA ContinueType ==
  ASSUME TypeOK, NEW p \in Process, Continue(p)
  PROVE  TypeOK'
<1> DEFINE u == Target(p)
<1>1. proc[p].pc # "idle"
  BY DEF Continue, Serve, ApplySubscribe, ApplyUnsub, ApplyPause, ApplyPauseAll, ApplyDelay,
         MakeAnswer, Save, Edit
<1>2. /\ proc[p].message \in Message /\ proc[p].button \in Button
      /\ proc[p].event \in Event \cup {NoEvent} /\ proc[p].menu \in SUBSET Button
      /\ u \in User /\ subscribed[u] \in SUBSET Event
  BY <1>1, AtWorkType
<1>3. MadeFrom(u) \subseteq Message \cup Process
  BY DEF MadeFrom
<1>4. ASSUME ListChanged(p) PROVE outdated' \subseteq Message \cup Process
  BY <1>3, <1>4 DEF ListChanged, TypeOK
<1>5. ASSUME NEW events, ruled' = SetRules(u, events)
      PROVE  /\ ruled' \in [User -> SUBSET Event]
             /\ \A x \in User : ruled'[x] \subseteq subscribed[x]
  BY <1>2, <1>5 DEF SetRules, TypeOK
<1>6. ASSUME NEW buttons \in SUBSET Button, Answer(p, proc[p].message, proc[p].button, buttons)
      PROVE  proc' \in [Process -> {Idle} \cup Handling]
  BY <1>2, <1>6, AnswerType, Moved DEF Answer
<1>7. CASE ApplySubscribe(p)
  <2>1. proc[p].event \in Event
    BY <1>1, <1>7, AtWork DEF ApplySubscribe, Handling
  <2>2. /\ subscribed' \in [User -> SUBSET Event]
        /\ \A x \in User : ruled[x] \subseteq subscribed'[x]
    BY <1>2, <1>7, <2>1 DEF ApplySubscribe, TypeOK
  <2> QED
    BY <1>1, <1>4, <1>7, <2>2, AppliedType DEF ApplySubscribe, TypeOK
<1>8. CASE ApplyUnsub(p)
  <2>1. /\ subscribed' \in [User -> SUBSET Event] /\ ruled' \in [User -> SUBSET Event]
        /\ \A x \in User : ruled'[x] \subseteq subscribed'[x]
    BY <1>2, <1>8 DEF ApplyUnsub, Without, TypeOK
  <2> QED
    BY <1>1, <1>4, <1>8, <2>1, AppliedType DEF ApplyUnsub, TypeOK
<1>9. CASE ApplyPause(p)
  <2>1. proc' \in [Process -> {Idle} \cup Handling] /\ unsaved' \subseteq User
    BY <1>1, <1>6, <1>9, AppliedType DEF ApplyPause, TypeOK
  <2> QED
    BY <1>5, <1>9, <2>1 DEF ApplyPause, TypeOK
<1>10. CASE ApplyPauseAll(p)
  BY <1>1, <1>5, <1>10, AppliedType DEF ApplyPauseAll, TypeOK
<1>11. CASE ApplyDelay(p)
  BY <1>1, <1>5, <1>11, AppliedType DEF ApplyDelay, TypeOK
<1>12. CASE MakeAnswer(p)
  <2>1. [proc[p] EXCEPT !.pc = "save", !.menu = NextMenu(p)] \in Handling
    BY <1>1, AtWork, NextMenuType DEF Handling
  <2> QED
    BY <1>12, <2>1, Moved DEF MakeAnswer, Reread, UNCHANGEDSubscriptions, TypeOK
<1>13. CASE Save(p)
  BY <1>2, <1>6, <1>13 DEF Save, UNCHANGEDSubscriptions, TypeOK
<1>14. CASE Edit(p)
  BY <1>2, <1>14, Moved DEF Edit, Reread, UNCHANGEDSubscriptions, TypeOK
<1>15. CASE Serve(p)
  BY <1>2, <1>15, LookType DEF Serve
<1> QED
  BY <1>7, <1>8, <1>9, <1>10, <1>11, <1>12, <1>13, <1>14, <1>15 DEF Continue

LEMMA TypeInit == Init => TypeOK
BY DEF Init, TypeOK

LEMMA TypeStep == TypeOK /\ [Next]_vars => TypeOK'
<1> SUFFICES ASSUME TypeOK, [Next]_vars PROVE TypeOK'
  OBVIOUS
<1>1. ASSUME NEW p \in Press, NEW m \in Message, Tap(p, m) \/ TapPlain(p, m) PROVE TypeOK'
  BY <1>1, TapType, ButtonType, LookType DEF TapPlain, Process
<1>2. ASSUME NEW m \in Message, Type(m) PROVE TypeOK'
  BY <1>2, ButtonType, LookType DEF Type, Process
<1>3. ASSUME NEW p \in Process, Continue(p) PROVE TypeOK'
  BY <1>3, ContinueType
<1>4. ASSUME NEW u \in Manager, Role(u) PROVE TypeOK'
  BY <1>4 DEF Role, UNCHANGEDSubscriptions, TypeOK
<1>5. CASE UNCHANGED vars
  BY <1>5 DEF vars, TypeOK
<1> QED
  BY <1>1, <1>2, <1>3, <1>4, <1>5 DEF Next

(* Whatever the taps, texts and admins, a chat's rules are rules of its      *)
(* subscriptions (Events.Pause and Events.RuleSetD set none of a name that   *)
(* is gone), and a subscription added is one of an event.                    *)
THEOREM TypeCorrect == Spec => []TypeOK
<1> QED
  BY TypeInit, TypeStep, PTL DEF Spec

-----------------------------------------------------------------------------
(* Changes are saved *)

(* ChangesSaved is inductive: who changes a chat's subscriptions is to save, *)
(* and whoever saves before does so for all.                                 *)
LEMMA ChangesSavedStep ==
  ASSUME TypeOK, ChangesSaved, [Next]_vars
  PROVE  ChangesSaved'
<1> DEFINE Saver(u, q) == proc[q].pc \in {"answer", "save"} /\ proc[q].save /\ Target(q) = u
<1>1. \A u \in unsaved : \E q \in Process : Saver(u, q)
  BY DEF ChangesSaved
<1>2. ASSUME NEW p \in Process, NEW q, Goto(p, q), unsaved' = unsaved,
             ~\E u \in User : Saver(u, p)
      PROVE  ChangesSaved'
  BY <1>1, <1>2 DEF Goto, TypeOK, ChangesSaved, Target
<1>3. ASSUME NEW p \in Process, NEW m, NEW b, Look(p, m, b), proc[p].pc \in {"idle", "tapped"}
      PROVE  ChangesSaved'
  <2>1. ~\E u \in User : Saver(u, p)
    BY <1>3
  <2>2. \E q : Goto(p, q)
    BY <1>3 DEF Look, Refuse, ShowList, ShowItem, ShowSeconds, FindPlace, FindName, Found, Answer
  <2> QED
    BY <1>2, <1>3, <2>1, <2>2 DEF Look
<1>4. ASSUME NEW p \in Process, Applied(p), proc[p].pc = "apply" PROVE ChangesSaved'
  <2>1. Saver(Target(p), p)'
    BY <1>4 DEF Applied, Saving, Goto, Target, TypeOK
  <2>2. ASSUME NEW u \in unsaved PROVE \E q \in Process : Saver(u, q)'
    <3>1. PICK q \in Process : Saver(u, q)
      BY <1>1
    <3>2. q # p
      BY <1>4, <3>1
    <3> QED
      BY <1>4, <3>1, <3>2 DEF Applied, Goto, Target, TypeOK
  <2>3. Target(p)' = Target(p)
    BY <1>4 DEF Applied, Goto, Target, TypeOK
  <2> QED
    BY <1>4, <2>1, <2>2, <2>3 DEF ChangesSaved, Applied
<1>5. ASSUME NEW p \in Process, Continue(p) PROVE ChangesSaved'
  <2>1. CASE ApplySubscribe(p) \/ ApplyUnsub(p) \/ ApplyPauseAll(p) \/ ApplyDelay(p)
    BY <1>4, <2>1 DEF ApplySubscribe, ApplyUnsub, ApplyPauseAll, ApplyDelay
  <2>2. CASE ApplyPause(p)
    <3>1. ~\E u \in User : Saver(u, p)
      BY <2>2 DEF ApplyPause
    <3> QED
      BY <1>2, <1>4, <2>2, <3>1 DEF ApplyPause, Answer
  <2>3. CASE MakeAnswer(p)
    <3>1. ASSUME NEW u, NEW q \in Process, Saver(u, q) PROVE Saver(u, q)'
      BY <2>3, <3>1 DEF MakeAnswer, Goto, Target, TypeOK
    <3> QED
      BY <1>1, <2>3, <3>1 DEF MakeAnswer, ChangesSaved
  <2>4. CASE Save(p)
    <3>1. CASE proc[p].save
      BY <2>4, <3>1 DEF Save, ChangesSaved
    <3>2. CASE ~proc[p].save
      BY <1>2, <2>4, <3>2 DEF Save, Answer
    <3> QED
      BY <3>1, <3>2
  <2>5. CASE Edit(p)
    BY <1>2, <2>5 DEF Edit
  <2>6. CASE Serve(p)
    BY <1>3, <2>6 DEF Serve
  <2> QED
    BY <1>5, <2>1, <2>2, <2>3, <2>4, <2>5, <2>6 DEF Continue
<1>6. CASE UNCHANGED <<proc, unsaved>>
  BY <1>1, <1>6 DEF ChangesSaved, Target
<1>7. ASSUME NEW p \in Process, NEW m, Tap(p, m) PROVE ChangesSaved'
  <2>1. ~\E u \in User : Saver(u, p)
    BY <1>7 DEF Tap, MayBegin, Idle
  <2> QED
    BY <1>2, <1>7, <2>1 DEF Tap
<1>8. ASSUME NEW p \in Process, MayBegin(p) PROVE proc[p].pc \in {"idle", "tapped"}
  BY <1>8 DEF MayBegin, Idle
<1> QED
  BY <1>3, <1>5, <1>6, <1>7, <1>8 DEF Next, TapPlain, Type, Role, Process, vars

(* No answer says Removed or Saved of a change that no goroutine is to save. *)
THEOREM ChangesAreSaved == Spec => []ChangesSaved
<1>1. Init => ChangesSaved
  BY DEF Init, ChangesSaved
<1> QED
  BY <1>1, ChangesSavedStep, TypeCorrect, PTL DEF Spec

-----------------------------------------------------------------------------
(* What is not marked as outdated is as it was read *)

(* The place a button carries is still that of the name on its label. *)
Current(b) ==
  b.place # NoPlace =>
    Within(subscribed[b.about], b.place) /\ At(subscribed[b.about], b.place) = b.label

(* A goroutine that is not outdated has a button that is right, found what   *)
(* its button names, or has a menu to show that is right; which is about the *)
(* same chat in any case.                                                    *)
Matches(q, fresh) ==
  /\ (q.pc = "tapped" /\ fresh) => Current(q.button)
  /\ q.pc \in {"save", "edit"} =>
       \A b \in q.menu : b.about = q.button.about /\ (fresh => Current(b))
  /\ (q.pc = "apply" /\ fresh) => q.event = q.button.label

MenusCurrent == \A m \in Message \ outdated : \A b \in menu[m] : Current(b)
GoroutinesCurrent == \A p \in Process : Matches(proc[p], p \notin outdated)

CurrentInv == TypeOK /\ MenusCurrent /\ GoroutinesCurrent

LEMMA RowCurrent ==
  ASSUME NEW do, NEW u, NEW b \in Row(do, u, subscribed[u]), subscribed[u] \in SUBSET Event
  PROVE  b.about = u /\ Current(b)
<1>1. PICK e \in subscribed[u] : b = MakeButton(do, u, Place(subscribed[u], e), e)
  BY DEF Row
<1> QED
  BY <1>1, AtPlace DEF MakeButton, Current

LEMMA ListMenuCurrent ==
  ASSUME NEW do \in List, NEW u, subscribed[u] \in SUBSET Event,
         NEW b \in ListMenu(do, u, subscribed[u])
  PROVE  b.about = u /\ Current(b)
<1>1. CASE b = MakeButton("pauseAll", u, NoPlace, NoEvent)
  BY <1>1 DEF MakeButton, Current
<1>2. CASE \E d \in Do : b \in Row(d, u, subscribed[u])
  BY <1>2, RowCurrent
<1> QED
  BY <1>1, <1>2 DEF ListMenu, List, Do, Change

(* A step of p that leaves the subscriptions and the menus alone. *)
LEMMA MoveCurrent ==
  ASSUME CurrentInv, NEW p \in Process, NEW q, Goto(p, q), UNCHANGED <<subscribed, menu>>,
         \A x \in (Message \cup Process) \ {p} : x \in outdated' <=> x \in outdated,
         Matches(q, p \notin outdated')
  PROVE  MenusCurrent' /\ GoroutinesCurrent'
<1>1. \A b : Current(b)' <=> Current(b)
  BY DEF Current
<1>2. MenusCurrent'
  BY <1>1 DEF CurrentInv, MenusCurrent, Process
<1>3. ASSUME NEW x \in Process PROVE Matches(proc[x], x \notin outdated)'
  <2>1. CASE x = p
    <3>1. proc'[x] = q
      BY <2>1 DEF Goto, CurrentInv, TypeOK
    <3> QED
      BY <1>1, <2>1, <3>1 DEF Matches
  <2>2. CASE x # p
    <3>1. proc'[x] = proc[x] /\ (x \in outdated' <=> x \in outdated)
      BY <2>2 DEF Goto, CurrentInv, TypeOK
    <3>2. Matches(proc[x], x \notin outdated)
      BY DEF CurrentInv, GoroutinesCurrent
    <3> QED
      BY <1>1, <3>1, <3>2 DEF Matches
  <2> QED
    BY <2>1, <2>2
<1> QED
  BY <1>2, <1>3 DEF GoroutinesCurrent

(* Only the buttons of menus carry places. *)
LEMMA NavigationPlace ==
  ASSUME NEW c, NEW b \in Navigation(c)
  PROVE  b.place = NoPlace
BY DEF Navigation, ManageMenu, Lists, ByName, MakeButton

LEMMA TapCurrent ==
  ASSUME CurrentInv, NEW p \in Process, NEW m \in Message, Tap(p, m)
  PROVE  MenusCurrent' /\ GoroutinesCurrent'
<1>1. PICK b \in Tappable(m) :
        b.place # NoPlace /\ Goto(p, [Begin(m, b) EXCEPT !.pc = "tapped"])
  BY DEF Tap
<1> DEFINE q == [Begin(m, b) EXCEPT !.pc = "tapped"]
<1>2. b \in menu[m]
  BY <1>1, NavigationPlace DEF Tappable
<1>3. Matches(q, p \notin outdated')
  BY <1>2 DEF Matches, Begin, Tap, Inherit, CurrentInv, MenusCurrent
<1>4. \A x \in (Message \cup Process) \ {p} : x \in outdated' <=> x \in outdated
  BY DEF Tap, Inherit
<1>5. Goto(p, q) /\ UNCHANGED <<subscribed, menu>>
  BY <1>1 DEF Tap, UNCHANGEDSubscriptions
<1> HIDE DEF q
<1> QED
  BY <1>3, <1>4, <1>5, MoveCurrent

LEMMA LookCurrent ==
  ASSUME CurrentInv, NEW p \in Process, NEW m \in Message, NEW b \in Button,
         p \notin outdated => Current(b), Look(p, m, b)
  PROVE  MenusCurrent' /\ GoroutinesCurrent'
<1> DEFINE names == subscribed[b.about]
           Answered(buttons) == [Begin(m, b) EXCEPT !.pc = "edit", !.menu = buttons]
<1>1. b.about \in User /\ names \in SUBSET Event /\ UNCHANGED <<subscribed, menu>>
  BY DEF Button, CurrentInv, TypeOK, Look, UNCHANGEDSubscriptions
<1>2. \A x \in (Message \cup Process) \ {p} : x \in outdated' <=> x \in outdated
  BY DEF Look, Refuse, ShowList, ShowItem, ShowSeconds, FindPlace, FindName, Reread
<1>3. ASSUME NEW buttons, Answer(p, m, b, buttons),
             \A x \in buttons : x.about = b.about /\ (p \notin outdated' => Current(x))
      PROVE  MenusCurrent' /\ GoroutinesCurrent'
  <2>1. Matches(Answered(buttons), p \notin outdated')
    BY <1>3 DEF Matches, Begin
  <2>2. Goto(p, Answered(buttons))
    BY <1>3 DEF Answer
  <2> HIDE DEF Answered
  <2> QED
    BY <1>1, <1>2, <2>1, <2>2, MoveCurrent
<1>4. ASSUME NEW e, Found(p, m, b, e), p \notin outdated' => e = b.label
      PROVE  MenusCurrent' /\ GoroutinesCurrent'
  <2> DEFINE q == [Begin(m, b) EXCEPT !.event = e]
  <2>1. Matches(q, p \notin outdated') /\ Goto(p, q)
    BY <1>4 DEF Matches, Begin, Found
  <2> HIDE DEF q
  <2> QED
    BY <1>1, <1>2, <2>1, MoveCurrent
<1>5. CASE Refuse(p, m, b)
  BY <1>3, <1>5 DEF Refuse
<1>6. CASE ShowList(p, m, b)
  BY <1>1, <1>3, <1>6, ListMenuCurrent DEF ShowList
<1>7. CASE ShowItem(p, m, b)
  <2>1. ASSUME Within(names, b.place),
               NEW x \in ItemMenu(b.about, b.place, At(names, b.place)) \cup DelayMenu(b, At(names, b.place))
        PROVE  x.about = b.about /\ Current(x)
    BY <2>1 DEF ItemMenu, DelayMenu, MakeButton, Current
  <2> QED
    BY <1>3, <1>7, <2>1 DEF ShowItem
<1>8. CASE ShowSeconds(p, m, b)
  <2>1. ASSUME NEW x \in DelayMenu(b, b.label)
        PROVE  x.about = b.about /\ (p \notin outdated' => Current(x))
    BY <1>8 DEF ShowSeconds, DelayMenu, MakeButton, Current
  <2> QED
    BY <1>3, <1>8, <2>1 DEF ShowSeconds
<1>9. CASE FindPlace(p, m, b)
  <2>1. p \notin outdated' => At(names, b.place) = b.label
    BY <1>9 DEF FindPlace, Current
  <2> QED
    BY <1>3, <1>4, <1>9, <2>1 DEF FindPlace
<1>10. CASE FindName(p, m, b)
  BY <1>3, <1>4, <1>10 DEF FindName
<1> QED
  BY <1>5, <1>6, <1>7, <1>8, <1>9, <1>10 DEF Look

(* A change of the list of one chat marks what was made from it. *)
LEMMA AppliedCurrent ==
  ASSUME CurrentInv, NEW p \in Process, proc[p].pc = "apply", Applied(p), UNCHANGED menu,
         \A u \in User : u # Target(p) => subscribed'[u] = subscribed[u],
         \/ ListChanged(p) \/ UNCHANGED <<subscribed, outdated>>
  PROVE  MenusCurrent' /\ GoroutinesCurrent'
<1> DEFINE u == Target(p)
<1>1. \/ subscribed' = subscribed
      \/ MadeFrom(u) \ {p} \subseteq outdated'
  BY DEF ListChanged
<1>2. outdated \subseteq outdated'
  BY DEF ListChanged
<1>3. ASSUME NEW b \in Button, Current(b), subscribed' = subscribed \/ b.about # u
      PROVE  Current(b)'
  BY <1>3 DEF Current, Button
<1>4. MenusCurrent'
  <2> SUFFICES ASSUME NEW m \in Message \ outdated', NEW b \in menu[m] PROVE Current(b)'
    BY DEF MenusCurrent
  <2>1. b \in Button /\ Current(b)
    BY <1>2 DEF CurrentInv, TypeOK, MenusCurrent
  <2>2. ASSUME subscribed' # subscribed, b.about = u PROVE FALSE
    <3>1. m \in MadeFrom(u)
      BY <2>2 DEF MadeFrom
    <3>2. m # p
      BY DEF Process
    <3> QED
      BY <1>1, <2>2, <3>1, <3>2
  <2> QED
    BY <1>3, <2>1, <2>2
<1>5. GoroutinesCurrent'
  <2> SUFFICES ASSUME NEW x \in Process PROVE Matches(proc[x], x \notin outdated)'
    BY DEF GoroutinesCurrent
  <2>1. CASE x = p
    <3>1. proc'[p].pc = "answer"
      BY AtWork DEF CurrentInv, Applied, Goto, Handling, TypeOK
    <3> QED
      BY <2>1, <3>1 DEF Matches
  <2>2. CASE x # p
    <3>1. proc'[x] = proc[x] /\ Matches(proc[x], x \notin outdated)
      BY <2>2 DEF Applied, Goto, CurrentInv, TypeOK, GoroutinesCurrent
    <3>2. ASSUME proc[x].pc \in {"save", "edit"}, NEW b \in proc[x].menu, x \notin outdated'
          PROVE  Current(b)'
      <4>1. proc[x] # Idle /\ proc[x].menu \in SUBSET Button
        <5>1. proc[x].pc # "idle" /\ TypeOK
          BY <3>2 DEF CurrentInv
        <5>2. proc[x] # Idle
          BY <5>1 DEF Idle
        <5> QED
          BY <5>1, <5>2, AtWorkType
      <4>2. Current(b) /\ b.about = proc[x].button.about
        BY <1>2, <3>1, <3>2 DEF Matches
      <4>3. b.about = u => x \in MadeFrom(u)
        BY <4>1, <4>2 DEF MadeFrom
      <4> QED
        BY <1>1, <1>3, <2>2, <3>2, <4>1, <4>2, <4>3
    <3>3. ASSUME proc[x].pc = "tapped", x \notin outdated' PROVE Current(proc[x].button)'
      <4>1. proc[x].pc # "idle" /\ TypeOK
        BY <3>3 DEF CurrentInv
      <4>2. proc[x] # Idle /\ proc[x].button \in Button
        <5>1. proc[x] # Idle
          BY <4>1 DEF Idle
        <5> QED
          BY <4>1, <5>1, AtWorkType
      <4>3. Current(proc[x].button)
        BY <1>2, <3>1, <3>3 DEF Matches
      <4>4. proc[x].button.about = u => x \in MadeFrom(u)
        BY <4>2 DEF MadeFrom
      <4>5. subscribed' = subscribed \/ proc[x].button.about # u
        BY <1>1, <2>2, <3>3, <4>4
      <4> QED
        BY <1>3, <3>1, <4>2, <4>3, <4>5 DEF Current
    <3> QED
      BY <1>2, <3>1, <3>2, <3>3 DEF Matches
  <2> QED
    BY <2>1, <2>2
<1> QED
  BY <1>4, <1>5

LEMMA ContinueCurrent ==
  ASSUME CurrentInv, NEW p \in Process, Continue(p)
  PROVE  MenusCurrent' /\ GoroutinesCurrent'
<1> DEFINE q == proc[p]
           Answered(buttons) == [Begin(q.message, q.button) EXCEPT !.pc = "edit", !.menu = buttons]
<1>1. CASE ApplySubscribe(p) \/ ApplyUnsub(p)
  <2>1. \A u \in User : u # Target(p) => subscribed'[u] = subscribed[u]
    BY <1>1 DEF ApplySubscribe, ApplyUnsub, Without, CurrentInv, TypeOK
  <2> QED
    BY <1>1, <2>1, AppliedCurrent DEF ApplySubscribe, ApplyUnsub
<1>2. ASSUME q.pc = "apply", Applied(p), UNCHANGED <<subscribed, menu, outdated>>
      PROVE  MenusCurrent' /\ GoroutinesCurrent'
  BY <1>2, AppliedCurrent
<1>3. CASE ApplyPause(p)
  <2>1. CASE Answer(p, q.message, q.button, {})
    <3>1. Matches(Answered({}), p \notin outdated')
      BY DEF Matches, Begin
    <3>2. Goto(p, Answered({}))
      BY <2>1 DEF Answer
    <3> HIDE DEF Answered
    <3> QED
      BY <1>3, <3>1, <3>2, MoveCurrent DEF ApplyPause
  <2> QED
    BY <1>2, <1>3, <2>1 DEF ApplyPause
<1>4. CASE ApplyPauseAll(p) \/ ApplyDelay(p)
  BY <1>2, <1>4 DEF ApplyPauseAll, ApplyDelay
<1>5. CASE MakeAnswer(p)
  <2> DEFINE n == [q EXCEPT !.pc = "save", !.menu = NextMenu(p)]
  <2>1. subscribed[q.button.about] \in SUBSET Event /\ q \in Handling
    BY <1>5, AtWork, AtWorkType DEF CurrentInv, MakeAnswer, Target
  <2>2. \A b \in NextMenu(p) : b.about = q.button.about /\ Current(b)
    BY <2>1, RowCurrent DEF NextMenu, Listed, Names, Target
  <2>3. Matches(n, p \notin outdated')
    BY <2>1, <2>2 DEF Matches, Handling
  <2>4. Goto(p, n)
    BY <1>5 DEF MakeAnswer
  <2> HIDE DEF n
  <2> QED
    BY <1>5, <2>3, <2>4, MoveCurrent DEF MakeAnswer, Reread, UNCHANGEDSubscriptions
<1>6. CASE Save(p)
  <2>1. Matches(q, p \notin outdated) /\ q.pc = "save"
    BY <1>6 DEF CurrentInv, GoroutinesCurrent, Save
  <2>2. Matches(Answered(q.menu), p \notin outdated')
    BY <1>6, <2>1 DEF Matches, Begin, Save
  <2>3. Goto(p, Answered(q.menu))
    BY <1>6 DEF Save, Answer
  <2> HIDE DEF Answered
  <2> QED
    BY <1>6, <2>2, <2>3, MoveCurrent DEF Save, UNCHANGEDSubscriptions
<1>7. CASE Edit(p)
  <2>1. \A x \in Process : proc'[x] = IF x = p THEN Idle ELSE proc[x]
    BY <1>7 DEF Edit, Goto, CurrentInv, TypeOK
  <2>2. q.message \in Message /\ q.message \notin Process
    BY <1>7, AtWorkType DEF Edit, CurrentInv, Process
  <2>3. \A b : Current(b)' <=> Current(b)
    BY <1>7 DEF Edit, UNCHANGEDSubscriptions, Current
  <2>4. \A x \in Process \ {p} : x \in outdated' <=> x \in outdated
    BY <1>7, <2>2 DEF Edit, Reread
  <2>5. GoroutinesCurrent'
    <3> SUFFICES ASSUME NEW x \in Process PROVE Matches(proc[x], x \notin outdated)'
      BY DEF GoroutinesCurrent
    <3>1. CASE x = p
      BY <2>1, <3>1 DEF Matches, Idle
    <3>2. CASE x # p
      BY <2>1, <2>3, <2>4, <3>2 DEF Matches, CurrentInv, GoroutinesCurrent
    <3> QED
      BY <3>1, <3>2
  <2>6. MenusCurrent'
    <3> SUFFICES ASSUME NEW m \in Message, m \notin outdated', NEW b \in menu'[m] PROVE Current(b)
      BY <2>3 DEF MenusCurrent
    <3>1. CASE menu'[m] = menu[m] /\ (m \in outdated' <=> m \in outdated)
      BY <3>1 DEF CurrentInv, MenusCurrent
    <3>2. CASE menu'[m] = q.menu /\ p \notin outdated
      BY <1>7, <3>2 DEF Edit, CurrentInv, GoroutinesCurrent, Matches
    <3>3. \/ menu'[m] = menu[m] /\ (m \in outdated' <=> m \in outdated)
          \/ menu'[m] = q.menu /\ p \notin outdated
      BY <1>7, <2>2 DEF Edit, Reread, CurrentInv, TypeOK, Process
    <3> QED
      BY <3>1, <3>2, <3>3
  <2> QED
    BY <2>5, <2>6
<1>8. CASE Serve(p)
  <2>1. p \notin outdated => Current(q.button)
    BY <1>8 DEF Serve, CurrentInv, GoroutinesCurrent, Matches
  <2>2. q.message \in Message /\ q.button \in Button
    BY <1>8, AtWorkType DEF Serve, CurrentInv
  <2> QED
    BY <1>8, <2>1, <2>2, LookCurrent DEF Serve
<1> QED
  BY <1>1, <1>3, <1>4, <1>5, <1>6, <1>7, <1>8 DEF Continue

LEMMA CurrentStep == CurrentInv /\ [Next]_vars => CurrentInv'
<1> SUFFICES ASSUME CurrentInv, [Next]_vars PROVE CurrentInv'
  OBVIOUS
<1>1. TypeOK'
  BY TypeStep DEF CurrentInv
<1>2. ASSUME NEW p \in Press, NEW m \in Message, Tap(p, m) \/ TapPlain(p, m)
      PROVE  MenusCurrent' /\ GoroutinesCurrent'
  <2>1. CASE TapPlain(p, m)
    <3>1. PICK b \in Tappable(m) : b.place = NoPlace /\ Look(p, m, b)
      BY <2>1 DEF TapPlain
    <3> QED
      BY <3>1, ButtonType, LookCurrent DEF Current, Process, CurrentInv
  <2> QED
    BY <1>2, <2>1, TapCurrent DEF Process
<1>3. ASSUME NEW m \in Message, Type(m) PROVE MenusCurrent' /\ GoroutinesCurrent'
  <2>1. PICK b \in Commands(ChatOf[m]) : Look(Poller, m, b)
    BY <1>3 DEF Type
  <2>2. b.place = NoPlace
    BY <2>1 DEF Commands, Lists, ByName, AllOnes, RulesByName, MakeButton
  <2> QED
    BY <2>1, <2>2, ButtonType, LookCurrent DEF Current, Process, CurrentInv
<1>4. ASSUME UNCHANGED <<subscribed, menu, proc, outdated>>
      PROVE  MenusCurrent' /\ GoroutinesCurrent'
  BY <1>4 DEF CurrentInv, MenusCurrent, GoroutinesCurrent, Matches, Current
<1>5. ASSUME NEW u \in Manager, Role(u) PROVE MenusCurrent' /\ GoroutinesCurrent'
  BY <1>4, <1>5 DEF Role, UNCHANGEDSubscriptions
<1>6. CASE UNCHANGED vars
  BY <1>1, <1>4, <1>6 DEF vars, CurrentInv
<1> QED
  BY <1>1, <1>2, <1>3, <1>5, <1>6, ContinueCurrent DEF Next, CurrentInv

LEMMA CurrentInit == Init => CurrentInv
BY TypeInit DEF Init, CurrentInv, MenusCurrent, GoroutinesCurrent, Matches, Idle

(* A tap changes what its button names, unless another goroutine changed the *)
(* list since the menu was made (wizard.go:317 looks the index up anew).     *)
THEOREM UndisturbedTaps == Spec => []UndisturbedTap
<1>1. CurrentInv => UndisturbedTap
  BY DEF CurrentInv, GoroutinesCurrent, Matches, UndisturbedTap, Process
<1> QED
  BY <1>1, CurrentInit, CurrentStep, PTL DEF Spec

-----------------------------------------------------------------------------
(* The menus implement SubscriptionOrders *)

Statuses == [u \in User |-> [e \in Event |-> Status(u, e)]]
OrdersGiven == [p \in Process |-> OrderOf(proc[p])]

LEMMA OrderMoved ==
  ASSUME TypeOK, NEW p \in Process, NEW q, Goto(p, q)
  PROVE  OrdersGiven' = [OrdersGiven EXCEPT ![p] = OrderOf(q)]
<1>1. \A x \in Process : proc'[x] = IF x = p THEN q ELSE proc[x]
  BY DEF TypeOK, Goto
<1>2. \A x \in Process : OrderOf(proc[x])' = IF x = p THEN OrderOf(q) ELSE OrderOf(proc[x])
  BY <1>1 DEF OrderOf
<1> QED
  BY <1>2 DEF OrdersGiven

(* What changes no subscription, no role and no order is not seen.           *)
LEMMA MoveMaps ==
  ASSUME TypeOK, NEW p \in Process, NEW q, Goto(p, q), OrderOf(q) = OrderOf(proc[p]),
         UNCHANGED <<subscribed, ruled, admins, unsaved>>
  PROVE  UNCHANGED Orders!orderVars
<1>1. UNCHANGED OrdersGiven
  BY OrderMoved DEF OrdersGiven
<1>2. UNCHANGED Statuses
  BY DEF Statuses, Status
<1> QED
  BY <1>1, <1>2 DEF Orders!orderVars, OrdersGiven, Statuses

LEMMA NoOrder ==
  ASSUME NEW q, q.pc \in {"idle", "tapped", "edit"}
  PROVE  OrderOf(q) = Orders!None
BY DEF OrderOf, Orders!None

LEMMA AnswerNoOrder ==
  ASSUME NEW m, NEW b, NEW buttons
  PROVE  OrderOf([Begin(m, b) EXCEPT !.pc = "edit", !.menu = buttons]) = Orders!None
BY DEF Begin, OrderOf, Orders!None

(* The order of a goroutine that is about to change something.               *)
LEMMA OrderToApply ==
  ASSUME TypeOK, NEW p \in Process, proc[p].pc = "apply"
  PROVE  /\ OrderOf(proc[p]) \in Orders!Orders
         /\ OrderOf(proc[p]).what = WhatFor(proc[p].button.do)
         /\ OrderOf(proc[p]).of = Target(p)
         /\ OrderOf(proc[p]).names =
              IF proc[p].button.do = "pauseAll" THEN Event ELSE {proc[p].event}
<1>1. /\ proc[p].message \in Message /\ Target(p) \in User
      /\ proc[p].button.do = "pauseAll" \/ proc[p].event \in Event
  BY AtWork, AtWorkType DEF Handling
<1>2. WhatFor(proc[p].button.do) \in {"subscribe", "unsubscribe", "rule"}
  BY DEF WhatFor
<1>3. ChatOf[proc[p].message] \in User
  BY <1>1
<1> DEFINE o == [what |-> WhatFor(proc[p].button.do), by |-> ChatOf[proc[p].message],
                 of |-> Target(p),
                 names |-> IF proc[p].button.do = "pauseAll" THEN Event ELSE {proc[p].event}]
<1>4. OrderOf(proc[p]) = o
  BY DEF OrderOf, Target
<1>5. o \in Orders!Orders
  BY <1>1, <1>2, <1>3 DEF Orders!Orders, Orders!Whole
<1> QED
  BY <1>4, <1>5

(* The first look gives an order or none.                                    *)
LEMMA LookMaps ==
  ASSUME TypeOK, NEW p \in Process, NEW m \in Message, NEW b \in Button, Look(p, m, b),
         proc[p].pc \in {"idle", "tapped"}
  PROVE  Orders!Give(p) \/ UNCHANGED Orders!orderVars
<1> DEFINE names == subscribed[b.about]
           Answered(buttons) == [Begin(m, b) EXCEPT !.pc = "edit", !.menu = buttons]
<1>1. UNCHANGED <<subscribed, ruled, admins, unsaved>> /\ OrderOf(proc[p]) = Orders!None
  BY NoOrder DEF Look, UNCHANGEDSubscriptions
<1>2. ASSUME NEW buttons, Answer(p, m, b, buttons) PROVE UNCHANGED Orders!orderVars
  <2>1. Goto(p, Answered(buttons)) /\ OrderOf(Answered(buttons)) = OrderOf(proc[p])
    BY <1>1, <1>2, AnswerNoOrder DEF Answer
  <2> HIDE DEF Answered
  <2> QED
    BY <1>1, <2>1, MoveMaps
<1>3. ASSUME NEW e, e \in Event \/ b.do = "pauseAll", Allowed(m, b), Found(p, m, b, e)
      PROVE  Orders!Give(p)
  <2> DEFINE q == [Begin(m, b) EXCEPT !.event = e]
             o == [what |-> WhatFor(b.do), by |-> ChatOf[m], of |-> b.about,
                   names |-> IF b.do = "pauseAll" THEN Event ELSE {e}]
  <2>1. OrderOf(q) = o
    BY DEF OrderOf, Begin
  <2>2. /\ WhatFor(b.do) \in {"subscribe", "unsubscribe", "rule"}
        /\ b.about \in User /\ ChatOf[m] \in User
    BY DEF WhatFor, Button
  <2>3. o \in Orders!Orders
    BY <1>3, <2>2 DEF Orders!Orders, Orders!Whole
  <2>4. o.by = o.of \/ o.by \in admins
    BY <1>3 DEF Allowed, IsOwn
  <2> HIDE DEF o, q
  <2>5. OrdersGiven' = [OrdersGiven EXCEPT ![p] = o]
    BY <1>3, <2>1, OrderMoved DEF Found, q
  <2>6. OrdersGiven'[p] = o /\ OrdersGiven[p] = Orders!None
    BY <1>1, <2>5 DEF OrdersGiven
  <2>7. UNCHANGED Statuses
    BY <1>1 DEF Statuses, Status
  <2> QED
    BY <1>1, <2>3, <2>4, <2>5, <2>6, <2>7 DEF Orders!Give, OrdersGiven, Statuses
<1>4. CASE Refuse(p, m, b) \/ ShowList(p, m, b) \/ ShowItem(p, m, b) \/ ShowSeconds(p, m, b)
  BY <1>2, <1>4 DEF Refuse, ShowList, ShowItem, ShowSeconds
<1>5. CASE FindPlace(p, m, b)
  <2>1. Within(names, b.place) => At(names, b.place) \in Event
    BY AtType DEF TypeOK, Button
  <2> QED
    BY <1>2, <1>3, <1>5, <2>1 DEF FindPlace
<1>6. CASE FindName(p, m, b)
  <2>1. b.label \in Event \/ b.do = "pauseAll"
    BY <1>6 DEF FindName, Button, Nameless
  <2> QED
    BY <1>2, <1>3, <1>6, <2>1 DEF FindName
<1> QED
  BY <1>4, <1>5, <1>6 DEF Look

(* A change of just what was ordered.                                        *)
LEMMA AppliedMaps ==
  ASSUME TypeOK, NEW p \in Process, proc[p].pc = "apply", Applied(p), UNCHANGED admins,
         \A u \in User, e \in Event :
           Status(u, e)' =
             IF u = Target(p) /\ (proc[p].button.do = "pauseAll" \/ e = proc[p].event)
               THEN Orders!Becomes(WhatFor(proc[p].button.do), Status(u, e))
               ELSE Status(u, e)
  PROVE  Orders!CarryOut(p)
<1> DEFINE o == OrderOf(proc[p])
           q == [proc[p] EXCEPT !.pc = "answer", !.save = TRUE]
<1>1. OrdersGiven[p] = o /\ o \in Orders!Orders
  BY OrderToApply DEF OrdersGiven
<1>2. /\ o.what = WhatFor(proc[p].button.do) /\ o.of = Target(p)
      /\ o.names = IF proc[p].button.do = "pauseAll" THEN Event ELSE {proc[p].event}
  BY OrderToApply DEF o
<1>3. proc[p] \in Handling /\ Target(p) \in User
  BY AtWork, AtWorkType
<1>4. OrderOf(q) = Orders!Saving(o.of)
  BY <1>2, <1>3 DEF OrderOf, Orders!Saving, Handling, Target
<1>5. unsaved' = unsaved \cup {o.of} /\ Goto(p, q)
  BY <1>2 DEF Applied, Saving
<1> HIDE DEF o, q
<1>6. OrdersGiven' = [OrdersGiven EXCEPT ![p] = Orders!Saving(o.of)]
  BY <1>4, <1>5, OrderMoved
<1>7. Statuses' = [Statuses EXCEPT ![OrdersGiven[p].of] =
        [e \in Event |->
           IF e \in OrdersGiven[p].names
             THEN Orders!Becomes(OrdersGiven[p].what, Statuses[OrdersGiven[p].of][e])
             ELSE Statuses[OrdersGiven[p].of][e]]]
  <2>1. \A e \in Event : e \in o.names <=> (proc[p].button.do = "pauseAll" \/ e = proc[p].event)
    BY <1>2
  <2> DEFINE After(u, e) == IF u = o.of /\ e \in o.names THEN Orders!Becomes(o.what, Status(u, e))
                                                       ELSE Status(u, e)
  <2>2. \A u \in User, e \in Event : Status(u, e)' = After(u, e)
    BY <1>2, <2>1
  <2>3. Statuses' = [u \in User |-> [e \in Event |-> Status(u, e)']]
    BY DEF Statuses
  <2>4. Statuses' = [u \in User |-> [e \in Event |-> After(u, e)]]
    <3> HIDE DEF After
    <3> QED
      BY <2>2, <2>3
  <2>5. \A u \in User : Statuses[u] = [e \in Event |-> Status(u, e)]
    BY DEF Statuses
  <2>6. Statuses' = [Statuses EXCEPT ![o.of] =
          [e \in Event |-> IF e \in o.names THEN Orders!Becomes(o.what, Statuses[o.of][e])
                                            ELSE Statuses[o.of][e]]]
    <3>1. o.of \in User
      BY <1>2, <1>3
    <3>2. [e \in Event |-> IF e \in o.names THEN Orders!Becomes(o.what, Statuses[o.of][e])
                                            ELSE Statuses[o.of][e]]
            = [e \in Event |-> After(o.of, e)]
      <4>1. \A e \in Event : Statuses[o.of][e] = Status(o.of, e)
        BY <2>5, <3>1
      <4> QED
        BY <4>1
    <3>3. \A u \in User \ {o.of} : Statuses[u] = [e \in Event |-> After(u, e)]
      BY <2>5
    <3>4. Statuses = [u \in User |-> Statuses[u]]
      BY DEF Statuses
    <3> HIDE DEF After
    <3> QED
      BY <2>4, <3>2, <3>3, <3>4
  <2> QED
    BY <1>1, <2>6
<1>8. /\ OrdersGiven[p] \in Orders!Orders
      /\ OrdersGiven' = [OrdersGiven EXCEPT ![p] = Orders!Saving(OrdersGiven[p].of)]
      /\ unsaved' = unsaved \cup {OrdersGiven[p].of}
  BY <1>1, <1>5, <1>6
<1> QED
  BY <1>7, <1>8 DEF Orders!CarryOut, OrdersGiven, Statuses

LEMMA SubscribeMaps ==
  ASSUME TypeOK, NEW p \in Process, ApplySubscribe(p)
  PROVE  Orders!CarryOut(p)
<1>1. proc[p].pc = "apply" /\ proc[p].button.do = "subscribe" /\ Applied(p) /\ UNCHANGED admins
  BY DEF ApplySubscribe
<1>2. \A u \in User : /\ ruled'[u] = ruled[u] /\ ruled[u] \subseteq subscribed[u]
                      /\ subscribed'[u] = IF u = Target(p) THEN subscribed[u] \cup {proc[p].event}
                                                           ELSE subscribed[u]
  BY DEF ApplySubscribe, TypeOK
<1>3. WhatFor(proc[p].button.do) = "subscribe"
  BY <1>1 DEF WhatFor
<1>4. ASSUME NEW u \in User, NEW e \in Event
      PROVE  Status(u, e)' = IF u = Target(p) /\ e = proc[p].event
               THEN Orders!Becomes("subscribe", Status(u, e)) ELSE Status(u, e)
  BY <1>2 DEF Status, Orders!Becomes
<1> QED
  BY <1>1, <1>3, <1>4, AppliedMaps

LEMMA UnsubMaps ==
  ASSUME TypeOK, NEW p \in Process, ApplyUnsub(p)
  PROVE  Orders!CarryOut(p)
<1>1. /\ proc[p].pc = "apply" /\ proc[p].button.do \in {"unsub", "drop"}
      /\ Applied(p) /\ UNCHANGED admins
  BY DEF ApplyUnsub
<1>2. \A u \in User :
        /\ subscribed'[u] = IF u = Target(p) THEN subscribed[u] \ {proc[p].event} ELSE subscribed[u]
        /\ ruled'[u] = IF u = Target(p) THEN ruled[u] \ {proc[p].event} ELSE ruled[u]
  BY DEF ApplyUnsub, Without, TypeOK
<1>3. WhatFor(proc[p].button.do) = "unsubscribe"
  BY <1>1 DEF WhatFor
<1>4. ASSUME NEW u \in User, NEW e \in Event
      PROVE  Status(u, e)' = IF u = Target(p) /\ e = proc[p].event
               THEN Orders!Becomes("unsubscribe", Status(u, e)) ELSE Status(u, e)
  BY <1>2 DEF Status, Orders!Becomes
<1> QED
  BY <1>1, <1>3, <1>4, AppliedMaps

(* Rules are set of subscriptions that are there.                            *)
LEMMA RuleMaps ==
  ASSUME TypeOK, NEW p \in Process, proc[p].pc = "apply", Applied(p),
         UNCHANGED <<subscribed, admins>>, NEW events, ruled' = SetRules(Target(p), events),
         \/ proc[p].button.do \in {"pause", "delay"} /\ events = {proc[p].event}
         \/ proc[p].button.do = "pauseAll" /\ events = Names(p)
  PROVE  Orders!CarryOut(p)
<1>1. \A u \in User : subscribed'[u] = subscribed[u]
        /\ ruled'[u] = IF u = Target(p) THEN ruled[u] \cup (events \cap subscribed[u]) ELSE ruled[u]
  BY DEF SetRules, TypeOK
<1>2. WhatFor(proc[p].button.do) = "rule"
  BY DEF WhatFor
<1>3. ASSUME NEW u \in User, NEW e \in Event
      PROVE  Status(u, e)' =
               IF u = Target(p) /\ (proc[p].button.do = "pauseAll" \/ e = proc[p].event)
                 THEN Orders!Becomes("rule", Status(u, e)) ELSE Status(u, e)
  BY <1>1 DEF Status, Orders!Becomes, Names
<1> QED
  BY <1>2, <1>3, AppliedMaps

LEMMA PauseMaps ==
  ASSUME TypeOK, NEW p \in Process, ApplyPause(p)
  PROVE  Orders!CarryOut(p) \/ Orders!Withdraw(p)
<1> DEFINE o == OrderOf(proc[p])
<1>1. /\ proc[p].pc = "apply" /\ proc[p].button.do = "pause"
      /\ UNCHANGED <<subscribed, admins>> /\ ruled' = SetRules(Target(p), {proc[p].event})
  BY DEF ApplyPause
<1>2. CASE Applied(p)
  BY <1>1, <1>2, RuleMaps
<1>3. CASE /\ proc[p].event \notin Names(p) /\ UNCHANGED unsaved
           /\ Answer(p, proc[p].message, proc[p].button, {})
  <2>1. Target(p) \in User
    BY <1>1, AtWorkType
  <2>2. UNCHANGED Statuses
    <3>1. \A u \in User : ruled'[u] = ruled[u]
      BY <1>1, <1>3 DEF SetRules, Names, TypeOK
    <3> QED
      BY <1>1, <3>1 DEF Statuses, Status
  <2>3. OrdersGiven[p] = o /\ o \in Orders!Orders /\ o.what = "rule" /\ o.of = Target(p)
          /\ o.names = {proc[p].event}
    BY <1>1, OrderToApply DEF OrdersGiven, WhatFor
  <2>4. OrdersGiven' = [OrdersGiven EXCEPT ![p] = Orders!None]
    <3> DEFINE q == [Begin(proc[p].message, proc[p].button) EXCEPT !.pc = "edit", !.menu = {}]
    <3>1. Goto(p, q) /\ OrderOf(q) = Orders!None
      BY <1>3, AnswerNoOrder DEF Answer
    <3> HIDE DEF q
    <3> QED
      BY <3>1, OrderMoved
  <2>5. \A e \in o.names : Statuses[o.of][e] = "none"
    <3>1. proc[p].event \in Event
      BY <1>1, AtWork DEF Handling
    <3> QED
      BY <1>3, <2>1, <2>3, <3>1 DEF Statuses, Status, Names
  <2> HIDE DEF o
  <2> QED
    BY <1>1, <1>3, <2>2, <2>3, <2>4, <2>5 DEF Orders!Withdraw, OrdersGiven, Statuses
<1> QED
  BY <1>2, <1>3 DEF ApplyPause

LEMMA SaveMaps ==
  ASSUME TypeOK, NEW p \in Process, Save(p)
  PROVE  Orders!Save(p) \/ UNCHANGED Orders!orderVars
<1> DEFINE q == [Begin(proc[p].message, proc[p].button) EXCEPT !.pc = "edit", !.menu = proc[p].menu]
<1>1. Goto(p, q) /\ OrderOf(q) = Orders!None
  BY AnswerNoOrder DEF Save, Answer
<1>2. UNCHANGED <<subscribed, ruled, admins>> /\ proc[p].pc = "save"
  BY DEF Save, UNCHANGEDSubscriptions
<1>3. UNCHANGED Statuses
  BY <1>2 DEF Statuses, Status
<1> HIDE DEF q
<1>4. OrdersGiven' = [OrdersGiven EXCEPT ![p] = Orders!None]
  BY <1>1, OrderMoved
<1>5. CASE proc[p].save
  <2>1. OrdersGiven[p] = Orders!Saving(Target(p)) /\ Target(p) \in User /\ unsaved' = {}
    BY <1>2, <1>5, AtWorkType DEF OrdersGiven, OrderOf, Orders!Saving, Target, Save
  <2> QED
    BY <1>2, <1>3, <1>4, <2>1 DEF Orders!Save, OrdersGiven, Statuses
<1>6. CASE ~proc[p].save
  <2>1. OrderOf(proc[p]) = Orders!None /\ UNCHANGED unsaved
    BY <1>2, <1>6 DEF OrderOf, Orders!None, Save
  <2> QED
    BY <1>1, <1>2, <2>1, MoveMaps
<1> QED
  BY <1>5, <1>6

LEMMA ContinueMaps ==
  ASSUME TypeOK, NEW p \in Process, Continue(p)
  PROVE  \/ Orders!Give(p) \/ Orders!CarryOut(p) \/ Orders!Withdraw(p) \/ Orders!Save(p)
         \/ UNCHANGED Orders!orderVars
<1>1. CASE Serve(p)
  <2>1. proc[p].message \in Message /\ proc[p].button \in Button
    BY <1>1, AtWorkType DEF Serve
  <2> QED
    BY <1>1, <2>1, LookMaps DEF Serve
<1>2. CASE ApplyPauseAll(p)
  BY <1>2, RuleMaps DEF ApplyPauseAll
<1>3. CASE ApplyDelay(p)
  BY <1>3, RuleMaps DEF ApplyDelay
<1>4. CASE MakeAnswer(p)
  <2> DEFINE q == [proc[p] EXCEPT !.pc = "save", !.menu = NextMenu(p)]
  <2>1. proc[p] \in Handling /\ proc[p].pc = "answer" /\ Goto(p, q)
    BY <1>4, AtWork DEF MakeAnswer
  <2>2. OrderOf(q) = OrderOf(proc[p])
    BY <2>1 DEF OrderOf, Handling
  <2> HIDE DEF q
  <2> QED
    BY <1>4, <2>1, <2>2, MoveMaps DEF MakeAnswer, UNCHANGEDSubscriptions
<1>5. CASE Edit(p)
  <2>1. OrderOf(Idle) = OrderOf(proc[p])
    BY <1>5, NoOrder DEF Edit, Idle
  <2> QED
    BY <1>5, <2>1, MoveMaps DEF Edit, UNCHANGEDSubscriptions
<1> QED
  BY <1>1, <1>2, <1>3, <1>4, <1>5, SubscribeMaps, UnsubMaps, PauseMaps, SaveMaps DEF Continue

LEMMA OrdersInit == Init => Orders!Init
<1> SUFFICES ASSUME Init PROVE Orders!Init
  OBVIOUS
<1>1. \A p \in Process : OrderOf(proc[p]) = Orders!None
  BY NoOrder DEF Init, Idle
<1>2. \A u \in User, e \in Event : Status(u, e) = "none"
  BY DEF Init, Status
<1> QED
  BY <1>1, <1>2 DEF Init, Orders!Init

LEMMA OrdersStep == TypeOK /\ [Next]_vars => [Orders!Next]_(Orders!orderVars)
<1> SUFFICES ASSUME TypeOK, [Next]_vars PROVE [Orders!Next]_(Orders!orderVars)
  OBVIOUS
<1>1. ASSUME NEW p \in Press, NEW m \in Message, Tap(p, m) PROVE UNCHANGED Orders!orderVars
  <2>1. PICK b : Goto(p, [Begin(m, b) EXCEPT !.pc = "tapped"]) /\ proc[p] = Idle
    BY <1>1 DEF Tap, MayBegin
  <2> DEFINE q == [Begin(m, b) EXCEPT !.pc = "tapped"]
  <2>2. OrderOf(q) = OrderOf(proc[p])
    BY <2>1, NoOrder DEF Begin, Idle
  <2>3. Goto(p, q)
    BY <2>1
  <2> HIDE DEF q
  <2> QED
    BY <1>1, <2>2, <2>3, MoveMaps DEF Tap, UNCHANGEDSubscriptions, Process
<1>2. ASSUME NEW p \in Process, NEW m \in Message, NEW b \in Button, MayBegin(p), Look(p, m, b)
      PROVE  Orders!Next \/ UNCHANGED Orders!orderVars
  BY <1>2, LookMaps DEF MayBegin, Idle, Orders!Next
<1>3. ASSUME NEW p \in Press, NEW m \in Message, TapPlain(p, m)
      PROVE  Orders!Next \/ UNCHANGED Orders!orderVars
  BY <1>2, <1>3, ButtonType DEF TapPlain, Process
<1>4. ASSUME NEW m \in Message, Type(m) PROVE Orders!Next \/ UNCHANGED Orders!orderVars
  BY <1>2, <1>4, ButtonType DEF Type, Process
<1>5. ASSUME NEW p \in Process, Continue(p) PROVE Orders!Next \/ UNCHANGED Orders!orderVars
  BY <1>5, ContinueMaps DEF Orders!Next
<1>6. ASSUME NEW u \in Manager, Role(u) PROVE Orders!Next
  <2>1. u \in User /\ UNCHANGED <<subscribed, ruled, proc, unsaved>>
    BY <1>6 DEF Role, UNCHANGEDSubscriptions
  <2>2. UNCHANGED Statuses /\ UNCHANGED OrdersGiven
    BY <2>1 DEF Statuses, Status, OrdersGiven
  <2>3. Orders!Role(u)
    BY <1>6, <2>1, <2>2 DEF Role, Orders!Role, Statuses, OrdersGiven
  <2> QED
    BY <2>1, <2>3 DEF Orders!Next
<1>7. CASE UNCHANGED vars
  BY <1>7 DEF vars, Orders!orderVars, Status
<1> QED
  BY <1>1, <1>3, <1>4, <1>5, <1>6, <1>7 DEF Next

(* However many chats, admins, menus and goroutines: what a tap or a command *)
(* found is changed, of the chat its menu is about, and nothing else, and    *)
(* saved; and only the chat or an admin can have it changed (the handlers of *)
(* wizard.go, wizard_cmds.go and wizard_admin_subs.go).                      *)
THEOREM OrdersImplemented == Spec => OrdersCarriedOut
<1>1. Init => Orders!Init
  BY OrdersInit
<1>2. TypeOK /\ [Next]_vars => [Orders!Next]_(Orders!orderVars)
  BY OrdersStep
<1> QED
  BY <1>1, <1>2, TypeCorrect, PTL DEF Spec, OrdersCarriedOut, Orders!Spec

=============================================================================
