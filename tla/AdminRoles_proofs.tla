-------------------------- MODULE AdminRoles_proofs --------------------------
(****************************************************************************)
(* Proofs about AdminRoles for any number of chats and button presses.      *)
(*                                                                          *)
(* RolesSaved excuses a chat while the handler that changes it has yet to   *)
(* save.  It is kept because such a handler always writes the record of the *)
(* chat it names and always ends in a save: HandlerInv.                     *)
(****************************************************************************)
EXTENDS AdminRoles, TLAPS

USE RolesAssumption

-----------------------------------------------------------------------------
(* The inductive invariant *)

HandlerInv ==
  \A p \in Process : LET q == proc[p] IN
    /\ q.pc \in {"enter", "find"} => q.action \in Action \cup {"delete"}
    /\ q.pc \in {"create", "unauth", "dispatch"} => q.action # "delete"
    /\ q.pc = "write" => ID(q.target) = q.user /\ q.todo # <<>>

IInv == TypeOK /\ HandlerInv /\ RolesSaved

-----------------------------------------------------------------------------
(* Records and handlers *)

LEMMA IDOfRecord ==
  /\ \A r \in Record : ID(r) \in User /\ r = <<ID(r), r[2]>> /\ r[2] \in Address
  /\ \A u \in User, a \in Address : <<u, a>> \in Record /\ ID(<<u, a>>) = u
BY DEF Record, ID

LEMMA SomeoneIsUser == Someone \in User
BY DEF Someone

LEMMA IdleType == Idle \in Handler
<1>1. <<Someone, 1>> \in Record
  BY SomeoneIsUser, IDOfRecord DEF Address
<1>2. <<>> \in Seq(Accessor)
  OBVIOUS
<1> QED
  BY <1>1, <1>2, SomeoneIsUser DEF Idle, Handler, Step

LEMMA NewFlagsType == NewFlags \in Flags
BY DEF NewFlags, Flags

LEMMA RecordOfType ==
  ASSUME TypeOK, NEW u \in User, Known(u)
  PROVE  RecordOf(u) \in Record /\ ID(RecordOf(u)) = u
BY IDOfRecord DEF TypeOK, Known, RecordOf

LEMMA ImageType == TypeOK => Image \in [User -> Saved]
BY RecordOfType DEF TypeOK, Image, Saved

(* The accessors of an action: a non-empty sequence of them. *)
LEMMA CallsType ==
  ASSUME NEW action \in Action
  PROVE  /\ Calls(action) \in Seq(Accessor) /\ Calls(action) # <<>>
         /\ MenuCalls(action) \in Seq(Accessor) /\ MenuCalls(action) # <<>>
<1>1. \A f \in {"admin", "ignored", "authed"}, v \in BOOLEAN : <<f, v>> \in Accessor
  BY DEF Accessor
<1>2. \A a, b, c \in Accessor :
        /\ <<a>> \in Seq(Accessor) /\ <<a>> # <<>>
        /\ <<a, b>> \in Seq(Accessor) /\ <<a, b>> # <<>>
        /\ <<a, b, c>> \in Seq(Accessor) /\ <<a, b, c>> # <<>>
  OBVIOUS
<1>3. Calls(action) \in Seq(Accessor) /\ Calls(action) # <<>>
  BY <1>1, <1>2 DEF Action, Calls
<1> QED
  BY <1>1, <1>2, <1>3 DEF MenuCalls

(* A record changes in one chat only. *)
LEMMA ImageElsewhere ==
  ASSUME TypeOK, TypeOK', NEW u \in User,
         \A v \in User \ {u} : current'[v] = current[v],
         \A r \in Record : ID(r) # u => record'[r] = record[r]
  PROVE  \A v \in User \ {u} : Image'[v] = Image[v]
<1> TAKE v \in User \ {u}
<1>1. CASE Known(v)
  BY <1>1, RecordOfType DEF Image, Known, RecordOf
<1>2. CASE ~Known(v)
  BY <1>2 DEF Image, Known
<1> QED
  BY <1>1, <1>2

-----------------------------------------------------------------------------
(* Type correctness *)

LEMMA GotoType ==
  ASSUME TypeOK, NEW p \in Process, NEW q \in Handler, Goto(p, q)
  PROVE  proc' \in [Process -> Handler]
BY DEF TypeOK, Goto

LEMMA FinishType ==
  ASSUME TypeOK, NEW p \in Process, Finish(p)
  PROVE  proc' \in [Process -> Handler]
BY GotoType, IdleType DEF Finish

LEMMA CreateType ==
  ASSUME TypeOK, NEW u \in User, NEW admin \in BOOLEAN, Create(u, admin)
  PROVE  /\ record' \in [Record -> Flags] /\ current' \in [User -> {0} \cup Address]
         /\ current'[u] \in Address
         /\ \A v \in User \ {u} : current'[v] = current[v]
         /\ \A r \in Record : ID(r) # u => record'[r] = record[r]
<1>1. CASE Known(u)
  <2>1. RecordOf(u) \in Record /\ ID(RecordOf(u)) = u
    BY <1>1, RecordOfType
  <2>2. /\ record' = [record EXCEPT ![RecordOf(u)].admin = admin,
                                    ![RecordOf(u)].ignored = FALSE]
        /\ current' = current
    BY <1>1 DEF Create
  <2> QED
    BY <1>1, <2>1, <2>2 DEF TypeOK, Flags, Known
<1>2. CASE ~Known(u)
  <2>1. PICK a \in Address :
          /\ current' = [current EXCEPT ![u] = a]
          /\ record' = [record EXCEPT ![<<u, a>>] = [NewFlags EXCEPT !.admin = admin]]
    BY <1>2 DEF Create
  <2>2. <<u, a>> \in Record /\ ID(<<u, a>>) = u
    BY IDOfRecord
  <2>3. [NewFlags EXCEPT !.admin = admin] \in Flags
    BY DEF NewFlags, Flags
  <2> QED
    BY <2>1, <2>2, <2>3 DEF TypeOK
<1> QED
  BY <1>1, <1>2

LEMMA CallType ==
  ASSUME TypeOK, HandlerInv, NEW p \in Process, proc[p].pc = "write"
  PROVE  /\ Head(proc[p].todo) \in Accessor /\ Tail(proc[p].todo) \in Seq(Accessor)
         /\ Len(proc[p].todo) # 1 => Tail(proc[p].todo) # <<>>
<1>1. proc[p].todo \in Seq(Accessor) /\ proc[p].todo # <<>>
  BY DEF TypeOK, Handler, HandlerInv
<1>2. ASSUME NEW s \in Seq(Accessor), s # <<>>
      PROVE  Head(s) \in Accessor /\ Tail(s) \in Seq(Accessor) /\ Len(Tail(s)) = Len(s) - 1
             /\ Len(s) \in Nat \ {0}
  BY <1>2
<1>3. Len(proc[p].todo) # 1 => Len(Tail(proc[p].todo)) # 0
  BY <1>1, <1>2
<1>4. Len(<<>>) = 0
  OBVIOUS
<1> QED
  BY <1>1, <1>2, <1>3, <1>4

(* One accessor changes the record it is called on, and nothing else. *)
LEMMA WriteType ==
  ASSUME TypeOK, HandlerInv, NEW p \in Process, Write(p)
  PROVE  /\ record' \in [Record -> Flags]
         /\ \A r \in Record : ID(r) # proc[p].user => record'[r] = record[r]
<1>1. PICK field \in {"admin", "ignored", "authed"}, value \in BOOLEAN :
        Head(proc[p].todo) = <<field, value>>
  BY CallType DEF Write, Accessor
<1>2. record' = [record EXCEPT ![proc[p].target] = [@ EXCEPT ![field] = value]]
  <2>1. Head(proc[p].todo)[1] = field /\ Head(proc[p].todo)[2] = value
    BY <1>1
  <2> QED
    BY <2>1, Zenon DEF Write
<1>3. proc[p].target \in Record /\ ID(proc[p].target) = proc[p].user
  BY DEF Write, TypeOK, Handler, HandlerInv
<1>4. \A f \in Flags : [f EXCEPT ![field] = value] \in Flags
  <2>1. CASE field = "admin"
    BY <2>1 DEF Flags
  <2>2. CASE field = "ignored"
    BY <2>2 DEF Flags
  <2>3. CASE field = "authed"
    BY <2>3 DEF Flags
  <2> QED
    BY <2>1, <2>2, <2>3
<1> QED
  BY <1>2, <1>3, <1>4 DEF TypeOK

(* The variables keep their types, given what HandlerInv says of a handler. *)
LEMMA TypeStep == TypeOK /\ HandlerInv /\ [Next]_vars => TypeOK'
<1> SUFFICES ASSUME TypeOK, HandlerInv, [Next]_vars PROVE TypeOK'
  OBVIOUS
<1>1. CASE UNCHANGED vars
  BY <1>1 DEF vars, TypeOK
<1>2. CASE Next
  <2>1. disturbed' \subseteq Process
    BY <1>2 DEF Next, NoteDisturbed
  <2>2. SUFFICES /\ record' \in [Record -> Flags]
                 /\ current' \in [User -> {0} \cup Address]
                 /\ disk' \in [User -> Saved]
                 /\ proc' \in [Process -> Handler]
                 /\ unsaved' \subseteq User
    BY <2>1 DEF TypeOK
  <2>3. \A p \in Process : proc[p] \in Handler
    BY DEF TypeOK
  <2>4. Poller \in Process /\ Press \subseteq Process
    BY DEF Process
  <2> USE <2>4
  <2>5. ASSUME NEW p \in Press, ReceivePress(p) PROVE proc' \in [Process -> Handler]
    <3>1. PICK u \in User, action \in MenuAction, user \in User :
            /\ Known(u)
            /\ Goto(p, [Idle EXCEPT !.pc = "enter", !.by = RecordOf(u),
                                    !.action = action, !.user = user])
      BY <2>5 DEF ReceivePress
    <3>2. [Idle EXCEPT !.pc = "enter", !.by = RecordOf(u),
                       !.action = action, !.user = user] \in Handler
      BY <3>1, IdleType, RecordOfType DEF Handler, Step
    <3> QED
      BY <3>1, <3>2, GotoType
  <2>6. ASSUME NEW p \in Press, Enter(p) PROVE proc' \in [Process -> Handler]
    <3>1. [proc[p] EXCEPT !.pc = "find"] \in Handler
      BY <2>3 DEF Handler, Step
    <3> QED
      BY <2>6, <3>1, GotoType, FinishType DEF Enter
  <2>7. ASSUME NEW p \in Press, Find(p) PROVE proc' \in [Process -> Handler]
    <3>1. CASE Finish(p)
      BY <3>1, FinishType
    <3>2. CASE ~Finish(p)
      <4>1. Known(proc[p].user) /\ proc[p].pc = "find"
        BY <2>7, <3>2 DEF Find
      <4>2. MenuCalls(proc[p].action) \in Seq(Accessor)
        <5>1. proc[p].action \in Action \cup {"delete"}
          BY <4>1 DEF HandlerInv
        <5>2. CASE proc[p].action \in Action
          BY <5>2, CallsType
        <5>3. CASE proc[p].action = "delete"
          BY <5>3 DEF MenuCalls, Calls
        <5> QED
          BY <5>1, <5>2, <5>3
      <4>3. RecordOf(proc[p].user) \in Record
        BY <4>1, <2>3, RecordOfType DEF Handler
      <4>4. [proc[p] EXCEPT !.target = RecordOf(proc[p].user),
                            !.todo = MenuCalls(proc[p].action),
                            !.pc = IF proc[p].action = "delete" THEN "delete" ELSE "write"]
              \in Handler
        BY <4>2, <4>3, <2>3 DEF Handler, Step
      <4> QED
        BY <2>7, <3>2, <4>4, GotoType DEF Find
    <3> QED
      BY <3>1, <3>2
  <2>8. ASSUME NEW p \in Press, Delete(p)
        PROVE  proc' \in [Process -> Handler] /\ current' \in [User -> {0} \cup Address]
    <3>1. [proc[p] EXCEPT !.pc = "save"] \in Handler
      BY <2>3 DEF Handler, Step
    <3> QED
      BY <2>8, <3>1, GotoType, FinishType DEF Delete, TypeOK
  <2>9. ASSUME NEW p \in Process, Write(p)
        PROVE  proc' \in [Process -> Handler] /\ record' \in [Record -> Flags]
    <3>1. [proc[p] EXCEPT !.todo = Tail(@), !.pc = AfterCall(proc[p])] \in Handler
      BY <2>3, <2>9, CallType DEF Handler, Step, AfterCall, Write
    <3> QED
      BY <2>9, <3>1, GotoType, WriteType DEF Write
  <2>10. ASSUME NEW p \in Process, Save(p)
         PROVE  proc' \in [Process -> Handler] /\ disk' \in [User -> Saved]
    BY <2>10, FinishType, ImageType DEF Save
  <2>11. ASSUME ReceiveMessage PROVE proc' \in [Process -> Handler]
    <3>1. PICK u \in User, action \in TextAction \cup {"id", "none"}, user \in User :
            LET q == [Idle EXCEPT !.action = action, !.user = user] IN
            \/ Known(u) /\ Goto(Poller, [q EXCEPT !.pc = "dispatch", !.by = RecordOf(u)])
            \/ ~Known(u) /\ Goto(Poller, [q EXCEPT !.pc = "create", !.by = <<u, 1>>,
                                                   !.admin = Admins = {}])
      BY <2>11 DEF ReceiveMessage
    <3> DEFINE q == [Idle EXCEPT !.action = action, !.user = user]
    <3>2. q \in Handler
      BY IdleType DEF Handler
    <3>3. CASE Known(u)
      <4>1. [q EXCEPT !.pc = "dispatch", !.by = RecordOf(u)] \in Handler
        BY <3>2, <3>3, RecordOfType DEF Handler, Step
      <4> QED
        BY <3>1, <3>3, <4>1, GotoType
    <3>4. CASE ~Known(u)
      <4>1. <<u, 1>> \in Record
        BY IDOfRecord DEF Address
      <4>2. [q EXCEPT !.pc = "create", !.by = <<u, 1>>, !.admin = Admins = {}] \in Handler
        BY <3>2, <4>1 DEF Handler, Step
      <4> QED
        BY <3>1, <3>4, <4>2, GotoType
    <3> QED
      BY <3>3, <3>4
  <2>12. ASSUME FirstContact
         PROVE  /\ proc' \in [Process -> Handler] /\ record' \in [Record -> Flags]
                /\ current' \in [User -> {0} \cup Address] /\ ID(proc[Poller].by) \in User
    <3> DEFINE u == ID(proc[Poller].by)
    <3>1. u \in User /\ proc[Poller].admin \in BOOLEAN
      BY <2>3, IDOfRecord DEF Handler
    <3>2. /\ record' \in [Record -> Flags] /\ current' \in [User -> {0} \cup Address]
          /\ current'[u] \in Address
      BY <2>12, <3>1, CreateType DEF FirstContact
    <3>3. [proc[Poller] EXCEPT !.pc = "unauth", !.by = <<u, current'[u]>>] \in Handler
      BY <2>3, <3>1, <3>2, IDOfRecord DEF Handler, Step
    <3> QED
      BY <2>12, <3>1, <3>2, <3>3, GotoType DEF FirstContact
  <2>12a. ASSUME Unauthenticate
         PROVE  /\ proc' \in [Process -> Handler] /\ record' \in [Record -> Flags]
                /\ unsaved' \subseteq User
    <3> DEFINE q == proc[Poller]
    <3>1. q \in Handler /\ q.by \in Record /\ ID(q.by) \in User
      BY <2>3, IDOfRecord DEF Handler
    <3>2. [q EXCEPT !.pc = "dispatch"] \in Handler
      BY <3>1 DEF Handler, Step
    <3>3. record' \in [Record -> Flags]
      BY <2>12a, <3>1 DEF Unauthenticate, TypeOK, Flags
    <3> QED
      BY <2>12a, <3>1, <3>2, <3>3, GotoType DEF Unauthenticate, TypeOK
  <2>13. ASSUME Dispatch
         PROVE  /\ proc' \in [Process -> Handler] /\ record' \in [Record -> Flags]
                /\ unsaved' \subseteq User
    <3> DEFINE q == proc[Poller]
    <3>1. q \in Handler /\ q.by \in Record /\ ID(q.by) \in User /\ q.pc = "dispatch"
      BY <2>3, <2>13, IDOfRecord DEF Handler, Dispatch
    <3>2. CASE q.action = "id"
      <4>1. /\ record' = [record EXCEPT ![q.by].authed = TRUE]
            /\ unsaved' = unsaved \cup {ID(q.by)}
            /\ Goto(Poller, [q EXCEPT !.pc = "id", !.admin = record[q.by].admin])
        BY <2>13, <3>2 DEF Dispatch, AdminAsRead
      <4>2. record[q.by].admin \in BOOLEAN
        BY <3>1 DEF TypeOK, Flags
      <4>3. [q EXCEPT !.pc = "id", !.admin = record[q.by].admin] \in Handler
        BY <3>1, <4>2 DEF Handler, Step
      <4>4. record' \in [Record -> Flags]
        BY <3>1, <4>1 DEF TypeOK, Flags
      <4> QED
        BY <3>1, <4>1, <4>3, <4>4, GotoType DEF TypeOK
    <3>3. CASE q.action # "id"
      <4>1. UNCHANGED <<record, unsaved>>
        BY <2>13, <3>3 DEF Dispatch
      <4>2. CASE Finish(Poller)
        BY <4>1, <4>2, FinishType DEF TypeOK
      <4>3. CASE ~Finish(Poller) /\ q.action = "none"
        <5>1. Goto(Poller, [q EXCEPT !.pc = "save"])
          BY <2>13, <3>3, <4>3 DEF Dispatch
        <5>2. [q EXCEPT !.pc = "save"] \in Handler
          BY <3>1 DEF Handler, Step
        <5> QED
          BY <4>1, <5>1, <5>2, GotoType DEF TypeOK
      <4>4. CASE ~Finish(Poller) /\ q.action # "none"
        <5>1. /\ Known(q.user)
              /\ Goto(Poller, [q EXCEPT !.pc = "write", !.target = RecordOf(q.user),
                                        !.todo = Calls(q.action)])
          BY <2>13, <3>3, <4>4 DEF Dispatch
        <5>2. q.action \in Action
          BY <3>1, <3>3, <4>4 DEF Handler, HandlerInv
        <5>3. [q EXCEPT !.pc = "write", !.target = RecordOf(q.user),
                        !.todo = Calls(q.action)] \in Handler
          BY <3>1, <5>1, <5>2, CallsType, RecordOfType DEF Handler, Step
        <5> QED
          BY <4>1, <5>1, <5>3, GotoType DEF TypeOK
      <4> QED
        BY <4>2, <4>3, <4>4
    <3> QED
      BY <3>2, <3>3
  <2>14. ASSUME Authenticate
         PROVE  /\ proc' \in [Process -> Handler] /\ record' \in [Record -> Flags]
                /\ current' \in [User -> {0} \cup Address] /\ unsaved' \subseteq User
    <3>1. ID(proc[Poller].by) \in User /\ proc[Poller].admin \in BOOLEAN
      BY <2>3, IDOfRecord DEF Handler
    <3> QED
      BY <2>14, <3>1, CreateType, FinishType DEF Authenticate, TypeOK
  <2>15. ASSUME Restart
         PROVE  /\ proc' \in [Process -> Handler] /\ record' \in [Record -> Flags]
                /\ current' \in [User -> {0} \cup Address]
    <3>1. \A u \in User : disk[u] # {} => (CHOOSE f \in disk[u] : TRUE) \in Flags
      BY DEF TypeOK, Saved
    <3>2. record' \in [Record -> Flags]
      BY <2>15, <3>1, IDOfRecord, NewFlagsType DEF Restart
    <3>3. current' \in [User -> {0} \cup Address]
      BY <2>15 DEF Restart, Address
    <3> QED
      BY <2>15, <3>2, <3>3, IdleType DEF Restart
  <2> QED
    BY <1>2, <2>5, <2>6, <2>7, <2>8, <2>9, <2>10, <2>11, <2>12, <2>12a, <2>13,
       <2>14, <2>15
    DEF Next, PressStep, PollerStep, UNCHANGEDRecords, ReceivePress, Enter, Find, Delete,
        Write, Save, ReceiveMessage, FirstContact, Unauthenticate, Dispatch, Authenticate, Restart,
        TypeOK
<1> QED
  BY <1>1, <1>2

-----------------------------------------------------------------------------
(* What a handler knows of itself *)

(* Of one handler. *)
Knows(q) ==
  /\ q.pc \in {"enter", "find"} => q.action \in Action \cup {"delete"}
  /\ q.pc \in {"create", "unauth", "dispatch"} => q.action # "delete"
  /\ q.pc = "write" => ID(q.target) = q.user /\ q.todo # <<>>

LEMMA KnowsAll == HandlerInv <=> \A p \in Process : Knows(proc[p])
BY DEF HandlerInv, Knows

LEMMA GotoKnows ==
  ASSUME TypeOK, HandlerInv, NEW p \in Process, NEW q, Goto(p, q), Knows(q)
  PROVE  HandlerInv'
<1>1. proc' = [proc EXCEPT ![p] = q] /\ proc \in [Process -> Handler]
  BY DEF Goto, TypeOK
<1>2. \A x \in Process : proc'[x] = IF x = p THEN q ELSE proc[x]
  BY <1>1
<1> QED
  BY <1>2, KnowsAll DEF HandlerInv, Knows

LEMMA FinishKnows ==
  ASSUME TypeOK, HandlerInv, NEW p \in Process, Finish(p)
  PROVE  HandlerInv'
BY GotoKnows DEF Finish, Idle, Knows

LEMMA HandlerStep == TypeOK /\ HandlerInv /\ [Next]_vars => HandlerInv'
<1> SUFFICES ASSUME TypeOK, HandlerInv, [Next]_vars PROVE HandlerInv'
  OBVIOUS
<1>1. CASE UNCHANGED vars
  BY <1>1 DEF vars, HandlerInv
<1>2. CASE Next
  <2>1. Poller \in Process /\ Press \subseteq Process
    BY DEF Process
  <2> USE <2>1
  <2>2. \A p \in Process : proc[p] \in Handler /\ Knows(proc[p])
    BY KnowsAll DEF TypeOK
  <2>3. ASSUME NEW p \in Press, ReceivePress(p) PROVE HandlerInv'
    <3>1. PICK u \in User, action \in MenuAction, user \in User :
            Goto(p, [Idle EXCEPT !.pc = "enter", !.by = RecordOf(u),
                                 !.action = action, !.user = user])
      BY <2>3 DEF ReceivePress
    <3>2. Knows([Idle EXCEPT !.pc = "enter", !.by = RecordOf(u),
                             !.action = action, !.user = user])
      BY DEF Knows, Idle
    <3> QED
      BY <3>1, <3>2, GotoKnows
  <2>4. ASSUME NEW p \in Press, Enter(p) PROVE HandlerInv'
    <3>1. Knows([proc[p] EXCEPT !.pc = "find"])
      BY <2>2, <2>4 DEF Knows, Enter, Handler
    <3> QED
      BY <2>4, <3>1, GotoKnows, FinishKnows DEF Enter
  <2>5. ASSUME NEW p \in Press, Find(p) PROVE HandlerInv'
    <3>1. CASE Finish(p)
      BY <3>1, FinishKnows
    <3>2. CASE ~Finish(p)
      <4> DEFINE q == [proc[p] EXCEPT !.target = RecordOf(proc[p].user),
                         !.todo = MenuCalls(proc[p].action),
                         !.pc = IF proc[p].action = "delete" THEN "delete" ELSE "write"]
      <4>1. Known(proc[p].user) /\ proc[p].pc = "find" /\ Goto(p, q)
        BY <2>5, <3>2 DEF Find
      <4>2. ID(RecordOf(proc[p].user)) = proc[p].user
        BY <2>2, <4>1, RecordOfType DEF Handler
      <4>3. proc[p].action # "delete" => MenuCalls(proc[p].action) # <<>>
        BY <2>2, <4>1, CallsType DEF Knows
      <4>4. /\ q.target = RecordOf(proc[p].user) /\ q.user = proc[p].user
            /\ q.todo = MenuCalls(proc[p].action)
            /\ q.pc = IF proc[p].action = "delete" THEN "delete" ELSE "write"
        BY <2>2 DEF Handler
      <4>5. Knows(q)
        BY <4>2, <4>3, <4>4 DEF Knows
      <4> QED
        BY <4>1, <4>5, GotoKnows
    <3> QED
      BY <3>1, <3>2
  <2>6. ASSUME NEW p \in Press, Delete(p) PROVE HandlerInv'
    <3>1. Knows([proc[p] EXCEPT !.pc = "save"])
      BY <2>2 DEF Knows, Handler
    <3> QED
      BY <2>6, <3>1, GotoKnows, FinishKnows DEF Delete
  <2>7. ASSUME NEW p \in Process, Write(p) PROVE HandlerInv'
    <3>1. Knows([proc[p] EXCEPT !.todo = Tail(@), !.pc = AfterCall(proc[p])])
      BY <2>2, <2>7, CallType DEF Knows, Handler, AfterCall, Write
    <3> QED
      BY <2>7, <3>1, GotoKnows DEF Write
  <2>8. ASSUME NEW p \in Process, Save(p) PROVE HandlerInv'
    BY <2>8, FinishKnows DEF Save
  <2>9. ASSUME ReceiveMessage PROVE HandlerInv'
    <3>1. PICK u \in User, action \in TextAction \cup {"id", "none"}, user \in User :
            LET q == [Idle EXCEPT !.action = action, !.user = user] IN
            \/ Known(u)  /\ Goto(Poller, [q EXCEPT !.pc = "dispatch", !.by = RecordOf(u)])
            \/ ~Known(u) /\ Goto(Poller, [q EXCEPT !.pc = "create", !.by = <<u, 1>>,
                                                   !.admin = Admins = {}])
      BY <2>9 DEF ReceiveMessage
    <3> DEFINE q == [Idle EXCEPT !.action = action, !.user = user]
    <3>2. action # "delete"
      BY DEF Action
    <3>3. /\ Knows([q EXCEPT !.pc = "dispatch", !.by = RecordOf(u)])
          /\ Knows([q EXCEPT !.pc = "create", !.by = <<u, 1>>, !.admin = Admins = {}])
      BY <3>2 DEF Knows, Idle
    <3> QED
      BY <3>1, <3>3, GotoKnows
  <2>10. ASSUME FirstContact PROVE HandlerInv'
    <3>1. Knows([proc[Poller] EXCEPT !.pc = "unauth",
                   !.by = <<ID(proc[Poller].by), current'[ID(proc[Poller].by)]>>])
      BY <2>2, <2>10 DEF Knows, Handler, FirstContact
    <3> QED
      BY <2>10, <3>1, GotoKnows DEF FirstContact
  <2>10a. ASSUME Unauthenticate PROVE HandlerInv'
    <3>1. Knows([proc[Poller] EXCEPT !.pc = "dispatch"])
      BY <2>2, <2>10a DEF Knows, Handler, Unauthenticate
    <3> QED
      BY <2>10a, <3>1, GotoKnows DEF Unauthenticate
  <2>11. ASSUME Dispatch PROVE HandlerInv'
    <3> DEFINE q == proc[Poller]
    <3>1. q \in Handler /\ q.pc = "dispatch" /\ q.action \in Action \cup {"id", "none"}
      BY <2>2, <2>11 DEF Handler, Dispatch, Knows
    <3>2. CASE Finish(Poller)
      BY <3>2, FinishKnows
    <3>3. CASE q.action = "id"
      <4>1. Knows([q EXCEPT !.pc = "id", !.admin = record[q.by].admin])
        BY <3>1 DEF Knows, Handler
      <4> QED
        BY <2>11, <3>3, <4>1, GotoKnows DEF Dispatch, AdminAsRead
    <3>4. CASE ~Finish(Poller) /\ q.action = "none"
      <4>1. Knows([q EXCEPT !.pc = "save"])
        BY <3>1 DEF Knows, Handler
      <4> QED
        BY <2>11, <3>4, <4>1, GotoKnows DEF Dispatch
    <3>5. CASE ~Finish(Poller) /\ q.action \notin {"id", "none"}
      <4> DEFINE w == [q EXCEPT !.pc = "write", !.target = RecordOf(q.user),
                                !.todo = Calls(q.action)]
      <4>1. Known(q.user) /\ Goto(Poller, w)
        BY <2>11, <3>5 DEF Dispatch
      <4>2. ID(RecordOf(q.user)) = q.user /\ Calls(q.action) # <<>>
        BY <3>1, <3>5, <4>1, RecordOfType, CallsType DEF Handler
      <4>3. /\ w.pc = "write" /\ w.target = RecordOf(q.user) /\ w.user = q.user
            /\ w.todo = Calls(q.action)
        BY <3>1 DEF Handler
      <4>4. Knows(w)
        BY <4>2, <4>3 DEF Knows
      <4> QED
        BY <4>1, <4>4, GotoKnows
    <3> QED
      BY <3>2, <3>3, <3>4, <3>5
  <2>12. ASSUME Authenticate PROVE HandlerInv'
    BY <2>12, FinishKnows DEF Authenticate
  <2>13. ASSUME Restart PROVE HandlerInv'
    BY <2>13 DEF Restart, HandlerInv, Idle
  <2> QED
    BY <1>2, <2>3, <2>4, <2>5, <2>6, <2>7, <2>8, <2>9, <2>10, <2>10a, <2>11, <2>12,
       <2>13
    DEF Next, PressStep, PollerStep
<1> QED
  BY <1>1, <1>2

-----------------------------------------------------------------------------
(* Roles are saved *)

(* A handler that has a chat's record to write, or a save to do. *)
Owes(q) == q.pc \in {"write", "save"}

(* Handler p goes on with q; what it owes it still owes.  It changes the    *)
(* flags of one chat at most, which are noted as unsaved or owed.           *)
LEMMA SavedKept ==
  ASSUME TypeOK, RolesSaved, NEW p \in Process, NEW q, Goto(p, q), disk' = disk,
         unsaved \subseteq unsaved',
         Owes(proc[p]) => Owes(q) /\ q.user = proc[p].user,
         NEW w \in User, \A u \in User \ {w} : Image'[u] = Image[u],
         \/ w \in unsaved' \/ (Owes(q) /\ q.user = w) \/ Image'[w] = Image[w]
  PROVE  RolesSaved'
<1>1. \A x \in Process : proc'[x] = IF x = p THEN q ELSE proc[x]
  BY DEF Goto, TypeOK
<1> SUFFICES ASSUME NEW u \in User
             PROVE  \/ disk'[u] = Image'[u] \/ u \in unsaved'
                    \/ \E x \in Process : Owes(proc'[x]) /\ proc'[x].user = u
  BY DEF RolesSaved, Owes
<1>2. CASE Image'[u] # Image[u]
  BY <1>1, <1>2
<1>3. CASE Image'[u] = Image[u]
  <2>1. \/ disk[u] = Image[u] \/ u \in unsaved
        \/ \E x \in Process : Owes(proc[x]) /\ proc[x].user = u
    BY DEF RolesSaved, Owes
  <2> QED
    BY <1>1, <1>3, <2>1
<1> QED
  BY <1>2, <1>3

(* ... a message that does not save. *)
LEMMA SavedKeptMessage ==
  ASSUME TypeOK, RolesSaved, NEW q, Goto(Poller, q), disk' = disk, NEW w \in User,
         unsaved' = unsaved \cup {w}, ~Owes(proc[Poller]),
         \A u \in User \ {w} : Image'[u] = Image[u]
  PROVE  RolesSaved'
<1>1. Poller \in Process /\ unsaved \subseteq unsaved' /\ w \in unsaved'
  BY DEF Process
<1>2. \A x \in Process : proc'[x] = IF x = Poller THEN q ELSE proc[x]
  BY DEF Goto, TypeOK
<1> SUFFICES ASSUME NEW u \in User
             PROVE  \/ disk'[u] = Image'[u] \/ u \in unsaved'
                    \/ \E x \in Process : Owes(proc'[x]) /\ proc'[x].user = u
  BY DEF RolesSaved, Owes
<1>3. \/ disk[u] = Image[u] \/ u \in unsaved
      \/ \E x \in Process : Owes(proc[x]) /\ proc[x].user = u
  BY DEF RolesSaved, Owes
<1> QED
  BY <1>1, <1>2, <1>3

(* ... when no record changes. *)
LEMMA SavedKeptReading ==
  ASSUME TypeOK, RolesSaved, NEW p \in Process, NEW q, Goto(p, q),
         Owes(proc[p]) => Owes(q) /\ q.user = proc[p].user, UNCHANGEDRecords
  PROVE  RolesSaved'
<1>1. \A u \in User : Image'[u] = Image[u]
  BY DEF UNCHANGEDRecords, Image, Known, RecordOf
<1>2. Image'[Someone] = Image[Someone]
  BY <1>1, SomeoneIsUser
<1> QED
  BY <1>1, <1>2, SomeoneIsUser, SavedKept DEF UNCHANGEDRecords

LEMMA SavedStep == TypeOK /\ HandlerInv /\ RolesSaved /\ [Next]_vars => RolesSaved'
<1> SUFFICES ASSUME TypeOK, HandlerInv, RolesSaved, [Next]_vars PROVE RolesSaved'
  OBVIOUS
<1>0. TypeOK'
  BY TypeStep
<1>1. CASE UNCHANGED vars
  BY <1>1 DEF vars, RolesSaved, Image, Known, RecordOf
<1>2. CASE Next
  <2>1. Poller \in Process /\ Press \subseteq Process
    BY DEF Process
  <2> USE <2>1
  <2>2. \A p \in Process : proc[p] \in Handler
    BY DEF TypeOK
  <2>3. ASSUME NEW p \in Press, ReceivePress(p) PROVE RolesSaved'
    BY <2>3, SavedKeptReading DEF ReceivePress, Owes
  <2>4. ASSUME NEW p \in Press, Enter(p) PROVE RolesSaved'
    BY <2>4, SavedKeptReading DEF Enter, Finish, Owes
  <2>5. ASSUME NEW p \in Press, Find(p) PROVE RolesSaved'
    BY <2>5, SavedKeptReading DEF Find, Finish, Owes
  <2>6. ASSUME NEW p \in Press, Delete(p) PROVE RolesSaved'
    <3> DEFINE u == proc[p].user
               q == [proc[p] EXCEPT !.pc = "save"]
    <3>1. u \in User /\ q.user = u /\ q.pc = "save"
      BY <2>2 DEF Handler
    <3>2. CASE Known(u)
      <4>1. Goto(p, q)
        BY <2>6, <3>2 DEF Delete
      <4>2. \A v \in User \ {u} : Image'[v] = Image[v]
        BY <1>0, <2>6, <3>1, ImageElsewhere DEF Delete, TypeOK
      <4> QED
        BY <2>6, <3>1, <4>1, <4>2, SavedKept DEF Delete, Owes
    <3>3. CASE ~Known(u)
      <4>1. Goto(p, Idle) /\ UNCHANGED <<record, disk, unsaved>> /\ current' = current
        BY <2>6, <3>1, <3>3 DEF Delete, Finish, Known, TypeOK
      <4> QED
        BY <2>6, <4>1, SavedKeptReading DEF Delete, Owes, UNCHANGEDRecords
    <3> QED
      BY <3>2, <3>3
  <2>7. ASSUME NEW p \in Process, Write(p) PROVE RolesSaved'
    <3> DEFINE u == proc[p].user
               q == [proc[p] EXCEPT !.todo = Tail(@), !.pc = AfterCall(proc[p])]
    <3>1. u \in User /\ q.user = u /\ q.pc \in {"write", "save"}
      BY <2>2 DEF Handler, AfterCall
    <3>2. Goto(p, q)
      BY <2>7 DEF Write
    <3>3. \A v \in User \ {u} : Image'[v] = Image[v]
      BY <1>0, <2>7, <3>1, WriteType, ImageElsewhere DEF Write
    <3> QED
      BY <2>7, <3>1, <3>2, <3>3, SavedKept DEF Write, Owes
  <2>8. ASSUME NEW p \in Process, Save(p) PROVE RolesSaved'
    BY <2>8 DEF Save, RolesSaved, Image, Known, RecordOf
  <2>9. ASSUME ReceiveMessage PROVE RolesSaved'
    BY <2>9, SavedKeptReading DEF ReceiveMessage, Owes
  <2>10. ASSUME FirstContact PROVE RolesSaved'
    <3> DEFINE u == ID(proc[Poller].by)
    <3>1. u \in User /\ proc[Poller].admin \in BOOLEAN
      BY <2>2, IDOfRecord DEF Handler
    <3>2. \A v \in User \ {u} : Image'[v] = Image[v]
      BY <1>0, <2>10, <3>1, CreateType, ImageElsewhere DEF FirstContact
    <3> QED
      <4> DEFINE q == [proc[Poller] EXCEPT !.pc = "unauth", !.by = <<u, current'[u]>>]
      <4>1. /\ Goto(Poller, q) /\ disk' = disk /\ unsaved' = unsaved \cup {u}
            /\ ~Owes(proc[Poller])
        BY <2>10 DEF FirstContact, Owes
      <4> HIDE DEF q, u
      <4> QED
        BY <3>1, <3>2, <4>1, SavedKeptMessage
  <2>10a. ASSUME Unauthenticate PROVE RolesSaved'
    <3> DEFINE q == proc[Poller]
               u == ID(q.by)
    <3>1. u \in User /\ q.by \in Record
      BY <2>2, IDOfRecord DEF Handler
    <3>2. PICK n : Goto(Poller, n)
      BY <2>10a DEF Unauthenticate
    <3>3. \A v \in User \ {u} : Image'[v] = Image[v]
      BY <1>0, <2>10a, <3>1, ImageElsewhere DEF Unauthenticate, TypeOK
    <3>4. disk' = disk /\ unsaved' = unsaved \cup {u} /\ ~Owes(q)
      BY <2>10a DEF Unauthenticate, Owes
    <3> HIDE DEF u
    <3> QED
      BY <3>1, <3>2, <3>3, <3>4, SavedKeptMessage
  <2>11. ASSUME Dispatch PROVE RolesSaved'
    <3> DEFINE q == proc[Poller]
               u == ID(q.by)
    <3>1. u \in User /\ q.by \in Record /\ q.pc = "dispatch"
      BY <2>2, <2>11, IDOfRecord DEF Handler, Dispatch
    <3>2. PICK n : Goto(Poller, n)
      BY <2>11 DEF Dispatch, Finish
    <3>3. CASE q.action = "id"
      <4>1. record' = [record EXCEPT ![q.by].authed = TRUE] /\ unsaved' = unsaved \cup {u}
        BY <2>11, <3>3 DEF Dispatch
      <4>2. \A v \in User \ {u} : Image'[v] = Image[v]
        BY <1>0, <2>11, <3>1, <4>1, ImageElsewhere DEF Dispatch, TypeOK
      <4> QED
        <5>1. disk' = disk /\ ~Owes(proc[Poller])
          BY <2>11, <3>1 DEF Dispatch, Owes
        <5> HIDE DEF u
        <5> QED
          BY <3>1, <3>2, <4>1, <4>2, <5>1, SavedKeptMessage
    <3>4. CASE q.action # "id"
      <4>1. UNCHANGEDRecords
        BY <2>11, <3>4 DEF Dispatch, UNCHANGEDRecords
      <4> QED
        BY <3>1, <3>2, <4>1, SavedKeptReading DEF Owes
    <3> QED
      BY <3>3, <3>4
  <2>12. ASSUME Authenticate PROVE RolesSaved'
    <3> DEFINE u == ID(proc[Poller].by)
    <3>1. u \in User /\ proc[Poller].admin \in BOOLEAN
      BY <2>2, IDOfRecord DEF Handler
    <3>2. \A v \in User \ {u} : Image'[v] = Image[v]
      BY <1>0, <2>12, <3>1, CreateType, ImageElsewhere DEF Authenticate
    <3> QED
      <4>1. /\ Goto(Poller, Idle) /\ disk' = disk /\ unsaved' = unsaved \cup {u}
            /\ ~Owes(proc[Poller])
        BY <2>12 DEF Authenticate, Finish, Owes
      <4> HIDE DEF u
      <4> QED
        BY <3>1, <3>2, <4>1, SavedKeptMessage
  <2>13. ASSUME Restart PROVE RolesSaved'
    <3> SUFFICES ASSUME NEW u \in User PROVE disk'[u] = Image'[u]
      BY DEF RolesSaved
    <3>1. disk' = disk /\ current'[u] = IF disk[u] = {} THEN 0 ELSE 1
      BY <2>13 DEF Restart
    <3>2. CASE disk[u] = {}
      BY <3>1, <3>2 DEF Image, Known
    <3>3. CASE disk[u] # {}
      <4>1. PICK f \in Flags : disk[u] = {f}
        BY <3>3 DEF TypeOK, Saved
      <4>2. <<u, 1>> \in Record /\ ID(<<u, 1>>) = u
        BY IDOfRecord DEF Address
      <4>3. record'[<<u, 1>>] = f
        BY <2>13, <4>1, <4>2 DEF Restart
      <4> QED
        BY <3>1, <3>3, <4>1, <4>3 DEF Image, Known, RecordOf
    <3> QED
      BY <3>2, <3>3
  <2> QED
    BY <1>2, <2>3, <2>4, <2>5, <2>6, <2>7, <2>8, <2>9, <2>10, <2>10a, <2>11, <2>12,
       <2>13
    DEF Next, PressStep, PollerStep
<1> QED
  BY <1>1, <1>2

-----------------------------------------------------------------------------
(* The theorems *)

LEMMA InitIInv == Init => IInv
<1> SUFFICES ASSUME Init PROVE IInv
  OBVIOUS
<1>1. TypeOK
  BY IdleType, NewFlagsType DEF Init, TypeOK, Saved
<1>2. HandlerInv
  BY DEF Init, HandlerInv, Idle
<1>3. RolesSaved
  BY DEF Init, RolesSaved, Image, Known
<1> QED
  BY <1>1, <1>2, <1>3 DEF IInv

(* The strengthened invariant holds of every run. *)
THEOREM Invariant == Spec => []IInv
<1>1. IInv /\ [Next]_vars => IInv'
  BY TypeStep, HandlerStep, SavedStep DEF IInv
<1> QED
  BY InitIInv, <1>1, PTL DEF Spec

(* The records, the file and the handlers keep their types. *)
THEOREM TypeCorrect == Spec => []TypeOK
<1>1. IInv => TypeOK
  BY DEF IInv
<1> QED
  BY Invariant, <1>1, PTL

(* An answered role change is on disk, so no restart undoes it. *)
THEOREM RolesAreSaved == Spec => []RolesSaved
<1>1. IInv => RolesSaved
  BY DEF IInv
<1> QED
  BY Invariant, <1>1, PTL

-----------------------------------------------------------------------------
(* The last admin *)

TakesAdmin(call) == call = <<"admin", FALSE>>
LeavesAdmin(calls) == \A i \in 1 .. Len(calls) : ~TakesAdmin(calls[i])

(* What a press that no other handler disturbed knows, given the handler q, *)
(* the records rec and those in the database cur: who pressed is in the     *)
(* database and, once asked, an admin; what it has yet to do takes nobody's *)
(* role but another's.                                                      *)
PresserStays(q, rec, cur) ==
  /\ q.pc \in {"enter", "find", "write", "delete"} =>
       cur[ID(q.by)] # 0 /\ q.by = <<ID(q.by), cur[ID(q.by)]>>
  /\ q.pc \in {"find", "write", "delete"} => rec[q.by].admin
  /\ q.pc = "write" /\ q.target = q.by => LeavesAdmin(q.todo)
  /\ q.pc = "delete" => q.user # ID(q.by)

PressersStay == \A p \in Press \ disturbed : PresserStays(proc[p], record, current)

(* The accessors of what an admin may do to himself leave him his role. *)
LEMMA SelfCalls ==
  ASSUME NEW action \in Action \ {"deny", "ignore", "unadmin"}
  PROVE  LeavesAdmin(MenuCalls(action))
<1>1. ASSUME NEW a, NEW b, NEW c, ~TakesAdmin(a), ~TakesAdmin(b), ~TakesAdmin(c)
      PROVE  LeavesAdmin(<<a>>) /\ LeavesAdmin(<<a, b>>) /\ LeavesAdmin(<<a, b, c>>)
  BY <1>1 DEF LeavesAdmin
<1>2. /\ ~TakesAdmin(<<"admin", TRUE>>) /\ ~TakesAdmin(<<"authed", TRUE>>)
      /\ ~TakesAdmin(<<"ignored", FALSE>>)
  BY DEF TakesAdmin
<1>3. CASE action = "allow"
  BY <1>1, <1>2, <1>3 DEF MenuCalls, Calls
<1>4. CASE action = "unignore"
  BY <1>1, <1>2, <1>4 DEF MenuCalls, Calls
<1>5. CASE action = "admin"
  BY <1>1, <1>2, <1>5 DEF MenuCalls
<1> QED
  BY <1>3, <1>4, <1>5 DEF Action

LEMMA TailLeaves ==
  ASSUME NEW calls \in Seq(Accessor), calls # <<>>, LeavesAdmin(calls)
  PROVE  LeavesAdmin(Tail(calls)) /\ ~TakesAdmin(Head(calls))
BY DEF LeavesAdmin

(* A step of a press changes its own handler alone. *)
LEMMA OwnHandler ==
  ASSUME TypeOK, NEW p \in Process, NEW q, Goto(p, q)
  PROVE  /\ proc'[p] = q
         /\ \A r \in Process \ {p} : proc'[r] = proc[r]
BY DEF Goto, TypeOK

LEMMA IdleStays ==
  ASSUME NEW q, q.pc \notin {"enter", "find", "write", "delete"}, NEW rec, NEW cur
  PROVE  PresserStays(q, rec, cur)
BY DEF PresserStays

(* A call on the presser's own record, or on another's, leaves his role. *)
LEMMA WriteStays ==
  ASSUME IInv, NEW p \in Process, Write(p), PresserStays(proc[p], record, current)
  PROVE  /\ record'[proc[p].by].admin /\ current' = current
         /\ Known(ID(proc[p].by)) /\ RecordOf(ID(proc[p].by)) = proc[p].by
         /\ proc[p].target = proc[p].by => LeavesAdmin(Tail(proc[p].todo))
<1> DEFINE q == proc[p]
<1>1. /\ q.by \in Record /\ q.target \in Record /\ q.pc = "write"
      /\ q.todo \in Seq(Accessor) /\ q.todo # <<>>
      /\ record \in [Record -> Flags] /\ record[q.by].admin
      /\ current' = current
  BY DEF IInv, TypeOK, Handler, HandlerInv, Write, PresserStays
<1>2. PICK field \in {"admin", "ignored", "authed"}, value \in BOOLEAN :
        Head(q.todo) = <<field, value>>
  BY CallType DEF Write, Accessor, IInv
<1>3. record' = [record EXCEPT ![q.target] = [@ EXCEPT ![field] = value]]
  <2>1. Head(q.todo)[1] = field /\ Head(q.todo)[2] = value
    BY <1>2
  <2> QED
    BY <2>1, Zenon DEF Write
<1>4. q.target = q.by => LeavesAdmin(Tail(q.todo)) /\ (field # "admin" \/ value = TRUE)
  BY <1>1, <1>2, TailLeaves DEF PresserStays, TakesAdmin
<1>5. record'[q.by].admin
  <2>1. CASE q.target = q.by
    <3>1. \A f \in Flags : f.admin /\ (field # "admin" \/ value = TRUE) =>
                             [f EXCEPT ![field] = value].admin
      <4>1. CASE field = "admin"
        BY <4>1 DEF Flags
      <4>2. CASE field \in {"ignored", "authed"}
        BY <4>2 DEF Flags
      <4> QED
        BY <4>1, <4>2
    <3> QED
      BY <1>1, <1>3, <1>4, <2>1, <3>1
  <2>2. CASE q.target # q.by
    BY <1>1, <1>3, <2>2
  <2> QED
    BY <2>1, <2>2
<1> QED
  BY <1>1, <1>4, <1>5 DEF PresserStays, Known, RecordOf

LEMMA FindStays ==
  ASSUME IInv, NEW p \in Press, Find(p), PresserStays(proc[p], record, current)
  PROVE  PresserStays(proc'[p], record', current')
<1> DEFINE q == proc[p]
           target == RecordOf(q.user)
           next == [q EXCEPT !.target = target, !.todo = MenuCalls(q.action),
                             !.pc = IF q.action = "delete" THEN "delete" ELSE "write"]
<1>1. p \in Process /\ q \in Handler /\ q.pc = "find" /\ q.by \in Record
      /\ q.action \in Action \cup {"delete"} /\ q.user \in User
      /\ record' = record /\ current' = current
  BY DEF IInv, TypeOK, HandlerInv, Handler, Find, Process, UNCHANGEDRecords
<1>2. CASE ~Known(q.user) \/ Blocked(q, target)
  <2>1. proc'[p] = Idle
    BY <1>1, <1>2, OwnHandler DEF Find, Finish, IInv
  <2> QED
    BY <2>1, IdleStays DEF Idle
<1>3. CASE Known(q.user) /\ ~Blocked(q, target)
  <2>1. proc'[p] = next
    BY <1>1, <1>3, OwnHandler DEF Find, IInv
  <2>2. /\ next.by = q.by /\ next.target = target /\ next.todo = MenuCalls(q.action)
        /\ next.user = q.user
        /\ next.pc = IF q.action = "delete" THEN "delete" ELSE "write"
    BY <1>1 DEF Handler
  <2>3. ID(target) = q.user
    BY <1>1, <1>3, RecordOfType DEF IInv
  <2>4. CASE q.action = "delete"
    <3>1. q.user # ID(q.by)
      BY <1>3, <2>3, <2>4 DEF Blocked, Self
    <3> QED
      BY <1>1, <2>1, <2>2, <2>4, <3>1 DEF PresserStays
  <2>5. CASE q.action # "delete"
    <3>1. target = q.by => LeavesAdmin(MenuCalls(q.action))
      BY <1>1, <1>3, <2>5, SelfCalls DEF Blocked, Self
    <3> QED
      BY <1>1, <2>1, <2>2, <2>5, <3>1 DEF PresserStays
  <2> QED
    BY <2>4, <2>5
<1> QED
  BY <1>2, <1>3

LEMMA PressStays ==
  ASSUME IInv, NEW p \in Press, PressStep(p), PresserStays(proc[p], record, current)
  PROVE  PresserStays(proc'[p], record', current')
<1>0. p \in Process /\ proc[p] \in Handler /\ TypeOK
  BY DEF Process, IInv, TypeOK
<1>1. CASE ReceivePress(p)
  <2>1. PICK u \in User, action \in MenuAction, user \in User :
          /\ Known(u)
          /\ Goto(p, [Idle EXCEPT !.pc = "enter", !.by = RecordOf(u),
                                  !.action = action, !.user = user])
    BY <1>1 DEF ReceivePress
  <2>2. /\ proc'[p].pc = "enter" /\ proc'[p].by = RecordOf(u)
    <3> DEFINE q == [Idle EXCEPT !.pc = "enter", !.by = RecordOf(u),
                                !.action = action, !.user = user]
    <3>1. q.pc = "enter" /\ q.by = RecordOf(u)
      BY DEF Idle
    <3> HIDE DEF q
    <3>2. proc'[p] = q
      BY <1>0, <2>1, OwnHandler DEF q
    <3> QED
      BY <3>1, <3>2
  <2>3. ID(RecordOf(u)) = u
    BY <1>0, <2>1, RecordOfType
  <2> QED
    BY <1>1, <2>1, <2>2, <2>3 DEF ReceivePress, UNCHANGEDRecords, PresserStays, Known, RecordOf
<1>2. CASE Enter(p)
  <2>1. CASE Finish(p)
    BY <1>0, <2>1, OwnHandler, IdleStays DEF Finish, Idle
  <2>2. CASE record[proc[p].by].admin /\ Goto(p, [proc[p] EXCEPT !.pc = "find"])
    <3>1. proc'[p].pc = "find" /\ proc'[p].by = proc[p].by
      BY <1>0, <2>2, OwnHandler DEF Handler
    <3> QED
      BY <1>2, <2>2, <3>1 DEF Enter, UNCHANGEDRecords, PresserStays
  <2> QED
    BY <1>2, <2>1, <2>2 DEF Enter
<1>3. CASE Find(p)
  BY <1>3, FindStays
<1>4. CASE Delete(p)
  <2>1. proc'[p].pc \in {"save", "idle"}
    BY <1>0, <1>4, OwnHandler DEF Delete, Finish, Idle, Handler
  <2> QED
    BY <2>1, IdleStays
<1>5. CASE Write(p)
  <2>1. proc'[p] = [proc[p] EXCEPT !.todo = Tail(@), !.pc = AfterCall(proc[p])]
    BY <1>0, <1>5, OwnHandler DEF Write
  <2>2. /\ proc'[p].pc \in {"save", "write"} /\ proc'[p].by = proc[p].by
        /\ proc'[p].target = proc[p].target /\ proc'[p].todo = Tail(proc[p].todo)
    BY <1>0, <2>1 DEF Handler, AfterCall
  <2>3. proc[p].pc = "write"
    BY <1>5 DEF Write
  <2> QED
    BY <1>0, <1>5, <2>2, <2>3, WriteStays DEF PresserStays
<1>6. CASE Save(p)
  BY <1>0, <1>6, OwnHandler, IdleStays DEF Save, Finish, Idle
<1> QED
  BY <1>1, <1>2, <1>3, <1>4, <1>5, <1>6 DEF PressStep

(* No step of another handler changes a press's own, but a restart. *)
LEMMA OthersLeave ==
  ASSUME IInv, Next, NEW p \in Press, ~PressStep(p)
  PROVE  proc'[p] = proc[p] \/ proc'[p] = Idle
<1>0. TypeOK /\ p \in Process /\ Poller \in Process /\ Poller # p /\ Press \subseteq Process
  BY DEF IInv, Process
<1>1. ASSUME NEW r \in Press, PressStep(r) PROVE proc'[p] = proc[p]
  <2>1. PICK q : Goto(r, q)
    BY <1>1 DEF PressStep, ReceivePress, Enter, Find, Delete, Write, Save, Finish
  <2> QED
    BY <1>0, <1>1, <2>1, OwnHandler
<1>2. CASE PollerStep
  <2>1. PICK q : Goto(Poller, q)
    <3>1. CASE ReceiveMessage
      BY <3>1 DEF ReceiveMessage
    <3>2. CASE Dispatch
      BY <3>2 DEF Dispatch, Finish
    <3>3. CASE FirstContact \/ Unauthenticate \/ Authenticate \/ Write(Poller) \/ Save(Poller)
      BY <3>3 DEF FirstContact, Unauthenticate, Authenticate, Write, Save, Finish
    <3> QED
      BY <1>2, <3>1, <3>2, <3>3 DEF PollerStep
  <2> QED
    BY <1>0, <2>1, OwnHandler
<1>3. CASE Restart
  BY <1>0, <1>3 DEF Restart
<1> QED
  BY <1>1, <1>2, <1>3 DEF Next

LEMMA StayStep == IInv /\ PressersStay /\ [Next]_vars => PressersStay'
<1> SUFFICES ASSUME IInv, PressersStay, [Next]_vars, NEW p \in Press, p \notin disturbed'
             PROVE  PresserStays(proc'[p], record', current')
  BY DEF PressersStay
<1>1. CASE UNCHANGED vars
  BY <1>1 DEF vars, PressersStay
<1>2. CASE Next /\ proc'[p].pc = "idle"
  BY <1>2, IdleStays
<1>3. CASE Next /\ proc'[p].pc # "idle"
  <2>1. p \notin disturbed /\ (proc'[p] # proc[p] \/ UNCHANGED <<record, current>>)
    BY <1>3 DEF Next, Process, NoteDisturbed
  <2>2. PresserStays(proc[p], record, current)
    BY <2>1 DEF PressersStay
  <2>3. CASE PressStep(p)
    BY <2>2, <2>3, PressStays
  <2>4. CASE ~PressStep(p)
    <3>1. proc'[p] = proc[p]
      BY <1>3, <2>4, OthersLeave DEF Idle
    <3> QED
      BY <2>1, <2>2, <3>1
  <2> QED
    BY <2>3, <2>4
<1> QED
  BY <1>1, <1>2, <1>3

LEMMA PresserIsAdmin ==
  ASSUME IInv, NEW p \in Press, PresserStays(proc[p], record, current),
         Write(p) \/ Delete(p)
  PROVE  Admins' # {}
<1> DEFINE u == ID(proc[p].by)
<1>0. p \in Process /\ TypeOK /\ proc[p].by \in Record /\ u \in User
  BY IDOfRecord DEF Process, IInv, TypeOK, Handler
<1>1. record'[proc[p].by].admin /\ current'[u] # 0 /\ proc[p].by = <<u, current'[u]>>
  <2>1. CASE Write(p)
    <3>1. proc[p].pc = "write"
      BY <2>1 DEF Write
    <3> QED
      BY <1>0, <2>1, <3>1, WriteStays DEF PresserStays
  <2>2. CASE Delete(p)
    <3>1. /\ proc[p].pc = "delete" /\ record' = record
          /\ current' = [current EXCEPT ![proc[p].user] = 0]
      BY <2>2 DEF Delete
    <3>2. current'[u] = current[u]
      BY <1>0, <3>1 DEF PresserStays, TypeOK
    <3> QED
      BY <3>1, <3>2 DEF PresserStays
  <2> QED
    BY <2>1, <2>2
<1> QED
  BY <1>0, <1>1 DEF Admins, Known, RecordOf

(* wizard_admin.go 172-174 and 236-238: the menu never takes the last       *)
(* admin, unless another handler changed the records since the press.       *)
THEOREM MenuKeepsAnAdmin == Spec => UndisturbedMenuKeepsAdmin
<1>1. Init => PressersStay
  BY IdleStays DEF Init, PressersStay, Idle, Process
<1>2. IInv /\ PressersStay /\ [Next]_vars =>
        [\A p \in Press \ disturbed : ~TakesLastAdmin(p)]_vars
  BY PresserIsAdmin DEF PressersStay, TakesLastAdmin
<1> QED
  BY <1>1, <1>2, StayStep, Invariant, PTL DEF Spec, UndisturbedMenuKeepsAdmin

-----------------------------------------------------------------------------
(* First contacts and the password *)

(* What the poller that no press disturbed knows of a message, given the    *)
(* handler q, the records rec, those in the database cur and the admins:    *)
(* who wrote first is still unknown, who has a record still has that one,   *)
(* and the flag it carries is what a press would read now.                  *)
WriterStays(q, rec, cur, admins) ==
  /\ q.pc = "create" => cur[ID(q.by)] = 0 /\ q.admin = (admins = {})
  /\ q.pc \in {"unauth", "dispatch", "id"} =>
       cur[ID(q.by)] # 0 /\ q.by = <<ID(q.by), cur[ID(q.by)]>>
  /\ q.pc = "id" => q.admin = rec[q.by].admin

MessageStays == Poller \notin disturbed => WriterStays(proc[Poller], record, current, Admins)

LEMMA ElsewhereStays ==
  ASSUME NEW q, q.pc \notin {"create", "unauth", "dispatch", "id"}, NEW rec, NEW cur, NEW admins
  PROVE  WriterStays(q, rec, cur, admins)
BY DEF WriterStays

(* A first contact makes a record of who is in nobody's list, ... *)
LEMMA CreateUnknown ==
  ASSUME TypeOK, NEW u \in User, NEW admin \in BOOLEAN, ~Known(u), Create(u, admin)
  PROVE  Admins' = IF admin THEN Admins \cup {u} ELSE Admins
<1>1. PICK a \in Address :
        /\ current' = [current EXCEPT ![u] = a]
        /\ record' = [record EXCEPT ![<<u, a>>] = [NewFlags EXCEPT !.admin = admin]]
  BY DEF Create
<1>2. a # 0 /\ <<u, a>> \in Record
  <2>1. a # 0
    BY DEF Address
  <2> QED
    BY <2>1, IDOfRecord
<1>3. current'[u] = a /\ \A v \in User \ {u} : current'[v] = current[v]
  BY <1>1 DEF TypeOK
<1>4. /\ record'[<<u, a>>].admin = admin
      /\ \A v \in User \ {u} : record'[<<v, current[v]>>] = record[<<v, current[v]>>]
  <2>1. [NewFlags EXCEPT !.admin = admin].admin = admin
    BY DEF NewFlags
  <2>2. record'[<<u, a>>] = [NewFlags EXCEPT !.admin = admin]
    BY <1>1, <1>2 DEF TypeOK
  <2>3. \A r \in Record : r # <<u, a>> => record'[r] = record[r]
    BY <1>1 DEF TypeOK
  <2>4. ASSUME NEW v \in User \ {u}
        PROVE  record'[<<v, current[v]>>] = record[<<v, current[v]>>]
    <3>1. CASE <<v, current[v]>> \in Record
      BY <2>3, <3>1
    <3>2. CASE <<v, current[v]>> \notin Record
      <4>1. DOMAIN record' = DOMAIN record
        BY <1>1
      <4> QED
        BY <1>1, <1>2, <3>2
    <3> QED
      BY <3>1, <3>2
  <2> QED
    BY <2>1, <2>2, <2>4
<1>5. \A v \in User \ {u} : v \in Admins' <=> v \in Admins
  BY <1>3, <1>4 DEF Admins, Known, RecordOf
<1>6. u \in Admins' <=> admin
  BY <1>2, <1>3, <1>4 DEF Admins, Known, RecordOf
<1>7. u \notin Admins /\ Admins \subseteq User /\ Admins' \subseteq User
  BY DEF Admins
<1> QED
  BY <1>5, <1>6, <1>7

(* ... and the password sets the flag of a known chat as it was read.       *)
LEMMA CreateKnown ==
  ASSUME TypeOK, NEW u \in User, Known(u), Create(u, record[RecordOf(u)].admin)
  PROVE  Admins' = Admins
<1>1. /\ record' = [record EXCEPT ![RecordOf(u)].admin = record[RecordOf(u)].admin,
                                  ![RecordOf(u)].ignored = FALSE]
      /\ current' = current
  BY DEF Create
<1>2. RecordOf(u) \in Record
  BY RecordOfType
<1>3. \A r \in Record : record'[r].admin = record[r].admin
  BY <1>1, <1>2 DEF TypeOK, Flags
<1>4. \A v \in User : Known(v)' = Known(v) /\ RecordOf(v)' = RecordOf(v)
  BY <1>1 DEF Known, RecordOf
<1> QED
  BY <1>3, <1>4, RecordOfType DEF Admins

LEMMA PollerStays ==
  ASSUME IInv, PollerStep, WriterStays(proc[Poller], record, current, Admins)
  PROVE  WriterStays(proc'[Poller], record', current', Admins')
<1> DEFINE q == proc[Poller]
<1>0. Poller \in Process /\ q \in Handler /\ q.by \in Record /\ ID(q.by) \in User /\ TypeOK
      /\ record \in [Record -> Flags]
  BY IDOfRecord DEF Process, IInv, TypeOK, Handler
<1>1. CASE ReceiveMessage
  <2>1. PICK u \in User, action \in TextAction \cup {"id", "none"}, user \in User :
          LET m == [Idle EXCEPT !.action = action, !.user = user] IN
          \/ Known(u)  /\ Goto(Poller, [m EXCEPT !.pc = "dispatch", !.by = RecordOf(u)])
          \/ ~Known(u) /\ Goto(Poller, [m EXCEPT !.pc = "create", !.by = <<u, 1>>,
                                                 !.admin = Admins = {}])
    BY <1>1 DEF ReceiveMessage
  <2> DEFINE m == [Idle EXCEPT !.action = action, !.user = user]
             known == [m EXCEPT !.pc = "dispatch", !.by = RecordOf(u)]
             first == [m EXCEPT !.pc = "create", !.by = <<u, 1>>, !.admin = Admins = {}]
  <2>2. /\ known.pc = "dispatch" /\ known.by = RecordOf(u)
        /\ first.pc = "create" /\ first.by = <<u, 1>> /\ first.admin = (Admins = {})
    BY DEF Idle
  <2>3. UNCHANGED <<record, current>> /\ Admins' = Admins
    BY <1>1 DEF ReceiveMessage, UNCHANGEDRecords, Admins, Known, RecordOf
  <2>4. ID(RecordOf(u)) = u /\ ID(<<u, 1>>) = u
    BY DEF ID, RecordOf
  <2> HIDE DEF known, first
  <2>5. CASE Known(u) /\ Goto(Poller, known)
    BY <1>0, <2>2, <2>3, <2>4, <2>5, OwnHandler DEF WriterStays, Known, RecordOf
  <2>6. CASE ~Known(u) /\ Goto(Poller, first)
    BY <1>0, <2>2, <2>3, <2>4, <2>6, OwnHandler DEF WriterStays, Known
  <2> QED
    BY <2>1, <2>5, <2>6 DEF known, first
<1>2. CASE FirstContact
  <2>1. q.admin \in BOOLEAN /\ Create(ID(q.by), q.admin)
    BY <1>0, <1>2 DEF FirstContact, Handler
  <2>2. current'[ID(q.by)] \in Address
    BY <1>0, <2>1, CreateType
  <2>3. proc'[Poller] = [q EXCEPT !.pc = "unauth", !.by = <<ID(q.by), current'[ID(q.by)]>>]
    BY <1>0, <1>2, OwnHandler DEF FirstContact
  <2>4. proc'[Poller].pc = "unauth" /\ proc'[Poller].by = <<ID(q.by), current'[ID(q.by)]>>
    BY <1>0, <2>3 DEF Handler
  <2>5. ID(proc'[Poller].by) = ID(q.by)
    BY <2>4 DEF ID
  <2> QED
    BY <2>2, <2>4, <2>5 DEF WriterStays, Address
<1>2a. CASE Unauthenticate
  <2>1. q.pc = "unauth" /\ current' = current
    BY <1>2a DEF Unauthenticate
  <2>2. proc'[Poller].pc = "dispatch" /\ proc'[Poller].by = q.by
    BY <1>0, <1>2a, OwnHandler DEF Unauthenticate, Handler
  <2> QED
    BY <2>1, <2>2 DEF WriterStays
<1>3. CASE Dispatch
  <2>1. CASE q.action = "id"
    <3> DEFINE r == [q EXCEPT !.pc = "id", !.admin = record[q.by].admin]
    <3>1. /\ record' = [record EXCEPT ![q.by].authed = TRUE] /\ current' = current
          /\ Goto(Poller, r)
      BY <1>3, <2>1 DEF Dispatch, AdminAsRead
    <3>2. r.pc = "id" /\ r.by = q.by /\ r.admin = record[q.by].admin
      BY <1>0 DEF Handler
    <3> HIDE DEF r
    <3>3. proc'[Poller] = r
      BY <1>0, <3>1, OwnHandler
    <3>4. record'[q.by].admin = record[q.by].admin
      BY <1>0, <3>1 DEF Flags
    <3>5. q.pc = "dispatch"
      BY <1>3 DEF Dispatch
    <3> QED
      BY <3>1, <3>2, <3>3, <3>4, <3>5 DEF WriterStays
  <2>2. CASE q.action # "id"
    <3>1. proc'[Poller].pc \in {"idle", "save", "write"}
      <4>1. CASE Finish(Poller)
        BY <1>0, <4>1, OwnHandler DEF Finish, Idle
      <4>2. CASE Goto(Poller, [q EXCEPT !.pc = "save"])
        BY <1>0, <4>2, OwnHandler DEF Handler
      <4>3. CASE Goto(Poller, [q EXCEPT !.pc = "write", !.target = RecordOf(q.user),
                                        !.todo = Calls(q.action)])
        <5> DEFINE r == [q EXCEPT !.pc = "write", !.target = RecordOf(q.user),
                                  !.todo = Calls(q.action)]
        <5>1. r.pc = "write"
          BY <1>0 DEF Handler
        <5> HIDE DEF r
        <5>2. proc'[Poller] = r
          BY <1>0, <4>3, OwnHandler DEF r
        <5> QED
          BY <5>1, <5>2
      <4> QED
        BY <1>3, <2>2, <4>1, <4>2, <4>3 DEF Dispatch
    <3> QED
      BY <3>1, ElsewhereStays
  <2> QED
    BY <2>1, <2>2
<1>4. CASE Authenticate \/ Save(Poller)
  BY <1>0, <1>4, OwnHandler, ElsewhereStays DEF Authenticate, Save, Finish, Idle
<1>5. CASE Write(Poller)
  <2>1. proc'[Poller] = [q EXCEPT !.todo = Tail(@), !.pc = AfterCall(q)]
    BY <1>0, <1>5, OwnHandler DEF Write
  <2>2. proc'[Poller].pc \in {"save", "write"}
    BY <1>0, <2>1 DEF Handler, AfterCall
  <2> QED
    BY <2>2, ElsewhereStays
<1> QED
  BY <1>1, <1>2, <1>2a, <1>3, <1>4, <1>5 DEF PollerStep

(* No press changes the poller's handler; a restart ends it.                *)
LEMMA PressesLeave ==
  ASSUME IInv, Next, ~PollerStep
  PROVE  proc'[Poller] = proc[Poller] \/ proc'[Poller] = Idle
<1>0. TypeOK /\ Poller \in Process /\ Poller \notin Press /\ Press \subseteq Process
  BY DEF IInv, Process
<1>1. ASSUME NEW r \in Press, PressStep(r) PROVE proc'[Poller] = proc[Poller]
  <2>1. PICK q : Goto(r, q)
    BY <1>1 DEF PressStep, ReceivePress, Enter, Find, Delete, Write, Save, Finish
  <2> QED
    BY <1>0, <1>1, <2>1, OwnHandler
<1>2. CASE Restart
  BY <1>0, <1>2 DEF Restart
<1> QED
  BY <1>1, <1>2 DEF Next

LEMMA MessageStep == IInv /\ MessageStays /\ [Next]_vars => MessageStays'
<1> SUFFICES ASSUME IInv, MessageStays, [Next]_vars, Poller \notin disturbed'
             PROVE  WriterStays(proc'[Poller], record', current', Admins')
  BY DEF MessageStays
<1>1. CASE UNCHANGED vars
  BY <1>1 DEF vars, MessageStays, Admins, Known, RecordOf
<1>2. CASE Next /\ proc'[Poller].pc = "idle"
  BY <1>2, ElsewhereStays
<1>3. CASE Next /\ proc'[Poller].pc # "idle"
  <2>1. Poller \notin disturbed /\ (proc'[Poller] # proc[Poller] \/ UNCHANGED <<record, current>>)
    BY <1>3 DEF Next, NoteDisturbed, Process
  <2>2. WriterStays(proc[Poller], record, current, Admins)
    BY <2>1 DEF MessageStays
  <2>3. CASE PollerStep
    BY <2>2, <2>3, PollerStays
  <2>4. CASE ~PollerStep
    <3>1. proc'[Poller] = proc[Poller]
      BY <1>3, <2>4, PressesLeave DEF Idle
    <3>2. UNCHANGED <<record, current>> /\ Admins' = Admins
      BY <2>1, <3>1 DEF Admins, Known, RecordOf
    <3> QED
      BY <2>2, <3>1, <3>2
  <2> QED
    BY <2>3, <2>4
<1> QED
  BY <1>1, <1>2, <1>3

(* telegram.go 170-196: of all messages only a first contact when there is  *)
(* no admin makes one, and the password gives and takes nobody's role,      *)
(* unless a press changed a record since the message was read.              *)
THEOREM ContactKeepsTheAdmins == Spec => UndisturbedContactKeepsAdmins
<1>1. Init => MessageStays
  BY ElsewhereStays DEF Init, MessageStays, Idle, Process
<1>2. ASSUME IInv, MessageStays, Poller \notin disturbed PROVE ContactKeepsAdmins
  <2> DEFINE q == proc[Poller]
             u == ID(q.by)
  <2>1. TypeOK /\ u \in User /\ q.admin \in BOOLEAN /\ q.by \in Record
    <3>1. TypeOK /\ Poller \in Process
      BY <1>2 DEF IInv, Process
    <3>2. q \in Handler
      BY <3>1 DEF TypeOK
    <3> QED
      BY <3>1, <3>2, IDOfRecord DEF Handler
  <2>2. WriterStays(q, record, current, Admins)
    BY <1>2 DEF MessageStays
  <2>3. ASSUME FirstContact PROVE Admins' = IF Admins = {} THEN {u} ELSE Admins
    <3>1. ~Known(u) /\ q.admin = (Admins = {}) /\ Create(u, q.admin)
      BY <2>2, <2>3 DEF FirstContact, WriterStays, Known
    <3> QED
      BY <2>1, <3>1, CreateUnknown
  <2>4. ASSUME Authenticate PROVE Admins' = Admins
    <3>1. Known(u) /\ RecordOf(u) = q.by /\ Create(u, record[RecordOf(u)].admin)
      BY <2>2, <2>4 DEF Authenticate, WriterStays, Known, RecordOf
    <3> QED
      BY <2>1, <3>1, CreateKnown
  <2> QED
    BY <2>3, <2>4 DEF ContactKeepsAdmins
<1>3. IInv /\ MessageStays => [Poller \notin disturbed => ContactKeepsAdmins]_vars
  BY <1>2
<1> QED
  BY <1>1, <1>3, MessageStep, Invariant, PTL DEF Spec, UndisturbedContactKeepsAdmins

=============================================================================
