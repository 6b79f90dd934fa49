------------------------- MODULE EventCatalog_proofs -------------------------
(****************************************************************************)
(* Proofs about EventCatalog for any number of events, requests, chat       *)
(* handlers and subscribers.                                                *)
(*                                                                          *)
(* The promises to the clients are not inductive: why a rollback never      *)
(* takes away a promised event is a fact about who holds the mutex and what *)
(* that request has done so far.  IInv says it.                             *)
(****************************************************************************)
EXTENDS EventCatalog, TLAPS

USE CatalogAssumption

-----------------------------------------------------------------------------
(* The inductive invariant *)

(* A request inside its critical section holds the mutex. *)
Critical(r) ==
  \/ request[r].pc \in {"sweep", "rollback"}
  \/ request[r].pc = "save" /\ request[r].op \in CatalogOp

MutexHeld == \A r \in Request : Critical(r) => mutex = r

(* What a request has done to its event by the time it has come so far. *)
Registering(r) ==
  request[r].pc = "save" /\ request[r].op \in {"put", "notify"}

RequestInv ==
  \A r \in Request : LET q == request[r] IN
    /\ q.pc = "rollback" => q.created
    /\ q.created => q.pc \in {"save", "rollback"} /\ q.op \in {"put", "notify"}
    /\ q.pc = "sweep" => q.op = "remove"
    /\ q.created => q.event \notin promised
    /\ Registering(r) => q.event \in catalog /\ q.event \notin withdrawn
    /\ Registering(r) /\ q.op = "put" /\ q.text # NoText => text[q.event] = q.text
    /\ q.op = "remove" /\ q.pc \in {"sweep", "save"}
         => q.event \notin catalog /\ q.event \notin promised

(* A description is promised only of a promised event. *)
TextOfPromised == \A e \in Event : promisedText[e] # AnyText => e \in promised

IInv ==
  /\ TypeOK
  /\ MutexHeld
  /\ RequestInv
  /\ TextOfPromised
  /\ NoMemoryOnlyEvent
  /\ PromiseKept
  /\ RemovedStaysRemoved

-----------------------------------------------------------------------------
(* Type correctness *)

LEMMA IdleTypes == IdleRequest \in RequestState /\ IdleHandler \in HandlerState
BY DEF IdleRequest, IdleHandler, RequestState, HandlerState, CatalogOp

LEMMA LoadedTypes ==
  ASSUME TypeOK
  PROVE  LoadedCatalog \subseteq Event /\ LoadedText \in [Event -> Description]
BY DEF TypeOK, LoadedCatalog, LoadedText, Description

LEMMA DescriptionType ==
  ASSUME TypeOK, NEW e \in Event, NEW d \in Text \cup {NoText}
  PROVE  DescriptionAfter(e, d) \in Description
BY DEF TypeOK, DescriptionAfter, Description

(* The variables keep their types. *)
THEOREM TypeCorrect == Spec => []TypeOK
<1>1. Init => TypeOK
  BY IdleTypes DEF Init, TypeOK, LoadedCatalog, LoadedText, Description
<1>2. TypeOK /\ [Next]_vars => TypeOK'
  <2> SUFFICES ASSUME TypeOK, [Next]_vars PROVE TypeOK'
    OBVIOUS
  <2> USE IdleTypes DEF TypeOK
  <2>1. ASSUME NEW r \in Request, Receive(r) PROVE TypeOK'
    BY <2>1 DEF Receive, history, RequestState, CatalogOp, SubOp
  <2>2. ASSUME NEW r \in Request, RegisterEvent(r) PROVE TypeOK'
    <3>1. request[r].event \in Event /\ request[r].text \in Text \cup {NoText}
      BY DEF RequestState
    <3>2. DescriptionAfter(request[r].event, request[r].text) \in Description
      BY <3>1, DescriptionType
    <3>3. request' \in [Request -> RequestState]
      <4>1. CASE request[r].event \in catalog
        <5>1. request' = [request EXCEPT ![r].pc = "save", ![r].created = FALSE]
          BY <2>2, <4>1, Zenon DEF RegisterEvent
        <5>2. [request[r] EXCEPT !.pc = "save", !.created = FALSE] \in RequestState
          BY DEF RequestState
        <5> QED
          BY <5>1, <5>2
      <4>2. CASE request[r].event \notin catalog
        <5>1. request' = [request EXCEPT ![r].pc = "save", ![r].created = TRUE]
          BY <2>2, <4>2, Zenon DEF RegisterEvent
        <5>2. [request[r] EXCEPT !.pc = "save", !.created = TRUE] \in RequestState
          BY DEF RequestState
        <5> QED
          BY <5>1, <5>2
      <4> QED
        BY <4>1, <4>2
    <3> QED
      BY <2>2, <3>1, <3>2, <3>3 DEF RegisterEvent, Upsert
  <2>3. ASSUME NEW r \in Request, NotifyKnown(r) PROVE TypeOK'
    BY <2>3 DEF NotifyKnown, Reply, RequestState
  <2>4. ASSUME NEW r \in Request, NotifyNew(r) PROVE TypeOK'
    BY <2>4, DescriptionType DEF NotifyNew, Upsert, RequestState
  <2>5. ASSUME NEW r \in Request, RemoveEvent(r) PROVE TypeOK'
    BY <2>5 DEF RemoveEvent, RemoveLock, RequestState, Description
  <2>6. ASSUME NEW r \in Request, RemoveFromSubscriber(r) PROVE TypeOK'
    <3>1. request[r].event \in Event
      BY DEF RequestState
    <3>2. PICK u \in request[r].todo :
            /\ subs' = [subs EXCEPT ![u] = @ \ {request[r].event}]
            /\ fromMenu' = fromMenu \ {<<u, request[r].event>>}
            /\ request' = [request EXCEPT ![r].todo = @ \ {u},
                 ![r].pc = IF request[r].todo = {u} THEN "save" ELSE "sweep"]
      BY <2>6 DEF RemoveFromSubscriber
    <3>3. request' \in [Request -> RequestState]
      <4>1. request[r] \in RequestState /\ request[r].todo \ {u} \subseteq User
        BY DEF RequestState
      <4>2. [request[r] EXCEPT !.todo = @ \ {u}, !.pc = "save"] \in RequestState
            /\ [request[r] EXCEPT !.todo = @ \ {u}, !.pc = "sweep"] \in RequestState
        BY <4>1 DEF RequestState
      <4> QED
        BY <3>2, <4>2
    <3>4. subs' \in [User -> SUBSET Event]
      BY <3>2
    <3> QED
      BY <2>6, <3>2, <3>3, <3>4 DEF RemoveFromSubscriber
  <2>7. ASSUME NEW r \in Request, ApplySubCmd(r) PROVE TypeOK'
    <3> USE DEF ApplySubCmd, ApplySubscribe, ApplyUnsubscribe, ApplyPause, ToSave
    <3>1. request[r].event \in Event /\ request[r].user \in User
      BY DEF RequestState
    <3>2. subs' \in [User -> SUBSET Event]
      BY <2>7, <3>1
    <3>3. request' \in [Request -> RequestState]
      <4>1. [request[r] EXCEPT !.pc = "save"] \in RequestState
        BY DEF RequestState
      <4>2. \/ request' = [request EXCEPT ![r] = IdleRequest]
            \/ request' = [request EXCEPT ![r].pc = "save"]
        BY <2>7 DEF Reply
      <4> QED
        BY <4>1, <4>2
    <3>4. fromMenu' \subseteq User \X Event
      BY <2>7
    <3> QED
      BY <2>7, <3>2, <3>3, <3>4
  <2>8. ASSUME NEW r \in Request, SaveOk(r) PROVE TypeOK'
    BY <2>8 DEF SaveOk, Reply, Unlocked, Memory, RequestState
  <2>9. ASSUME NEW r \in Request, SaveFail(r) PROVE TypeOK'
    BY <2>9 DEF SaveFail, Reply, Unlocked, RequestState, history
  <2>10. ASSUME NEW r \in Request, Rollback(r) PROVE TypeOK'
    BY <2>10 DEF Rollback, RolledBack, Reply, Unlocked, RequestState, Description
  <2>11. ASSUME NEW h \in Handler, HandleChat(h) PROVE TypeOK'
    <3>1. CASE PressSubscribe(h)
      BY <3>1 DEF PressSubscribe, Matches, HandlerState, history
    <3>2. CASE TextSubscribe(h)
      BY <3>2 DEF TextSubscribe, HandlerState, history
    <3>3. CASE Subscribe(h)
      <4>1. handler[h].event \in Event /\ handler[h].user \in User
        BY DEF HandlerState
      <4>2. subs' \in [User -> SUBSET Event]
        BY <3>3, <4>1 DEF Subscribe
      <4>3. handler' \in [Handler -> HandlerState]
        BY <3>3 DEF Subscribe, AfterSubscribe, HandlerState
      <4>4. fromMenu' \subseteq User \X Event
        BY <3>3, <4>1 DEF Subscribe
      <4> QED
        BY <3>3, <4>2, <4>3, <4>4 DEF Subscribe
    <3>4. CASE Recheck(h)
      BY <3>4 DEF Recheck, HandlerState, history
    <3>5. CASE Undo(h)
      BY <3>5 DEF Undo, Finish, HandlerState
    <3>6. CASE Unsubscribe(h)
      BY <3>6 DEF Unsubscribe, HandlerState
    <3>7. CASE HandlerSaves(h)
      BY <3>7 DEF HandlerSaves, Finish, Memory, history
    <3> QED
      BY <2>11, <3>1, <3>2, <3>3, <3>4, <3>5, <3>6, <3>7 DEF HandleChat
  <2>12. CASE OtherSave
    BY <2>12 DEF OtherSave, Memory, history
  <2>13. CASE Restart
    BY <2>13, LoadedTypes DEF Restart
  <2>14. CASE UNCHANGED vars
    BY <2>14 DEF vars
  <2> QED
    BY <2>1, <2>2, <2>3, <2>4, <2>5, <2>6, <2>7, <2>8, <2>9, <2>10, <2>11, <2>12,
       <2>13, <2>14 DEF Next, HandleRequest
<1> QED
  BY <1>1, <1>2, PTL DEF Spec

-----------------------------------------------------------------------------
(* The promises to the clients *)

(* What no chat handler does: it leaves the catalog, the mutex and the      *)
(* requests alone, and writes to the state file only what is in memory.     *)
ChatStep ==
  /\ UNCHANGED <<catalog, text, mutex, request, promised, promisedText, withdrawn>>
  /\ disk' = disk \/ disk' = Memory

LEMMA ChatLeavesCatalog ==
  ASSUME NEW h \in Handler, HandleChat(h)
  PROVE  ChatStep
BY DEF HandleChat, PressSubscribe, TextSubscribe, Subscribe, Recheck, Undo,
       Unsubscribe, HandlerSaves, ChatStep, history

(* Where the mutex is free, everything in the catalog survives a restart. *)
LEMMA FreeMeansSaved ==
  ASSUME IInv, LockFree
  PROVE  catalog \subseteq LoadedCatalog
<1> SUFFICES ASSUME NEW r \in Request PROVE ~Unsaved(r)
  BY DEF IInv, NoMemoryOnlyEvent
<1>1. mutex # r
  BY DEF LockFree
<1> QED
  BY <1>1 DEF IInv, MutexHeld, RequestInv, Critical, Unsaved, CatalogOp

(* While r holds the mutex, no other request is inside its section. *)
LEMMA Exclusion ==
  ASSUME IInv, NEW r \in Request, mutex = r \/ LockFree,
         NEW o \in Request, o # r
  PROVE  ~Critical(o) /\ ~request[o].created /\ ~Unsaved(o)
         /\ ~Registering(o) /\ request[o].pc # "sweep"
         /\ (request[o].pc = "save" => request[o].op \in SubOp)
BY DEF IInv, TypeOK, RequestState, MutexHeld, RequestInv, Critical, Registering,
       Unsaved, LockFree, CatalogOp, SubOp

(* A step that writes memory to the state file, or nothing, and touches    *)
(* nothing else of the catalog keeps the invariant.                        *)
LEMMA ChatKeepsInv ==
  ASSUME IInv, TypeOK', ChatStep
  PROVE  IInv'
<1> USE DEF ChatStep, Memory
<1>1. MutexHeld' /\ RequestInv' /\ TextOfPromised'
  BY DEF IInv, MutexHeld, RequestInv, TextOfPromised, Critical, Registering
<1>2. NoMemoryOnlyEvent'
  BY DEF IInv, NoMemoryOnlyEvent, Unsaved, LoadedCatalog, TypeOK
<1>3. PromiseKept' /\ RemovedStaysRemoved'
  BY DEF IInv, PromiseKept, RemovedStaysRemoved, LoadedCatalog, TypeOK
<1> QED
  BY <1>1, <1>2, <1>3 DEF IInv

THEOREM Inductive == IInv /\ [Next]_vars /\ TypeOK' => IInv'
<1> SUFFICES ASSUME IInv, [Next]_vars, TypeOK' PROVE IInv'
  OBVIOUS
<1>0. TypeOK
  BY DEF IInv
<1>1. ASSUME NEW r \in Request, Receive(r) PROVE IInv'
  <2>1. /\ UNCHANGED <<catalog, text, disk, mutex, promised, promisedText, withdrawn>>
        /\ request[r].pc = "idle" /\ request'[r].pc = "run" /\ ~request'[r].created
        /\ \A o \in Request : o # r => request'[o] = request[o]
    BY <1>1, <1>0 DEF Receive, history, TypeOK
  <2>2. MutexHeld' /\ RequestInv' /\ TextOfPromised'
    BY <2>1 DEF IInv, MutexHeld, RequestInv, TextOfPromised, Critical, Registering
  <2>3. NoMemoryOnlyEvent'
    BY <2>1 DEF IInv, NoMemoryOnlyEvent, Unsaved, LoadedCatalog
  <2>4. PromiseKept' /\ RemovedStaysRemoved'
    BY <2>1 DEF IInv, PromiseKept, RemovedStaysRemoved, LoadedCatalog
  <2> QED
    BY <2>2, <2>3, <2>4 DEF IInv
<1>2. ASSUME NEW r \in Request, RegisterEvent(r) \/ NotifyNew(r) PROVE IInv'
  <2> DEFINE q == request[r]
             e == q.event
             made == e \notin catalog
  <2>1. /\ LockFree /\ mutex' = r /\ q.pc = "run" /\ Upsert(e, q.text)
        /\ q.op \in {"put", "notify"}
        /\ UNCHANGED <<subs, disk, handler, promised, fromMenu>>
        /\ e \in Event /\ q.text \in Text \cup {NoText}
    BY <1>2, <1>0 DEF RegisterEvent, NotifyNew, TypeOK, RequestState
  <2>2. /\ request'[r].pc = "save" /\ (request'[r].created <=> made)
        /\ request'[r].op = q.op /\ request'[r].event = e /\ request'[r].text = q.text
        /\ \A o \in Request : o # r => request'[o] = request[o]
    <3>1. CASE RegisterEvent(r)
      BY <3>1, <1>0 DEF RegisterEvent, TypeOK, RequestState
    <3>2. CASE NotifyNew(r)
      BY <3>2, <1>0 DEF NotifyNew, TypeOK, RequestState
    <3> QED
      BY <1>2, <3>1, <3>2
  <2>3. \A o \in Request : o # r =>
          ~Critical(o) /\ ~request[o].created /\ ~Unsaved(o)
          /\ ~Registering(o) /\ request[o].pc # "sweep"
          /\ (request[o].pc = "save" => request[o].op \in SubOp)
    BY <2>1, Exclusion
  <2>4. /\ catalog' = catalog \cup {e}
        /\ text' = [text EXCEPT ![e] = DescriptionAfter(e, q.text)]
        /\ withdrawn' = withdrawn \ {e}
        /\ promisedText' = [promisedText EXCEPT
             ![e] = IF DescriptionAfter(e, q.text) = text[e] THEN @ ELSE AnyText]
    BY <2>1 DEF Upsert
  <2>5. MutexHeld'
    BY <2>1, <2>2, <2>3 DEF MutexHeld, Critical
  <2>6. made => e \notin promised
    BY DEF IInv, PromiseKept
  <2>7. RequestInv'
    <3>1. text'[e] = DescriptionAfter(e, q.text)
      BY <2>1, <2>4, <1>0 DEF TypeOK
    <3>2. q.text # NoText => text'[e] = q.text
      BY <3>1 DEF DescriptionAfter
    <3>3. ASSUME NEW o \in Request, o # r
          PROVE  /\ ~request'[o].created /\ request'[o].pc \notin {"sweep", "rollback"}
                 /\ request'[o].pc = "save" => request'[o].op \in SubOp
      BY <2>2, <2>3, <3>3 DEF Critical
    <3>4. request'[r].created => request'[r].event \notin promised'
      BY <2>1, <2>2, <2>6, Zenon
    <3>5. /\ request'[r].event \in catalog' /\ request'[r].event \notin withdrawn'
          /\ request'[r].text # NoText => text'[request'[r].event] = request'[r].text
      BY <2>2, <2>4, <3>2
    <3>6. request'[r].pc = "save" /\ request'[r].op \in {"put", "notify"}
      BY <2>1, <2>2
    <3> QED
      BY <3>3, <3>4, <3>5, <3>6 DEF RequestInv, Registering, SubOp
  <2>8. TextOfPromised'
    BY <2>1, <2>4, <1>0 DEF IInv, TextOfPromised, TypeOK
  <2>9. NoMemoryOnlyEvent'
    <3>1. catalog \subseteq LoadedCatalog'
      BY <2>1, FreeMeansSaved DEF LoadedCatalog
    <3> QED
      BY <2>1, <2>2, <2>4, <3>1 DEF NoMemoryOnlyEvent, Unsaved
  <2>10. PromiseKept'
    BY <2>1, <2>4, <1>0 DEF IInv, PromiseKept, LoadedCatalog, TypeOK
  <2>11. RemovedStaysRemoved'
    BY <2>1, <2>4 DEF IInv, RemovedStaysRemoved
  <2> QED
    BY <2>5, <2>7, <2>8, <2>9, <2>10, <2>11 DEF IInv
<1>3. ASSUME NEW r \in Request, NotifyKnown(r) PROVE IInv'
  <2> DEFINE e == request[r].event
  <2>1. /\ LockFree /\ e \in catalog /\ promised' = promised \cup {e}
        /\ request[r].pc = "run" /\ request' = [request EXCEPT ![r] = IdleRequest]
        /\ UNCHANGED <<catalog, text, disk, mutex, promisedText, withdrawn>>
    BY <1>3 DEF NotifyKnown, Reply
  <2>2. /\ request'[r] = IdleRequest
        /\ \A o \in Request : o # r => request'[o] = request[o]
    BY <2>1, <1>0 DEF TypeOK
  <2>3. \A o \in Request : o # r =>
          ~Critical(o) /\ ~request[o].created /\ ~Unsaved(o)
          /\ ~Registering(o) /\ request[o].pc # "sweep"
          /\ (request[o].pc = "save" => request[o].op \in SubOp)
    BY <2>1, Exclusion
  <2>4. MutexHeld'
    BY <2>1, <2>2 DEF IInv, MutexHeld, Critical, IdleRequest
  <2>5. RequestInv'
    <3>1. ASSUME NEW o \in Request, o # r
          PROVE  /\ ~request'[o].created /\ request'[o].pc \notin {"sweep", "rollback"}
                 /\ request'[o].pc = "save" => request'[o].op \in SubOp
      BY <2>2, <2>3, <3>1 DEF Critical
    <3> QED
      BY <2>2, <3>1 DEF RequestInv, Registering, SubOp, IdleRequest
  <2>6. TextOfPromised'
    BY <2>1 DEF IInv, TextOfPromised
  <2>7. NoMemoryOnlyEvent'
    BY <2>1, FreeMeansSaved DEF NoMemoryOnlyEvent, LoadedCatalog
  <2>8. PromiseKept' /\ RemovedStaysRemoved'
    BY <2>1, FreeMeansSaved, <1>0
    DEF IInv, PromiseKept, RemovedStaysRemoved, TextOfPromised, LoadedCatalog, TypeOK
  <2> QED
    BY <2>4, <2>5, <2>6, <2>7, <2>8 DEF IInv
<1>4. ASSUME NEW r \in Request, RemoveEvent(r) PROVE IInv'
  <2> DEFINE e == request[r].event
  <2>1. /\ LockFree /\ mutex' = r /\ request[r].op = "remove" /\ e \in Event
        /\ catalog' = catalog \ {e} /\ text' = [text EXCEPT ![e] = OwnName]
        /\ promised' = promised \ {e}
        /\ promisedText' = [promisedText EXCEPT ![e] = AnyText]
        /\ UNCHANGED <<disk, withdrawn>>
    BY <1>4, <1>0 DEF RemoveEvent, RemoveLock, TypeOK, RequestState
  <2>2. /\ request'[r].pc = "sweep" /\ request'[r].created = request[r].created
        /\ request'[r].op = "remove" /\ request'[r].event = e
        /\ \A o \in Request : o # r => request'[o] = request[o]
    BY <1>4, <1>0 DEF RemoveEvent, TypeOK, RequestState
  <2>3. ~request[r].created
    BY <1>4 DEF IInv, RequestInv, RemoveEvent
  <2>4. ASSUME NEW o \in Request, o # r
        PROVE  /\ ~request[o].created /\ ~Unsaved(o) /\ ~Critical(o)
               /\ request[o].pc \notin {"sweep", "rollback"}
               /\ request[o].pc = "save" => request[o].op \in SubOp
    BY <2>1, <2>4, Exclusion DEF Critical
  <2>5. MutexHeld'
    BY <2>1, <2>2, <2>4 DEF MutexHeld, Critical
  <2>6. RequestInv'
    BY <2>1, <2>2, <2>3, <2>4 DEF RequestInv, Registering, SubOp
  <2>7. TextOfPromised'
    BY <2>1, <1>0 DEF IInv, TextOfPromised, TypeOK
  <2>8. NoMemoryOnlyEvent'
    BY <2>1, FreeMeansSaved DEF NoMemoryOnlyEvent, LoadedCatalog
  <2>9. PromiseKept' /\ RemovedStaysRemoved'
    BY <2>1, <1>0 DEF IInv, PromiseKept, RemovedStaysRemoved, LoadedCatalog, TypeOK
  <2> QED
    BY <2>5, <2>6, <2>7, <2>8, <2>9 DEF IInv
<1>5. ASSUME NEW r \in Request, RemoveFromSubscriber(r) PROVE IInv'
  <2>1. /\ UNCHANGED <<catalog, text, disk, mutex, promised, promisedText, withdrawn>>
        /\ request[r].pc = "sweep" /\ request'[r].pc \in {"sweep", "save"}
        /\ request'[r].created = request[r].created
        /\ request'[r].op = request[r].op /\ request'[r].event = request[r].event
        /\ \A o \in Request : o # r => request'[o] = request[o]
    <3>1. PICK u \in request[r].todo :
            request' = [request EXCEPT ![r].todo = @ \ {u},
              ![r].pc = IF request[r].todo = {u} THEN "save" ELSE "sweep"]
      BY <1>5 DEF RemoveFromSubscriber
    <3> QED
      BY <1>5, <3>1, <1>0 DEF RemoveFromSubscriber, TypeOK, RequestState
  <2>2. request[r].op = "remove" /\ ~request[r].created /\ Critical(r)
    BY <2>1 DEF IInv, RequestInv, Critical
  <2>3. MutexHeld'
    BY <2>1, <2>2 DEF IInv, MutexHeld, Critical
  <2>4. RequestInv'
    BY <2>1, <2>2 DEF IInv, RequestInv, Registering
  <2>5. TextOfPromised' /\ PromiseKept' /\ RemovedStaysRemoved'
    BY <2>1 DEF IInv, TextOfPromised, PromiseKept, RemovedStaysRemoved, LoadedCatalog
  <2>6. NoMemoryOnlyEvent'
    BY <2>1, <2>2 DEF IInv, NoMemoryOnlyEvent, Unsaved, LoadedCatalog
  <2> QED
    BY <2>3, <2>4, <2>5, <2>6 DEF IInv
<1>6. ASSUME NEW r \in Request, ApplySubCmd(r) PROVE IInv'
  <2>1. /\ UNCHANGED <<catalog, text, disk, mutex, promised, promisedText, withdrawn>>
        /\ request[r].pc = "run" /\ request[r].op \in SubOp
        /\ \A o \in Request : o # r => request'[o] = request[o]
    BY <1>6, <1>0 DEF ApplySubCmd, ApplySubscribe, ApplyUnsubscribe, ApplyPause,
       ToSave, Reply, SubOp, TypeOK
  <2>2. ~request[r].created
    BY <2>1 DEF IInv, RequestInv
  <2>3. /\ ~request'[r].created
        /\ \/ request'[r].pc = "idle"
           \/ request'[r].pc = "save" /\ request'[r].op \in SubOp
    BY <1>6, <1>0, <2>1, <2>2 DEF ApplySubCmd, ApplySubscribe, ApplyUnsubscribe,
       ApplyPause, ToSave, Reply, IdleRequest, TypeOK, RequestState
  <2>4. MutexHeld'
    BY <2>1, <2>3 DEF IInv, MutexHeld, Critical, CatalogOp, SubOp
  <2>5. RequestInv'
    BY <2>1, <2>3 DEF IInv, RequestInv, Registering, SubOp
  <2>6. TextOfPromised' /\ PromiseKept' /\ RemovedStaysRemoved'
    BY <2>1 DEF IInv, TextOfPromised, PromiseKept, RemovedStaysRemoved, LoadedCatalog
  <2>7. NoMemoryOnlyEvent'
    BY <2>1, <2>2 DEF IInv, NoMemoryOnlyEvent, Unsaved, LoadedCatalog
  <2> QED
    BY <2>4, <2>5, <2>6, <2>7 DEF IInv
<1>7. ASSUME NEW r \in Request, SaveOk(r) PROVE IInv'
  <2> DEFINE q == request[r]
             e == q.event
  <2>1. /\ q.pc = "save" /\ disk' = Memory /\ mutex' = Unlocked(r)
        /\ UNCHANGED <<catalog, text>>
        /\ promised' = IF q.op \in {"put", "notify"} THEN promised \cup {e} ELSE promised
        /\ promisedText' = IF q.op = "put" /\ q.text # NoText
                           THEN [promisedText EXCEPT ![e] = q.text] ELSE promisedText
        /\ withdrawn' = IF q.op = "remove" THEN withdrawn \cup {e} ELSE withdrawn
        /\ e \in Event
    BY <1>7, <1>0 DEF SaveOk, TypeOK, RequestState
  <2>2. /\ request'[r] = IdleRequest
        /\ \A o \in Request : o # r => request'[o] = request[o]
    BY <1>7, <1>0 DEF SaveOk, Reply, TypeOK
  <2>3. /\ disk'.catalog = catalog /\ disk'.text = text
        /\ catalog' \subseteq LoadedCatalog'
    BY <2>1 DEF Memory, LoadedCatalog
  <2>4. q.op \in CatalogOp => \A o \in Request : o # r =>
          ~Critical(o) /\ ~request[o].created /\ ~Registering(o)
    BY <2>1, Exclusion DEF IInv, MutexHeld, Critical
  <2>5. /\ q.op \in {"put", "notify"} => e \in catalog /\ e \notin withdrawn
        /\ q.op = "put" /\ q.text # NoText => text[e] = q.text
        /\ q.op = "remove" => e \notin catalog /\ e \notin promised
    BY <2>1 DEF IInv, RequestInv, Registering
  <2>6. MutexHeld'
    <3>1. ASSUME NEW o \in Request, o # r, Critical(o) PROVE mutex' = o
      BY <2>1, <3>1 DEF IInv, MutexHeld, Unlocked
    <3> QED
      BY <2>2, <3>1 DEF MutexHeld, Critical, IdleRequest
  <2>7. RequestInv'
    <3>1. CASE q.op \in CatalogOp
      <4>1. ASSUME NEW o \in Request, o # r
            PROVE  /\ ~request'[o].created /\ request'[o].pc \notin {"sweep", "rollback"}
                   /\ request'[o].pc = "save" => request'[o].op \notin CatalogOp
        BY <2>2, <2>4, <3>1, <4>1 DEF Critical
      <4> QED
        BY <2>2, <4>1 DEF RequestInv, Registering, IdleRequest, CatalogOp
    <3>2. CASE q.op \notin CatalogOp
      <4>1. UNCHANGED <<promised, promisedText, withdrawn, catalog, text>>
        BY <2>1, <3>2 DEF CatalogOp
      <4> QED
        BY <2>2, <4>1 DEF IInv, RequestInv, Registering, IdleRequest
    <3> QED
      BY <3>1, <3>2
  <2>8. TextOfPromised'
    BY <2>1, <1>0 DEF IInv, TextOfPromised, TypeOK
  <2>9. NoMemoryOnlyEvent'
    BY <2>3 DEF NoMemoryOnlyEvent
  <2>10. PromiseKept'
    <3>1. ASSUME NEW x \in promised'
          PROVE  /\ x \in catalog'
                 /\ promisedText'[x] # AnyText => text'[x] = promisedText'[x]
      BY <2>1, <2>5, <1>0 DEF IInv, PromiseKept, TextOfPromised, TypeOK
    <3> QED
      BY <2>1, <2>3, <3>1 DEF PromiseKept
  <2>11. RemovedStaysRemoved'
    BY <2>1, <2>3, <2>5 DEF IInv, RemovedStaysRemoved
  <2> QED
    BY <2>6, <2>7, <2>8, <2>9, <2>10, <2>11 DEF IInv
<1>8. ASSUME NEW r \in Request, SaveFail(r) PROVE IInv'
  <2>1. /\ UNCHANGED <<catalog, text, disk, promised, promisedText, withdrawn>>
        /\ request[r].pc = "save"
        /\ \A o \in Request : o # r => request'[o] = request[o]
    BY <1>8, <1>0 DEF SaveFail, Reply, history, TypeOK
  <2>2. CASE request[r].created
    <3>1. /\ mutex' = mutex /\ request'[r].pc = "rollback"
          /\ request'[r].created = request[r].created
          /\ request'[r].op = request[r].op /\ request'[r].event = request[r].event
      <4>1. mutex' = mutex /\ request' = [request EXCEPT ![r].pc = "rollback"]
        BY <1>8, <2>2 DEF SaveFail
      <4> QED
        BY <4>1, <1>0 DEF TypeOK, RequestState
    <3>2. Critical(r) /\ request[r].op \in {"put", "notify"}
      BY <2>1, <2>2 DEF IInv, RequestInv, Critical, CatalogOp
    <3>3. MutexHeld'
      BY <2>1, <3>1, <3>2 DEF IInv, MutexHeld, Critical
    <3>4. RequestInv'
      BY <2>1, <2>2, <3>1, <3>2 DEF IInv, RequestInv, Registering
    <3>5. NoMemoryOnlyEvent'
      <4>1. ASSUME NEW o \in Request, Unsaved(o)
            PROVE  Unsaved(o)' /\ request'[o].event = request[o].event
        BY <2>1, <2>2, <3>1, <4>1 DEF Unsaved
      <4> QED
        BY <2>1, <4>1 DEF IInv, NoMemoryOnlyEvent, LoadedCatalog
    <3> QED
      BY <2>1, <3>3, <3>4, <3>5
      DEF IInv, TextOfPromised, PromiseKept, RemovedStaysRemoved, LoadedCatalog
  <2>3. CASE ~request[r].created
    <3>1. mutex' = Unlocked(r) /\ request'[r] = IdleRequest
      BY <1>8, <2>3, <1>0 DEF SaveFail, Reply, TypeOK
    <3>2. MutexHeld'
      BY <2>1, <3>1 DEF IInv, MutexHeld, Critical, Unlocked, IdleRequest
    <3>3. RequestInv'
      BY <2>1, <3>1 DEF IInv, RequestInv, Registering, IdleRequest
    <3>4. NoMemoryOnlyEvent'
      BY <2>1, <2>3, <3>1 DEF IInv, NoMemoryOnlyEvent, Unsaved, LoadedCatalog
    <3> QED
      BY <2>1, <3>2, <3>3, <3>4
      DEF IInv, TextOfPromised, PromiseKept, RemovedStaysRemoved, LoadedCatalog
  <2> QED
    BY <2>2, <2>3
<1>9. ASSUME NEW r \in Request, Rollback(r) PROVE IInv'
  <2> DEFINE e == request[r].event
  <2>1. /\ request[r].pc = "rollback" /\ e \in Event
        /\ catalog' = catalog \ {e} /\ text' = [text EXCEPT ![e] = OwnName]
        /\ mutex' = Unlocked(r)
        /\ promisedText' = [promisedText EXCEPT ![e] = AnyText]
        /\ UNCHANGED <<disk, promised, withdrawn>>
    BY <1>9, <1>0 DEF Rollback, RolledBack, TypeOK, RequestState
  <2>2. /\ request'[r] = IdleRequest
        /\ \A o \in Request : o # r => request'[o] = request[o]
    BY <1>9, <1>0 DEF Rollback, Reply, TypeOK
  <2>3. e \notin promised /\ mutex = r
    BY <2>1 DEF IInv, RequestInv, MutexHeld, Critical
  <2>4. ASSUME NEW o \in Request, o # r
        PROVE  /\ ~request[o].created /\ ~Unsaved(o) /\ ~Critical(o)
               /\ request[o].pc \notin {"sweep", "rollback"}
               /\ request[o].pc = "save" => request[o].op \in SubOp
    BY <2>3, <2>4, Exclusion DEF Critical
  <2>5. MutexHeld'
    BY <2>2, <2>4 DEF MutexHeld, Critical, IdleRequest
  <2>6. RequestInv'
    BY <2>2, <2>4 DEF RequestInv, Registering, SubOp, IdleRequest
  <2>7. TextOfPromised'
    BY <2>1, <1>0 DEF IInv, TextOfPromised, TypeOK
  <2>8. NoMemoryOnlyEvent'
    <3>1. ASSUME NEW x \in catalog, x # e PROVE x \in LoadedCatalog
      BY <2>4, <3>1 DEF IInv, NoMemoryOnlyEvent
    <3> QED
      BY <2>1, <3>1 DEF NoMemoryOnlyEvent, LoadedCatalog
  <2>9. PromiseKept' /\ RemovedStaysRemoved'
    BY <2>1, <2>3, <1>0 DEF IInv, PromiseKept, RemovedStaysRemoved, LoadedCatalog, TypeOK
  <2> QED
    BY <2>5, <2>6, <2>7, <2>8, <2>9 DEF IInv
<1>10. ASSUME NEW h \in Handler, HandleChat(h) PROVE IInv'
  BY <1>10, ChatLeavesCatalog, ChatKeepsInv
<1>11. CASE OtherSave
  BY <1>11, ChatKeepsInv DEF OtherSave, ChatStep, history
<1>12. CASE Restart
  <2>1. /\ catalog' = LoadedCatalog /\ text' = LoadedText /\ UNCHANGED <<disk, promised>>
        /\ promisedText' = [x \in Event |-> IF x \in BuiltIn THEN AnyText ELSE promisedText[x]]
        /\ withdrawn' = withdrawn \ BuiltIn
        /\ request' = [o \in Request |-> IdleRequest]
    BY <1>12 DEF Restart
  <2>2. LoadedCatalog' = LoadedCatalog
    BY <2>1 DEF LoadedCatalog
  <2>3. MutexHeld' /\ RequestInv'
    BY <2>1 DEF MutexHeld, RequestInv, Critical, Registering, IdleRequest
  <2>4. TextOfPromised' /\ NoMemoryOnlyEvent'
    BY <2>1, <2>2, <1>0 DEF IInv, TextOfPromised, NoMemoryOnlyEvent, TypeOK
  <2>5. PromiseKept'
    BY <2>1, <2>2, <1>0 DEF IInv, PromiseKept, TypeOK, LoadedText
  <2>6. RemovedStaysRemoved'
    BY <2>1 DEF IInv, RemovedStaysRemoved, LoadedCatalog
  <2> QED
    BY <2>3, <2>4, <2>5, <2>6 DEF IInv
<1>13. CASE UNCHANGED vars
  BY <1>13 DEF vars, IInv, TypeOK, MutexHeld, RequestInv, Critical, Registering,
     TextOfPromised, NoMemoryOnlyEvent, Unsaved, PromiseKept, RemovedStaysRemoved, LoadedCatalog
<1> QED
  BY <1>1, <1>2, <1>3, <1>4, <1>5, <1>6, <1>7, <1>8, <1>9, <1>10, <1>11, <1>12, <1>13
  DEF Next, HandleRequest

(* IInv is an invariant of every run, for any sets of events, requests and *)
(* subscribers, whichever saves fail and wherever the program restarts.    *)
THEOREM Invariant == Spec => []IInv
<1>1. Init /\ TypeOK => IInv
  BY DEF Init, IInv, MutexHeld, RequestInv, Critical, Registering, TextOfPromised,
     NoMemoryOnlyEvent, PromiseKept, RemovedStaysRemoved, LoadedCatalog, IdleRequest
<1> QED
  BY <1>1, Inductive, TypeCorrect, PTL DEF Spec

(* What a client was told is registered (and described so) stays in the    *)
(* catalog and on disk until a removal begins.                             *)
THEOREM PromisesKept == Spec => []PromiseKept
BY Invariant, PTL DEF IInv

(* What a client was told is removed stays out of the catalog and the file. *)
THEOREM RemovalsKept == Spec => []RemovedStaysRemoved
BY Invariant, PTL DEF IInv

(* No event lives in memory only, but while its creator has yet to save it. *)
THEOREM NothingOnlyInMemory == Spec => []NoMemoryOnlyEvent
BY Invariant, PTL DEF IInv

-----------------------------------------------------------------------------
(* The handlers implement the registry *)

LEMMA RegistryKept ==
  ASSUME IInv
  PROVE  /\ LoadedCatalog \in SUBSET Event
         /\ Registry!Kept(promised, withdrawn \ BuiltIn, LoadedCatalog)
BY DEF IInv, TypeOK, PromiseKept, RemovedStaysRemoved, LoadedCatalog, Registry!Kept

(* Every step of the handlers is a step of the registry, or one its        *)
(* clients cannot see.                                                     *)
LEMMA RegistryStep ==
  ASSUME IInv, IInv', [Next]_vars
  PROVE  [Registry!Next]_(Registry!regVars)
<1> USE DEF Registry!regVars
<1>0. TypeOK
  BY DEF IInv
<1>1. /\ LoadedCatalog' \in SUBSET Event
      /\ Registry!Kept(promised', withdrawn' \ BuiltIn, LoadedCatalog')
  BY DEF IInv, TypeOK, PromiseKept, RemovedStaysRemoved, LoadedCatalog, Registry!Kept
<1>2. ASSUME NEW r \in Request, RegisterEvent(r) \/ NotifyNew(r)
      PROVE  Registry!Reopen(request[r].event) /\ request[r].event \in Event
  BY <1>2, <1>0
  DEF RegisterEvent, NotifyNew, Upsert, Registry!Reopen, LoadedCatalog, TypeOK, RequestState
<1>3. ASSUME NEW r \in Request, NotifyKnown(r)
      PROVE  Registry!Register(request[r].event) /\ request[r].event \in Event
  BY <1>3, <1>0, <1>1
  DEF NotifyKnown, Registry!Register, Registry!Write, TypeOK, RequestState
<1>4. ASSUME NEW r \in Request, RemoveEvent(r)
      PROVE  Registry!Retract(request[r].event) /\ request[r].event \in Event
  BY <1>4, <1>0
  DEF RemoveEvent, Registry!Retract, LoadedCatalog, TypeOK, RequestState
<1>5. ASSUME NEW r \in Request, SaveOk(r) PROVE Registry!Next
  <2> DEFINE q == request[r]
             e == q.event
  <2>1. e \in Event /\ q.pc = "save" /\ q.op \in CatalogOp \cup SubOp
    BY <1>5, <1>0 DEF SaveOk, TypeOK, RequestState
  <2>2. CASE q.op \in {"put", "notify"}
    BY <1>5, <1>1, <2>1, <2>2
    DEF SaveOk, Registry!Next, Registry!Register, Registry!Write
  <2>3. CASE q.op = "remove" /\ e \notin BuiltIn
    <3>1. e \notin promised
      BY <2>1, <2>3 DEF IInv, RequestInv
    <3>2. promised' = promised /\ withdrawn' = withdrawn \cup {e}
      BY <1>5, <2>3 DEF SaveOk
    <3>3. Registry!Unregister(e)
      BY <1>1, <2>3, <3>1, <3>2 DEF Registry!Unregister, Registry!Write
    <3> QED
      BY <2>1, <3>3 DEF Registry!Next
  <2>4. CASE q.op \in SubOp \/ (q.op = "remove" /\ e \in BuiltIn)
    <3>1. promised' = promised /\ withdrawn' \ BuiltIn = withdrawn \ BuiltIn
      BY <1>5, <2>4 DEF SaveOk, SubOp
    <3> QED
      BY <1>1, <3>1 DEF Registry!Next, Registry!Flush, Registry!Write
  <2> QED
    BY <2>1, <2>2, <2>3, <2>4 DEF CatalogOp
<1>6. ASSUME UNCHANGED promised, withdrawn' \ BuiltIn = withdrawn \ BuiltIn
      PROVE  Registry!Next
  BY <1>1, <1>6 DEF Registry!Next, Registry!Flush, Registry!Write
<1>7. ASSUME NEW r \in Request,
             \/ Receive(r) \/ RemoveFromSubscriber(r) \/ ApplySubCmd(r)
             \/ SaveFail(r) \/ Rollback(r)
      PROVE  Registry!Next
  BY <1>6, <1>7
  DEF Receive, RemoveFromSubscriber, ApplySubCmd, SaveFail, Rollback, history
<1>8. ASSUME NEW h \in Handler, HandleChat(h) PROVE Registry!Next
  BY <1>6, <1>8, ChatLeavesCatalog DEF ChatStep
<1>9. CASE OtherSave
  BY <1>6, <1>9 DEF OtherSave, history
<1>10. CASE Restart
  BY <1>6, <1>10 DEF Restart
<1>11. CASE UNCHANGED vars
  BY <1>6, <1>11 DEF vars
<1> QED
  BY <1>2, <1>3, <1>4, <1>5, <1>7, <1>8, <1>9, <1>10, <1>11
  DEF Next, HandleRequest, Registry!Next

(* Seen by the clients of the HTTP API, the handlers with their mutex,      *)
(* rollback, state file and restarts are the registry.                      *)
THEOREM RegistryImplemented == Spec => RegistrySpec
<1>1. Init => Registry!Init
  BY DEF Init, Registry!Init, LoadedCatalog
<1> QED
  BY <1>1, Invariant, RegistryStep, PTL DEF Spec, RegistrySpec, Registry!Spec

-----------------------------------------------------------------------------
(* Menus *)

NoRollback == \A r \in Request : request[r].pc # "rollback"

(* A handler, or a removal, that is about to drop the subscription. *)
HandlerDrops(h, u, e) ==
  handler[h].pc \in {"recheck", "undo"} /\ handler[h].user = u /\ handler[h].event = e
RemovalDrops(r, u, e) ==
  request[r].pc = "sweep" /\ request[r].event = e /\ u \in request[r].todo

Accounted(u, e) ==
  \/ e \in catalog
  \/ \E h \in Handler : HandlerDrops(h, u, e)
  \/ \E r \in Request : RemovalDrops(r, u, e)

LEMMA NoRollbackStep ==
  ASSUME TypeOK, ~SaveMayFail, NoRollback, [Next]_vars
  PROVE  NoRollback'
<1>1. ASSUME NEW r \in Request, Receive(r) \/ HandleRequest(r)
      PROVE  /\ \A o \in Request : o # r => request'[o] = request[o]
             /\ request'[r].pc # "rollback"
  <2> USE DEF Reply, IdleRequest, TypeOK, RequestState
  <2>1. CASE Receive(r) \/ NotifyKnown(r) \/ SaveOk(r)
    BY <2>1 DEF Receive, NotifyKnown, SaveOk
  <2>2. CASE RegisterEvent(r) \/ NotifyNew(r) \/ RemoveEvent(r)
    BY <2>2 DEF RegisterEvent, NotifyNew, RemoveEvent
  <2>3. CASE RemoveFromSubscriber(r)
    BY <2>3 DEF RemoveFromSubscriber
  <2>4. CASE ApplySubCmd(r)
    BY <2>4 DEF ApplySubCmd, ApplySubscribe, ApplyUnsubscribe, ApplyPause, ToSave
  <2>5. CASE SaveFail(r) \/ Rollback(r)
    BY <2>5 DEF SaveFail, Rollback, NoRollback
  <2> QED
    BY <1>1, <2>1, <2>2, <2>3, <2>4, <2>5 DEF HandleRequest
<1>2. ASSUME NEW h \in Handler, HandleChat(h) PROVE request' = request
  BY <1>2, ChatLeavesCatalog DEF ChatStep
<1>3. CASE OtherSave \/ UNCHANGED vars
  BY <1>3 DEF OtherSave, vars, NoRollback
<1>4. CASE Restart
  BY <1>4 DEF Restart, IdleRequest, NoRollback
<1> QED
  BY <1>1, <1>2, <1>3, <1>4 DEF Next, NoRollback

LEMMA MenuStep ==
  ASSUME TypeOK, ~SaveMayFail, NoRollback, NoMenuOrphan, [Next]_vars
  PROVE  NoMenuOrphan'
<1> SUFFICES ASSUME NEW u \in User, NEW e \in Event, <<u, e>> \in fromMenu'
             PROVE  Accounted(u, e)'
  BY DEF NoMenuOrphan, Accounted, HandlerDrops, RemovalDrops
<1>0. <<u, e>> \in fromMenu => Accounted(u, e)
  BY DEF NoMenuOrphan, Accounted, HandlerDrops, RemovalDrops
<1>1. ASSUME NEW r \in Request,
             \/ Receive(r) \/ RegisterEvent(r) \/ NotifyKnown(r) \/ NotifyNew(r)
             \/ ApplySubCmd(r) \/ SaveOk(r)
      PROVE  Accounted(u, e)'
  <2>1. /\ handler' = handler /\ catalog \subseteq catalog' /\ fromMenu' \subseteq fromMenu
        /\ request[r].pc # "sweep"
    BY <1>1 DEF Receive, RegisterEvent, NotifyKnown, NotifyNew, ApplySubCmd,
       ApplySubscribe, ApplyUnsubscribe, ApplyPause, SaveOk, Upsert, history
  <2>2. \A o \in Request : o # r => request'[o] = request[o]
    BY <1>1 DEF Receive, RegisterEvent, NotifyKnown, NotifyNew, ApplySubCmd,
       ApplySubscribe, ApplyUnsubscribe, ApplyPause, ToSave, SaveOk, Reply, TypeOK
  <2> QED
    BY <2>1, <2>2, <1>0 DEF Accounted, HandlerDrops, RemovalDrops
<1>2. ASSUME NEW r \in Request, RemoveEvent(r) PROVE Accounted(u, e)'
  <2>1. /\ handler' = handler /\ catalog' = catalog \ {request[r].event}
        /\ fromMenu' = fromMenu /\ request[r].pc = "run"
    BY <1>2 DEF RemoveEvent
  <2>2. /\ request'[r].pc = "sweep" /\ request'[r].todo = User
        /\ request'[r].event = request[r].event
        /\ \A o \in Request : o # r => request'[o] = request[o]
    BY <1>2 DEF RemoveEvent, TypeOK, RequestState
  <2>3. CASE request[r].event = e
    BY <2>2, <2>3 DEF Accounted, RemovalDrops
  <2>4. CASE request[r].event # e
    BY <2>1, <2>2, <2>4, <1>0 DEF Accounted, HandlerDrops, RemovalDrops
  <2> QED
    BY <2>3, <2>4
<1>3. ASSUME NEW r \in Request, RemoveFromSubscriber(r) PROVE Accounted(u, e)'
  <2>1. PICK w \in request[r].todo :
          /\ fromMenu' = fromMenu \ {<<w, request[r].event>>}
          /\ request' = [request EXCEPT ![r].todo = @ \ {w},
               ![r].pc = IF request[r].todo = {w} THEN "save" ELSE "sweep"]
    BY <1>3 DEF RemoveFromSubscriber
  <2>2. /\ handler' = handler /\ catalog' = catalog /\ request[r].pc = "sweep"
        /\ request'[r].event = request[r].event
        /\ request'[r].todo = request[r].todo \ {w}
        /\ request[r].todo # {w} => request'[r].pc = "sweep"
        /\ \A o \in Request : o # r => request'[o] = request[o]
    BY <1>3, <2>1 DEF RemoveFromSubscriber, TypeOK, RequestState
  <2>3. <<u, e>> \in fromMenu /\ (request[r].event = e => u # w)
    BY <2>1
  <2>4. RemovalDrops(r, u, e) => RemovalDrops(r, u, e)'
    BY <2>2, <2>3 DEF RemovalDrops
  <2>5. \A o \in Request : RemovalDrops(o, u, e) => RemovalDrops(o, u, e)'
    BY <2>2, <2>4 DEF RemovalDrops
  <2> QED
    BY <2>2, <2>3, <2>5, <1>0 DEF Accounted, HandlerDrops
<1>4. ASSUME NEW r \in Request, SaveFail(r) \/ Rollback(r) PROVE FALSE
  BY <1>4 DEF SaveFail, Rollback, NoRollback
<1>5. ASSUME NEW h \in Handler, HandleChat(h) PROVE Accounted(u, e)'
  <2>1. UNCHANGED <<catalog, request>>
    BY <1>5, ChatLeavesCatalog DEF ChatStep
  <2>2. \A o \in Handler : o # h => handler'[o] = handler[o]
    BY <1>5 DEF HandleChat, PressSubscribe, TextSubscribe, Subscribe, Recheck, Undo,
       Unsubscribe, HandlerSaves, Finish, TypeOK
  <2>3. CASE PressSubscribe(h) \/ TextSubscribe(h) \/ Unsubscribe(h) \/ HandlerSaves(h)
    <3>1. handler[h].pc \in {"idle", "save"} /\ fromMenu' \subseteq fromMenu
      BY <2>3 DEF PressSubscribe, TextSubscribe, Unsubscribe, HandlerSaves, history
    <3> QED
      BY <2>1, <2>2, <3>1, <1>0 DEF Accounted, HandlerDrops, RemovalDrops
  <2>4. CASE Subscribe(h)
    <3>1. /\ handler[h].pc = "subscribe"
          /\ handler'[h].user = handler[h].user /\ handler'[h].event = handler[h].event
          /\ handler[h].kind = "menu" => handler'[h].pc = "recheck"
      BY <2>4 DEF Subscribe, AfterSubscribe, TypeOK, HandlerState
    <3>2. \/ fromMenu' = fromMenu
          \/ /\ handler[h].kind = "menu"
             /\ fromMenu' = fromMenu \cup {<<handler[h].user, handler[h].event>>}
      BY <2>4 DEF Subscribe
    <3>3. CASE <<u, e>> \in fromMenu
      BY <2>1, <2>2, <3>1, <3>3, <1>0 DEF Accounted, HandlerDrops, RemovalDrops
    <3>4. CASE <<u, e>> \notin fromMenu
      <4>1. HandlerDrops(h, u, e)'
        BY <3>1, <3>2, <3>4 DEF HandlerDrops
      <4> QED
        BY <4>1 DEF Accounted
    <3> QED
      BY <3>3, <3>4
  <2>5. CASE Recheck(h)
    <3>1. /\ fromMenu' = fromMenu
          /\ handler'[h].user = handler[h].user /\ handler'[h].event = handler[h].event
          /\ handler[h].event \notin catalog => handler'[h].pc = "undo"
      BY <2>5 DEF Recheck, history, TypeOK, HandlerState
    <3>2. e \in catalog \/ \A o \in Handler : HandlerDrops(o, u, e) => HandlerDrops(o, u, e)'
      BY <2>2, <3>1 DEF HandlerDrops
    <3> QED
      BY <2>1, <3>1, <3>2, <1>0 DEF Accounted, RemovalDrops
  <2>6. CASE Undo(h)
    <3>1. fromMenu' = fromMenu \ {<<handler[h].user, handler[h].event>>}
      BY <2>6 DEF Undo
    <3>2. \A o \in Handler : HandlerDrops(o, u, e) => HandlerDrops(o, u, e)'
      BY <2>2, <3>1 DEF HandlerDrops
    <3> QED
      BY <2>1, <3>1, <3>2, <1>0 DEF Accounted, RemovalDrops
  <2> QED
    BY <1>5, <2>3, <2>4, <2>5, <2>6 DEF HandleChat
<1>6. CASE OtherSave \/ UNCHANGED vars
  BY <1>6, <1>0 DEF OtherSave, vars, history, Accounted, HandlerDrops, RemovalDrops
<1>7. CASE Restart
  BY <1>7 DEF Restart
<1> QED
  BY <1>1, <1>2, <1>3, <1>4, <1>5, <1>6, <1>7 DEF Next, HandleRequest

(* If no save fails, a menu never leaves a subscription to an event nobody  *)
(* can see, whatever the HTTP handlers do meanwhile: a rollback is all that *)
(* breaks it.                                                               *)
THEOREM MenusSafe == ~SaveMayFail => (Spec => []NoMenuOrphan)
<1> SUFFICES ASSUME ~SaveMayFail PROVE Spec => []NoMenuOrphan
  OBVIOUS
<1>1. Init => NoRollback /\ NoMenuOrphan
  BY DEF Init, NoRollback, NoMenuOrphan, IdleRequest
<1>2. TypeOK /\ NoRollback /\ NoMenuOrphan /\ [Next]_vars
        => NoRollback' /\ NoMenuOrphan'
  BY MenuStep, NoRollbackStep
<1> QED
  BY <1>1, <1>2, TypeCorrect, PTL DEF Spec

=============================================================================
