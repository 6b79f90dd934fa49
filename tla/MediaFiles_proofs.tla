------------------------- MODULE MediaFiles_proofs ---------------------------
(****************************************************************************)
(* Proofs about MediaFiles for any goroutines, chats and cameras.           *)
(*                                                                          *)
(* A goroutine that is at no request has no file; one at a request has a    *)
(* file from the capture that worked, which is when it means to attach it,  *)
(* to the removal, or the part of one it is about to discard.  What is left *)
(* to serve is empty where a request ends by itself, and at most one chat   *)
(* where its message is edited.  So each step is one of Deliveries, or none.*)
(****************************************************************************)
EXTENDS MediaFiles, TLAPS

FileOf(j, f) ==
  /\ j = Idle => f = "none"
  /\ j # Idle =>
       /\ j.attach => j.pc \in {"edit", "send", "clean"}
       /\ j.attach /\ j.pc \in {"edit", "send"} => f = "whole"
       /\ ~j.attach /\ j.pc # "discard" => f = "none"
       /\ j.pc = "discard" => j.kind = "notify"
       /\ j.pc = "clean" /\ j.kind # "all" => j.todo = {}
       /\ j.pc = "edit" => j.kind = "button" \/ (j.kind = "all" /\ j.todo = {} /\ ~j.attach)
       /\ j.kind = "all" /\ j.pc \in {"send", "clean"} => j.attach
       /\ j.kind = "button" => \E c \in Chat : j.todo \subseteq {c}

Contents == {"none", "partial", "whole"}

IInv ==
  /\ TypeOK
  /\ \A w \in Worker : FileOf(job[w], file[w])
  /\ FilesRemoved

-----------------------------------------------------------------------------
(* Steps of one goroutine *)

LEMMA JobTypes ==
  ASSUME NEW j \in Jobs
  PROVE  /\ j # Idle /\ j.kind \in Kind /\ j.attach \in BOOLEAN
         /\ j.kind = "all" => j.todo \in SUBSET Camera
                              /\ j.pc \in {"next", "capture", "send", "clean", "edit"}
         /\ j.kind # "all" => j.todo \in SUBSET Chat
                              /\ j.pc \in {"capture", "discard", "edit", "send", "clean"}
         /\ j = [pc |-> j.pc, kind |-> j.kind, todo |-> j.todo, attach |-> j.attach]
BY DEF Jobs, Idle, Kind

(* What a step must show of the goroutine that takes it. *)
LEMMA Preserved ==
  ASSUME IInv, NEW w \in Worker, NEW j \in {Idle} \cup Jobs, NEW f \in Contents,
         job' = [job EXCEPT ![w] = j], file' = [file EXCEPT ![w] = f], FileOf(j, f),
         bot' \in BOOLEAN,
         left' \subseteq (OthersThanNotify \X {"failed"}) \cup (Kind \X {"crash"})
  PROVE  IInv'
<1>1. TypeOK'
  BY DEF IInv, TypeOK, Contents, OthersThanNotify, Kind
<1>2. \A v \in Worker : FileOf(job'[v], file'[v])
  <2> TAKE v \in Worker
  <2>1. CASE v = w
    BY <2>1 DEF IInv, TypeOK
  <2>2. CASE v # w
    <3>1. job'[v] = job[v] /\ file'[v] = file[v]
      BY <2>2 DEF IInv, TypeOK
    <3> QED
      BY <3>1 DEF IInv
  <2> QED
    BY <2>1, <2>2
<1> QED
  BY <1>1, <1>2 DEF IInv, FilesRemoved, FileOf

(* The same when the file stays as it is and nothing is lost. *)
LEMMA PreservedFileKept ==
  ASSUME IInv, NEW w \in Worker, NEW j \in {Idle} \cup Jobs,
         job' = [job EXCEPT ![w] = j], FileOf(j, file[w]), UNCHANGED file,
         bot' \in BOOLEAN, NothingLeft
  PROVE  IInv'
<1>1. file' = [file EXCEPT ![w] = file[w]] /\ file[w] \in Contents
  BY DEF IInv, TypeOK, Contents
<1>2. left' = {}
  BY DEF NothingLeft
<1> QED
  BY <1>1, <1>2, Preserved

LEMMA AtJob ==
  ASSUME IInv, NEW w \in Worker, NEW pc, AtStep(w, pc)
  PROVE  /\ job[w] \in Jobs /\ job[w].pc = pc /\ FileOf(job[w], file[w])
         /\ file[w] \in Contents /\ bot \in BOOLEAN
BY DEF IInv, TypeOK, AtStep, Contents

LEMMA BeginPreserves == ASSUME IInv, NEW w \in Worker, Begin(w) PROVE IInv'
<1>1. PICK pc, kind, todo :
        /\ job' = [job EXCEPT ![w] = Job(pc, kind, todo)]
        /\ Job(pc, kind, todo) \in Jobs
        /\ pc \in {"capture", "send", "next"} \/ (pc = "edit" /\ kind = "button")
        /\ kind = "all" => pc = "next"
        /\ kind = "button" => \E c \in Chat : todo = {c}
  BY DEF Begin, Goto, Jobs, Job, Kind, ForMany
<1>2. file[w] = "none" /\ job[w] = Idle
  BY DEF IInv, FileOf, Begin
<1>3. FileOf(Job(pc, kind, todo), "none")
  BY <1>1, JobTypes DEF FileOf, Job
<1>4. bot' \in BOOLEAN /\ UNCHANGED file /\ NothingLeft
  BY DEF Begin, IInv, TypeOK
<1> QED
  BY <1>1, <1>2, <1>3, <1>4, PreservedFileKept

LEMMA NextCameraPreserves == ASSUME IInv, NEW w \in Worker, NextCamera(w) PROVE IInv'
<1>1. /\ job[w] \in Jobs /\ job[w].pc = "next" /\ FileOf(job[w], file[w]) /\ bot \in BOOLEAN
  BY AtJob DEF NextCamera
<1>2. /\ job[w].kind = "all" /\ job[w].attach = FALSE /\ file[w] = "none"
      /\ job[w].todo \in SUBSET Camera
  BY <1>1, JobTypes DEF FileOf
<1>3. PICK pc \in {"edit", "capture", "next"}, todo \in SUBSET Camera :
        /\ job' = [job EXCEPT ![w] = [pc |-> pc, kind |-> "all", todo |-> todo, attach |-> FALSE]]
        /\ pc = "edit" => todo = {}
  <2>1. CASE job[w].todo = {}
    <3>1. job' = [job EXCEPT ![w] = [pc |-> "edit", kind |-> "all", todo |-> {}, attach |-> FALSE]]
      BY <1>1, <1>2, <2>1, JobTypes DEF NextCamera, Step, Become, Goto
    <3> QED
      BY <3>1
  <2>2. CASE job[w].todo # {}
    BY <1>2, <2>2 DEF NextCamera, Become, Goto
  <2> QED
    BY <2>1, <2>2
<1>4. LET j == [pc |-> pc, kind |-> "all", todo |-> todo, attach |-> FALSE]
      IN j \in Jobs /\ FileOf(j, file[w])
  BY <1>2, <1>3 DEF Jobs, FileOf, Idle
<1>5. UNCHANGED <<file, bot>> /\ NothingLeft
  BY DEF NextCamera
<1> QED
  BY <1>1, <1>3, <1>4, <1>5, PreservedFileKept

LEMMA CapturePreserves == ASSUME IInv, NEW w \in Worker, Capture(w) PROVE IInv'
<1>1. /\ job[w] \in Jobs /\ job[w].pc = "capture" /\ FileOf(job[w], file[w])
      /\ bot \in BOOLEAN
  BY AtJob DEF Capture
<1> DEFINE j == [pc |-> IF job[w].kind = "button" THEN "edit" ELSE "send", kind |-> job[w].kind,
                 todo |-> job[w].todo, attach |-> TRUE]
<1>2. job' = [job EXCEPT ![w] = j]
  BY <1>1, JobTypes DEF Capture, Become, Goto
<1>3. j \in Jobs /\ FileOf(j, "whole")
  BY <1>1, JobTypes DEF Jobs, FileOf, Idle
<1>4. file' = [file EXCEPT ![w] = "whole"] /\ "whole" \in Contents
      /\ bot' \in BOOLEAN /\ left' = {}
  BY <1>1 DEF Capture, SetFile, NothingLeft, Contents
<1> HIDE DEF j
<1> QED
  BY <1>2, <1>3, <1>4, Preserved

LEMMA FailPreserves == ASSUME IInv, NEW w \in Worker, Fail(w) PROVE IInv'
<1> DEFINE kind == job[w].kind
           pc == AfterFailure(kind)
           moved == [pc |-> pc, kind |-> kind, todo |-> job[w].todo, attach |-> FALSE]
           j == IF pc = "idle" THEN Idle ELSE moved
<1>1. /\ job[w] \in Jobs /\ job[w].pc = "capture" /\ bot \in BOOLEAN
      /\ job[w].attach = FALSE /\ file[w] = "none" /\ kind \in Kind
      /\ kind = "button" => \E c \in Chat : job[w].todo \subseteq {c}
  BY AtJob, JobTypes DEF Fail, FileOf
<1>2. job' = [job EXCEPT ![w] = j]
  BY <1>1, JobTypes DEF Fail, Step, Become, Goto
<1>3. PICK f \in {"none", "partial"} :
        /\ file' = [file EXCEPT ![w] = IF kind = "notify" THEN f ELSE "none"]
        /\ left' \subseteq (OthersThanNotify \X {"failed"})
  <2>1. PICK f \in {"none", "partial"} :
          IF kind = "notify" THEN SetFile(w, f) /\ left' = {}
          ELSE UNCHANGED file /\ left' = IF f = "partial" THEN {<<kind, "failed">>} ELSE {}
    BY DEF Fail
  <2>2. file = [file EXCEPT ![w] = "none"]
    BY <1>1 DEF IInv, TypeOK
  <2> QED
    BY <1>1, <2>1, <2>2 DEF SetFile, OthersThanNotify
<1>4. j \in {Idle} \cup Jobs
  BY <1>1, JobTypes DEF Jobs, AfterFailure, Kind
<1>5. FileOf(j, IF kind = "notify" THEN f ELSE "none")
  <2>1. pc \in {"idle", "discard", "send", "edit", "next"}
        /\ (pc = "discard" => kind = "notify") /\ (pc = "edit" => kind = "button")
        /\ (kind = "all" => pc = "next") /\ (kind = "notify" => pc = "discard")
    BY <1>1 DEF AfterFailure, Kind
  <2> HIDE DEF pc
  <2> QED
    BY <1>1, <2>1 DEF FileOf, Idle
<1>6. bot' \in BOOLEAN /\ (IF kind = "notify" THEN f ELSE "none") \in Contents
  BY <1>1 DEF Fail, Contents
<1> HIDE DEF j, kind
<1> QED
  BY <1>2, <1>3, <1>4, <1>5, <1>6, Preserved

LEMMA DiscardPreserves == ASSUME IInv, NEW w \in Worker, Discard(w) PROVE IInv'
<1>1. /\ job[w] \in Jobs /\ job[w].kind = "notify" /\ job[w].attach = FALSE /\ bot \in BOOLEAN
  BY AtJob, JobTypes DEF Discard, FileOf
<1> DEFINE j == [pc |-> "send", kind |-> "notify", todo |-> job[w].todo, attach |-> FALSE]
<1>2. job' = [job EXCEPT ![w] = j]
  BY <1>1, JobTypes DEF Discard, Step, Become, Goto
<1>3. j \in Jobs /\ FileOf(j, "none")
  BY <1>1, JobTypes DEF Jobs, FileOf, Idle, Kind
<1>4. file' = [file EXCEPT ![w] = "none"] /\ "none" \in Contents
      /\ bot' \in BOOLEAN /\ left' = {}
  BY <1>1 DEF Discard, SetFile, NothingLeft, Contents
<1> HIDE DEF j
<1> QED
  BY <1>2, <1>3, <1>4, Preserved

AtSend(w) == AtStep(w, "send") /\ job[w].kind # "all"

LEMMA SendOnePreserves == ASSUME IInv, NEW w \in Worker, AtSend(w), SendOne(w) PROVE IInv'
<1>1. /\ job[w] \in Jobs /\ job[w].pc = "send" /\ job[w].kind # "all" /\ bot \in BOOLEAN
      /\ FileOf(job[w], file[w])
  BY AtJob DEF AtSend
<1>2. PICK c \in job[w].todo :
        Become(w, IF job[w].todo = {c} THEN "clean" ELSE "send", job[w].todo \ {c}, job[w].attach)
  BY DEF SendOne
<1> DEFINE pc == IF job[w].todo = {c} THEN "clean" ELSE "send"
           j == [pc |-> pc, kind |-> job[w].kind, todo |-> job[w].todo \ {c},
                 attach |-> job[w].attach]
<1>3. job' = [job EXCEPT ![w] = j]
  BY <1>2 DEF Become, Goto
<1>4. pc \in {"clean", "send"} /\ (pc = "clean" => job[w].todo \ {c} = {})
  OBVIOUS
<1>5. job[w].kind \in Kind \ {"all"} /\ job[w].todo \in SUBSET Chat /\ job[w].attach \in BOOLEAN
  BY <1>1, JobTypes
<1> HIDE DEF pc
<1>6. j \in Jobs
  BY <1>4, <1>5 DEF Jobs
<1>7. FileOf(j, file[w])
  BY <1>1, <1>4, <1>5, JobTypes, <1>6 DEF FileOf
<1>8. UNCHANGED <<file, bot>> /\ NothingLeft
  BY DEF SendOne, KeptBySender
<1> HIDE DEF j
<1> QED
  BY <1>1, <1>3, <1>6, <1>7, <1>8, PreservedFileKept

(* A request that ends. *)
LEMMA EndPreserves ==
  ASSUME IInv, NEW w \in Worker, job' = [job EXCEPT ![w] = Idle],
         file' = [file EXCEPT ![w] = "none"], bot' \in BOOLEAN, left' = {}
  PROVE  IInv'
<1>1. FileOf(Idle, "none") /\ "none" \in Contents
  BY DEF FileOf, Contents
<1> QED
  BY <1>1, Preserved

LEMMA CleanPreserves == ASSUME IInv, NEW w \in Worker, Clean(w) PROVE IInv'
<1>1. job[w] \in Jobs /\ job[w].todo = {} /\ bot \in BOOLEAN
  BY AtJob DEF Clean, FileOf, Jobs, Idle
<1>2. left' = {}
  BY <1>1 DEF Clean, Ended, Removed
<1> QED
  BY <1>1, <1>2, EndPreserves DEF Clean, SetFile, Goto

LEMMA SendAndRemovePreserves == ASSUME IInv, NEW w \in Worker, SendAndRemove(w) PROVE IInv'
<1>1. /\ job[w] \in Jobs /\ job[w].pc = "send" /\ job[w].kind = "all" /\ bot \in BOOLEAN
      /\ FileOf(job[w], file[w])
  BY AtJob DEF SendAndRemove
<1> DEFINE j == [pc |-> "clean", kind |-> "all", todo |-> job[w].todo, attach |-> job[w].attach]
<1>2. job' = [job EXCEPT ![w] = j]
  BY <1>1 DEF SendAndRemove, Step, Become, Goto
<1>3. job[w].todo \in SUBSET Camera /\ job[w].attach \in BOOLEAN
  BY <1>1, JobTypes
<1>4. j \in Jobs
  BY <1>3 DEF Jobs
<1>5. FileOf(j, file[w])
  BY <1>1, <1>3, <1>4, JobTypes DEF FileOf
<1>6. UNCHANGED <<file, bot>> /\ NothingLeft
  BY DEF SendAndRemove
<1> HIDE DEF j
<1> QED
  BY <1>1, <1>2, <1>4, <1>5, <1>6, PreservedFileKept

LEMMA RemoveSentPreserves == ASSUME IInv, NEW w \in Worker, RemoveSent(w) PROVE IInv'
<1>1. job[w] \in Jobs /\ job[w].kind = "all" /\ bot \in BOOLEAN
  BY AtJob DEF RemoveSent
<1> DEFINE j == [pc |-> "next", kind |-> "all", todo |-> job[w].todo, attach |-> FALSE]
<1>2. job' = [job EXCEPT ![w] = j]
  BY <1>1 DEF RemoveSent, Become, Goto
<1>3. job[w].todo \in SUBSET Camera
  BY <1>1, JobTypes
<1>4. j \in Jobs
  BY <1>3 DEF Jobs
<1>5. FileOf(j, "none")
  BY <1>4, JobTypes DEF FileOf
<1>6. /\ file' = [file EXCEPT ![w] = "none"] /\ "none" \in Contents
      /\ bot' \in BOOLEAN /\ left' = {}
  BY <1>1 DEF RemoveSent, SetFile, Ended, Removed, Contents
<1> HIDE DEF j
<1> QED
  BY <1>2, <1>4, <1>5, <1>6, Preserved

LEMMA CrashPreserves == ASSUME IInv, Crash PROVE IInv'
<1>1. left' \subseteq Kind \X {"crash"}
  <2>1. ASSUME NEW w \in Worker, file[w] # "none"
        PROVE  <<job[w].kind, "crash">> \in Kind \X {"crash"}
    <3>1. job[w] \in Jobs
      BY <2>1 DEF IInv, TypeOK, FileOf
    <3> QED
      BY <3>1, JobTypes
  <2> QED
    BY <2>1 DEF Crash
<1>2. TypeOK'
  BY <1>1 DEF Crash, TypeOK
<1>3. \A w \in Worker : FileOf(job'[w], file'[w])
  BY DEF Crash, FileOf
<1> QED
  BY <1>1, <1>2, <1>3 DEF IInv, FilesRemoved, FileOf, Crash

LEMMA SendPreserves == ASSUME IInv, NEW w \in Worker, Send(w) PROVE IInv'
BY CrashPreserves, SendOnePreserves DEF Send, AtSend

LEMMA EditPreserves == ASSUME IInv, NEW w \in Worker, Edit(w) PROVE IInv'
<1>1. CASE ~bot
  BY <1>1, CrashPreserves DEF Edit
<1>2. CASE bot
  <2>1. /\ job[w] \in Jobs /\ job[w].pc = "edit" /\ FileOf(job[w], file[w])
        /\ job[w].attach \in BOOLEAN /\ job[w].kind \in {"button", "all"}
        /\ job[w].kind = "all" => job[w].todo = {} /\ ~job[w].attach
    BY AtJob, JobTypes DEF Edit, FileOf
  <2>2. bot' \in BOOLEAN /\ UNCHANGED file /\ left' = {}
    BY <1>2, <2>1 DEF Edit, NothingLeft
  <2>3. CASE job[w].attach
    <3> DEFINE j == [pc |-> "send", kind |-> "button", todo |-> job[w].todo, attach |-> TRUE]
    <3>1. job' = [job EXCEPT ![w] = j]
      BY <1>2, <2>1, <2>3 DEF Edit, Step, Become, Goto
    <3>2. job[w].todo \in SUBSET Chat
      BY <2>1, <2>3, JobTypes
    <3>3. j \in Jobs
      BY <3>2 DEF Jobs, Kind
    <3>4. FileOf(j, file[w])
      BY <2>1, <2>3, <3>3, JobTypes DEF FileOf
    <3> HIDE DEF j
    <3> QED
      BY <2>2, <3>1, <3>3, <3>4, PreservedFileKept DEF NothingLeft
  <2>4. CASE ~job[w].attach
    <3>1. job' = [job EXCEPT ![w] = Idle]
      BY <1>2, <2>4 DEF Edit, Goto
    <3>2. file[w] = "none" /\ FileOf(Idle, file[w])
      BY <2>1, <2>4, JobTypes DEF FileOf
    <3> QED
      BY <2>2, <3>1, <3>2, PreservedFileKept DEF NothingLeft
  <2> QED
    BY <2>3, <2>4
<1> QED
  BY <1>1, <1>2

LEMMA BotChangesPreserves == ASSUME IInv, BotChanges PROVE IInv'
BY DEF IInv, BotChanges, NothingLeft, TypeOK, FilesRemoved, FileOf

-----------------------------------------------------------------------------
(* The invariant *)

LEMMA InitIInv == Init => IInv
BY DEF Init, IInv, TypeOK, FileOf, FilesRemoved

LEMMA NextIInv == IInv /\ [Next]_vars => IInv'
<1> SUFFICES ASSUME IInv, [Next]_vars PROVE IInv'
  OBVIOUS
<1>1. ASSUME NEW w \in Worker, Serve(w) PROVE IInv'
  BY <1>1, NextCameraPreserves, CapturePreserves, FailPreserves, DiscardPreserves, SendPreserves,
     CleanPreserves, SendAndRemovePreserves, RemoveSentPreserves, EditPreserves DEF Serve
<1>2. CASE UNCHANGED vars
  BY <1>2 DEF vars, IInv, TypeOK, FileOf, FilesRemoved
<1> QED
  BY <1>1, <1>2, BeginPreserves, BotChangesPreserves, CrashPreserves DEF Next

LEMMA IInvHolds == Spec => []IInv
BY InitIInv, NextIInv, PTL DEF Spec

(* The variables keep their types (job, file and bot of MediaFiles).        *)
THEOREM TypeOKHolds == Spec => []TypeOK
<1>1. IInv => TypeOK
  BY DEF IInv
<1> QED
  BY <1>1, IInvHolds, PTL

(* However many goroutines, chats and cameras: whoever is sent a file is    *)
(* sent a whole one, as nobody removes it between two chats (Messenger's    *)
(* SendFileOrMsg, SendTelegramFile).                                        *)
THEOREM FileThereHolds == Spec => []FileThereForAll
<1>1. IInv => FileThereForAll
  BY DEF IInv, FileOf, FileThereForAll, AtStep
<1> QED
  BY <1>1, IInvHolds, PTL

(* Only a crash, or a failed capture for anything but a notify, leaves a    *)
(* file in TempDir (the Removes of webhandler_*.go, messenger.go and        *)
(* telegram.go).                                                            *)
THEOREM FilesRemovedHolds == Spec => []FilesRemoved
<1>1. IInv => FilesRemoved
  BY DEF IInv
<1> QED
  BY <1>1, IInvHolds, PTL

-----------------------------------------------------------------------------
(* MediaFiles implements Deliveries.  A step of one goroutine changes its   *)
(* request, or the file at its path, as one step of Deliveries does.        *)

Deals == [w \in Worker |-> DealOf(job[w])]

LEMMA Mapped ==
  ASSUME IInv, NEW w \in Worker, NEW j, job' = [job EXCEPT ![w] = j]
  PROVE  Deals[w] = DealOf(job[w]) /\ Deals' = [Deals EXCEPT ![w] = DealOf(j)]
BY DEF IInv, TypeOK, Deals

LEMMA DealOfIdle == DealOf(Idle) = Delivery!None
BY DEF DealOf, Delivery!None

LEMMA MappedClose ==
  ASSUME IInv, NEW w \in Worker, job' = [job EXCEPT ![w] = Idle],
         file' = [file EXCEPT ![w] = "none"]
  PROVE  Delivery!Close(w)
<1>1. Deals' = [Deals EXCEPT ![w] = Delivery!None]
  BY Mapped, DealOfIdle
<1> QED
  BY <1>1 DEF Delivery!Close, Delivery!Put, Deals

(* A step that changes no deal is none of Deliveries if it leaves the file. *)
LEMMA MappedSame ==
  ASSUME IInv, NEW w \in Worker, NEW j, job' = [job EXCEPT ![w] = j],
         DealOf(j) = DealOf(job[w])
  PROVE  Deals' = Deals
BY Mapped DEF Deals

LEMMA MappedStutter ==
  ASSUME IInv, NEW w \in Worker, NEW j, job' = [job EXCEPT ![w] = j],
         DealOf(j) = DealOf(job[w]), UNCHANGED file
  PROVE  UNCHANGED Delivery!dealVars
BY MappedSame DEF Delivery!dealVars, Deals

Firm(j) == j.kind \notin {"motion", "relay"}

LEMMA DealOfJob ==
  ASSUME NEW j \in Jobs
  PROVE  /\ DealOf(j) = [what |-> WhatFor(j), owed |-> j.todo, firm |-> Firm(j)]
         /\ DealOf(j) \in Delivery!Requests /\ DealOf(j) # Delivery!None
         /\ WhatFor(j) =
              IF j.kind = "all" THEN IF j.pc = "clean" THEN "handed" ELSE "tour"
              ELSE IF j.pc = "capture" THEN "open"
              ELSE IF j.attach THEN "file" ELSE "text"
<1>1. DealOf(j) = [what |-> WhatFor(j), owed |-> j.todo, firm |-> Firm(j)]
  BY JobTypes DEF DealOf, Firm
<1>2. WhatFor(j) =
        IF j.kind = "all" THEN IF j.pc = "clean" THEN "handed" ELSE "tour"
        ELSE IF j.pc = "capture" THEN "open"
        ELSE IF j.attach THEN "file" ELSE "text"
  BY DEF WhatFor
<1>3. WhatFor(j) \in {"open", "text", "file", "tour", "handed"}
  BY <1>2
<1>4. j.todo \in SUBSET (Chat \cup Camera) /\ Firm(j) \in BOOLEAN
  BY JobTypes DEF Firm
<1>5. DealOf(j) \in Delivery!Requests
  BY <1>1, <1>3, <1>4 DEF Delivery!Requests
<1>6. DealOf(j) # Delivery!None
  BY <1>1 DEF Delivery!None
<1> QED
  BY <1>1, <1>2, <1>5, <1>6

(* What is at hand of the request of a goroutine. *)
LEMMA AtDeal ==
  ASSUME NEW w \in Worker, job[w] \in Jobs
  PROVE  /\ \A what : Delivery!Is(w, what) <=> WhatFor(job[w]) = what
         /\ Deals[w] # Delivery!None
         /\ Deals[w].owed = job[w].todo /\ Deals[w].firm = Firm(job[w])
<1>1. Deals[w] = [what |-> WhatFor(job[w]), owed |-> job[w].todo, firm |-> Firm(job[w])]
  BY DealOfJob DEF Deals
<1> QED
  BY <1>1, DealOfJob DEF Delivery!Is, Deals

LEMMA SetDealField ==
  ASSUME NEW d \in Delivery!Requests, NEW e \in Delivery!Requests, e.firm = d.firm
  PROVE  /\ e.owed = d.owed => [d EXCEPT !.what = e.what] = e
         /\ e.what = d.what => [d EXCEPT !.owed = e.owed] = e
BY DEF Delivery!Requests

LEMMA MappedSettle ==
  ASSUME IInv, NEW w \in Worker, NEW j \in Jobs, job[w] \in Jobs, job' = [job EXCEPT ![w] = j],
         j.todo = job[w].todo, Firm(j) = Firm(job[w])
  PROVE  Delivery!Settle(w, WhatFor(j))
<1>1. /\ DealOf(j).what = WhatFor(j) /\ DealOf(j).owed = Deals[w].owed
      /\ DealOf(j).firm = Deals[w].firm
      /\ DealOf(j) \in Delivery!Requests /\ Deals[w] \in Delivery!Requests
  BY DealOfJob DEF Deals
<1>2. Deals' = [Deals EXCEPT ![w] = DealOf(j)]
  BY Mapped
<1>3. [Deals[w] EXCEPT !.what = WhatFor(j)] = DealOf(j)
  BY <1>1, SetDealField
<1>4. Deals' = [Deals EXCEPT ![w].what = WhatFor(j)]
  BY <1>2, <1>3
<1> QED
  BY <1>4 DEF Delivery!Settle, Deals

LEMMA MappedOwes ==
  ASSUME IInv, NEW w \in Worker, NEW j \in Jobs, job[w] \in Jobs, job' = [job EXCEPT ![w] = j],
         WhatFor(j) = WhatFor(job[w]), Firm(j) = Firm(job[w]), UNCHANGED file
  PROVE  Delivery!Owes(w, j.todo)
<1>1. /\ DealOf(j).owed = j.todo /\ DealOf(j).what = Deals[w].what
      /\ DealOf(j).firm = Deals[w].firm
      /\ DealOf(j) \in Delivery!Requests /\ Deals[w] \in Delivery!Requests
  BY DealOfJob DEF Deals
<1>2. Deals' = [Deals EXCEPT ![w] = DealOf(j)]
  BY Mapped
<1>3. [Deals[w] EXCEPT !.owed = j.todo] = DealOf(j)
  BY <1>1, SetDealField
<1>4. Deals' = [Deals EXCEPT ![w].owed = j.todo]
  BY <1>2, <1>3
<1> QED
  BY <1>4 DEF Delivery!Owes, Deals

LEMMA BeginMaps == ASSUME IInv, NEW w \in Worker, Begin(w) PROVE Delivery!Accept(w)
<1>1. PICK pc, kind, todo :
        /\ job' = [job EXCEPT ![w] = Job(pc, kind, todo)]
        /\ Job(pc, kind, todo) \in Jobs
        /\ pc \in {"capture", "send", "next", "edit"}
  BY DEF Begin, Goto, Jobs, Job, Kind, ForMany
<1>2. DealOf(Job(pc, kind, todo)).what \in {"open", "text", "tour"}
  BY <1>1, DealOfJob DEF Job
<1>3. job[w] = Idle /\ UNCHANGED file
  BY DEF Begin
<1> QED
  BY <1>1, <1>2, <1>3, Mapped, DealOfJob, DealOfIdle DEF Delivery!Accept, Deals

LEMMA CaptureMaps ==
  ASSUME IInv, NEW w \in Worker, Capture(w)
  PROVE  Delivery!SettleFile(w) \/ Delivery!Fetch(w)
<1>1. /\ job[w] \in Jobs /\ job[w].pc = "capture" /\ job[w].attach = FALSE /\ file[w] = "none"
  BY AtJob, JobTypes DEF Capture, FileOf
<1> DEFINE pc == IF job[w].kind = "button" THEN "edit" ELSE "send"
           j == [pc |-> pc, kind |-> job[w].kind, todo |-> job[w].todo, attach |-> TRUE]
<1>2. job' = [job EXCEPT ![w] = j]
  BY <1>1, JobTypes DEF Capture, Become, Goto
<1>3. j \in Jobs
  BY <1>1, JobTypes DEF Jobs
<1>4. file' = [file EXCEPT ![w] = "whole"]
  BY DEF Capture, SetFile
<1>5. CASE job[w].kind = "all"
  <2>1. DealOf(j) = DealOf(job[w]) /\ WhatFor(job[w]) = "tour"
    BY <1>1, <1>3, <1>5, DealOfJob DEF Firm
  <2>2. Deals' = Deals
    BY <1>2, <2>1, Mapped DEF Deals
  <2> QED
    BY <1>1, <1>4, <2>1, <2>2, DealOfJob DEF Delivery!Fetch, Delivery!Is, Delivery!Put, Deals
<1>6. CASE job[w].kind # "all"
  <2>1. /\ WhatFor(job[w]) = "open" /\ WhatFor(j) = "file"
        /\ j.todo = job[w].todo /\ Firm(j) = Firm(job[w])
    BY <1>1, <1>3, <1>6, DealOfJob DEF Firm
  <2> HIDE DEF j
  <2>2. Delivery!Settle(w, "file") /\ Delivery!Is(w, "open")
    BY <1>1, <1>2, <1>3, <2>1, MappedSettle, AtDeal
  <2> QED
    BY <1>4, <2>2 DEF Delivery!SettleFile, Delivery!Put
<1> QED
  BY <1>5, <1>6

LEMMA NextCameraMaps ==
  ASSUME IInv, NEW w \in Worker, NextCamera(w)
  PROVE  Delivery!Visit(w) \/ UNCHANGED Delivery!dealVars
<1>1. /\ job[w] \in Jobs /\ job[w].pc = "next" /\ job[w].kind = "all"
      /\ job[w].attach = FALSE /\ file[w] = "none" /\ job[w].todo \in SUBSET Camera
  BY AtJob, JobTypes DEF NextCamera, FileOf
<1>2. UNCHANGED file
  BY DEF NextCamera
<1>3. CASE job[w].todo = {}
  <2> DEFINE j == [pc |-> "edit", kind |-> "all", todo |-> {}, attach |-> FALSE]
  <2>1. job' = [job EXCEPT ![w] = j]
    BY <1>1, <1>3, JobTypes DEF NextCamera, Step, Become, Goto
  <2>2. j \in Jobs
    BY DEF Jobs
  <2>3. DealOf(j) = DealOf(job[w])
    BY <1>1, <1>3, <2>2, DealOfJob DEF Firm
  <2> HIDE DEF j
  <2> QED
    BY <1>2, <2>1, <2>3, MappedStutter
<1>4. CASE job[w].todo # {}
  <2>1. PICK cam \in job[w].todo, pc \in {"capture", "next"} :
          Become(w, pc, job[w].todo \ {cam}, FALSE)
    BY <1>4 DEF NextCamera
  <2> DEFINE j == [pc |-> pc, kind |-> "all", todo |-> job[w].todo \ {cam}, attach |-> FALSE]
  <2>2. job' = [job EXCEPT ![w] = j]
    BY <1>1, <2>1 DEF Become, Goto
  <2>3. j \in Jobs
    BY <1>1 DEF Jobs
  <2>4. /\ WhatFor(job[w]) = "tour" /\ WhatFor(j) = "tour"
        /\ j.todo = job[w].todo \ {cam} /\ Firm(j) = Firm(job[w])
    BY <1>1, <2>3, DealOfJob DEF Firm
  <2> HIDE DEF j
  <2>5. Delivery!Owes(w, job[w].todo \ {cam})
    BY <1>1, <1>2, <2>2, <2>3, <2>4, MappedOwes
  <2>6. Delivery!Is(w, "tour") /\ Deals[w].owed = job[w].todo
    BY <1>1, <2>4, AtDeal
  <2> QED
    BY <1>1, <2>5, <2>6 DEF Delivery!Visit, Deals
<1> QED
  BY <1>3, <1>4

LEMMA FailMaps ==
  ASSUME IInv, NEW w \in Worker, Fail(w)
  PROVE  Delivery!SettleText(w) \/ Delivery!CallOff(w) \/ UNCHANGED Delivery!dealVars
<1> DEFINE kind == job[w].kind
           pc == AfterFailure(kind)
           j == [pc |-> pc, kind |-> kind, todo |-> job[w].todo, attach |-> FALSE]
<1>1. /\ job[w] \in Jobs /\ job[w].pc = "capture"
      /\ job[w].attach = FALSE /\ file[w] = "none" /\ kind \in Kind
  BY AtJob, JobTypes DEF Fail, FileOf
<1>2. PICK f \in {"none", "partial"} :
        file' = [file EXCEPT ![w] = IF kind = "notify" THEN f ELSE "none"]
  <2>1. file = [file EXCEPT ![w] = "none"]
    BY <1>1 DEF IInv, TypeOK
  <2> QED
    BY <2>1 DEF Fail, SetFile
<1>3. CASE kind \in {"motion", "relay"}
  <2>1. job' = [job EXCEPT ![w] = Idle] /\ file' = [file EXCEPT ![w] = "none"]
    BY <1>2, <1>3 DEF Fail, AfterFailure, Goto
  <2>2. WhatFor(job[w]) = "open" /\ ~Firm(job[w])
    BY <1>1, <1>3, DealOfJob DEF Firm
  <2>3. Delivery!Is(w, "open") /\ ~Deals[w].firm
    BY <1>1, <2>2, AtDeal
  <2> QED
    BY <2>1, <2>3, MappedClose DEF Delivery!CallOff, Deals
<1>4. CASE kind = "all"
  <2>1. job' = [job EXCEPT ![w] = j] /\ UNCHANGED file
    BY <1>1, <1>4, JobTypes DEF Fail, AfterFailure, Step, Become, Goto
  <2>2. j \in Jobs /\ pc = "next"
    BY <1>1, <1>4, JobTypes DEF Jobs, AfterFailure
  <2>3. DealOf(j) = DealOf(job[w])
    BY <1>1, <1>4, <2>2, DealOfJob DEF Firm
  <2> HIDE DEF j
  <2> QED
    BY <2>1, <2>3, MappedStutter
<1>5. CASE kind \in {"notify", "command", "button"}
  <2>1. job' = [job EXCEPT ![w] = j]
    BY <1>1, <1>5, JobTypes DEF Fail, AfterFailure, Step, Become, Goto
  <2>2. j \in Jobs /\ pc \in {"discard", "send", "edit"}
    BY <1>1, <1>5, JobTypes DEF Jobs, AfterFailure
  <2>3. /\ WhatFor(job[w]) = "open" /\ WhatFor(j) = "text"
        /\ j.todo = job[w].todo /\ Firm(j) = Firm(job[w]) /\ Firm(job[w])
    BY <1>1, <1>5, <2>2, DealOfJob DEF Firm
  <2> HIDE DEF j, kind
  <2>4. Delivery!Settle(w, "text")
    BY <1>1, <2>1, <2>2, <2>3, MappedSettle
  <2>5. Delivery!Is(w, "open") /\ Deals[w].firm
    BY <1>1, <2>3, AtDeal
  <2>6. \E c \in {"none", "partial"} : file' = [file EXCEPT ![w] = c]
    BY <1>2
  <2> QED
    BY <2>4, <2>5, <2>6 DEF Delivery!SettleText, Delivery!Put, Deals
<1> QED
  BY <1>1, <1>3, <1>4, <1>5 DEF Kind

LEMMA DiscardMaps == ASSUME IInv, NEW w \in Worker, Discard(w) PROVE Delivery!Discard(w)
<1>1. /\ job[w] \in Jobs /\ job[w].pc = "discard" /\ job[w].kind = "notify"
      /\ job[w].attach = FALSE
  BY AtJob, JobTypes DEF Discard, FileOf
<1> DEFINE j == [pc |-> "send", kind |-> "notify", todo |-> job[w].todo, attach |-> FALSE]
<1>2. job' = [job EXCEPT ![w] = j]
  BY <1>1, JobTypes DEF Discard, Step, Become, Goto
<1>3. j \in Jobs
  BY <1>1, JobTypes DEF Jobs, Kind
<1>4. DealOf(j) = DealOf(job[w]) /\ WhatFor(job[w]) = "text"
  BY <1>1, <1>3, DealOfJob DEF Firm
<1> HIDE DEF j
<1>5. Deals' = Deals
  BY <1>2, <1>4, MappedSame
<1>6. file' = [file EXCEPT ![w] = "none"]
  BY DEF Discard, SetFile
<1> QED
  BY <1>1, <1>4, <1>5, <1>6, AtDeal DEF Delivery!Discard, Delivery!Put, Deals

(* Whoever is at its sends has what it settled on the disk. *)
LEMMA SendsReady ==
  ASSUME IInv, NEW w \in Worker, AtStep(w, "send"), job[w].kind # "all"
  PROVE  Delivery!Ready(w)
<1>1. job[w] \in Jobs /\ job[w].pc = "send" /\ FileOf(job[w], file[w])
  BY AtJob
<1>2. WhatFor(job[w]) = IF job[w].attach THEN "file" ELSE "text"
  BY <1>1, DealOfJob
<1>3. file[w] = IF job[w].attach THEN "whole" ELSE "none"
  BY <1>1, JobTypes DEF FileOf
<1> QED
  BY <1>1, <1>2, <1>3, AtDeal DEF Delivery!Ready

LEMMA SendOneMaps ==
  ASSUME IInv, NEW w \in Worker, AtSend(w), SendOne(w) PROVE Delivery!Serve(w)
<1>1. job[w] \in Jobs /\ job[w].pc = "send" /\ job[w].kind # "all"
  BY AtJob DEF AtSend
<1>2. PICK c \in job[w].todo :
        Become(w, IF job[w].todo = {c} THEN "clean" ELSE "send", job[w].todo \ {c}, job[w].attach)
  BY DEF SendOne
<1> DEFINE pc == IF job[w].todo = {c} THEN "clean" ELSE "send"
           j == [pc |-> pc, kind |-> job[w].kind, todo |-> job[w].todo \ {c},
                 attach |-> job[w].attach]
<1>3. job' = [job EXCEPT ![w] = j]
  BY <1>2 DEF Become, Goto
<1>4. pc \in {"clean", "send"}
  OBVIOUS
<1>5. job[w].kind \in Kind \ {"all"} /\ job[w].todo \in SUBSET Chat /\ job[w].attach \in BOOLEAN
  BY <1>1, JobTypes
<1> HIDE DEF pc
<1>6. j \in Jobs
  BY <1>4, <1>5 DEF Jobs
<1>7. /\ WhatFor(j) = WhatFor(job[w]) /\ Firm(j) = Firm(job[w])
      /\ j.todo = job[w].todo \ {c}
  BY <1>1, <1>4, <1>6, DealOfJob DEF Firm
<1> HIDE DEF j
<1>8. UNCHANGED file
  BY DEF SendOne, KeptBySender
<1>9. Delivery!Owes(w, job[w].todo \ {c}) /\ Deals[w].owed = job[w].todo
  BY <1>1, <1>3, <1>6, <1>7, <1>8, MappedOwes, AtDeal
<1> QED
  BY <1>9, SendsReady DEF Delivery!Serve, AtSend, Deals

LEMMA CleanMaps == ASSUME IInv, NEW w \in Worker, Clean(w) PROVE Delivery!End(w)
<1>1. /\ job[w] \in Jobs /\ job[w].pc = "clean" /\ job[w].todo = {} /\ job[w].kind # "all"
  BY AtJob DEF Clean, FileOf, Jobs, Idle
<1>2. WhatFor(job[w]) \in {"text", "file"}
  BY <1>1, DealOfJob
<1>3. Delivery!Close(w)
  BY MappedClose DEF Clean, SetFile, Goto
<1> QED
  BY <1>1, <1>2, <1>3, AtDeal DEF Delivery!End, Delivery!Is, Deals

LEMMA SendAndRemoveMaps ==
  ASSUME IInv, NEW w \in Worker, SendAndRemove(w)
  PROVE  Delivery!HandOver(w) \/ UNCHANGED Delivery!dealVars
<1>1. /\ job[w] \in Jobs /\ job[w].pc = "send" /\ job[w].kind = "all"
  BY AtJob DEF SendAndRemove
<1> DEFINE j == [pc |-> "clean", kind |-> "all", todo |-> job[w].todo, attach |-> job[w].attach]
<1>2. job' = [job EXCEPT ![w] = j]
  BY <1>1 DEF SendAndRemove, Step, Become, Goto
<1>3. job[w].todo \in SUBSET Camera /\ job[w].attach \in BOOLEAN
  BY <1>1, JobTypes
<1>4. j \in Jobs
  BY <1>3 DEF Jobs
<1>5. /\ WhatFor(job[w]) = "tour" /\ WhatFor(j) = "handed"
      /\ j.todo = job[w].todo /\ Firm(j) = Firm(job[w])
  BY <1>1, <1>4, DealOfJob DEF Firm
<1> HIDE DEF j
<1>6. Delivery!Settle(w, "handed") /\ Delivery!Is(w, "tour")
  BY <1>1, <1>2, <1>4, <1>5, MappedSettle, AtDeal
<1>7. file[w] = "whole" /\ UNCHANGED file
  BY <1>1, AtJob, JobTypes DEF SendAndRemove, FileOf
<1> QED
  BY <1>6, <1>7 DEF Delivery!HandOver

LEMMA RemoveSentMaps == ASSUME IInv, NEW w \in Worker, RemoveSent(w) PROVE Delivery!GoOn(w)
<1>1. job[w] \in Jobs /\ job[w].kind = "all" /\ job[w].pc = "clean"
  BY AtJob DEF RemoveSent
<1> DEFINE j == [pc |-> "next", kind |-> "all", todo |-> job[w].todo, attach |-> FALSE]
<1>2. job' = [job EXCEPT ![w] = j]
  BY <1>1 DEF RemoveSent, Become, Goto
<1>3. job[w].todo \in SUBSET Camera
  BY <1>1, JobTypes
<1>4. j \in Jobs
  BY <1>3 DEF Jobs
<1>5. /\ WhatFor(job[w]) = "handed" /\ WhatFor(j) = "tour"
      /\ j.todo = job[w].todo /\ Firm(j) = Firm(job[w])
  BY <1>1, <1>4, DealOfJob DEF Firm
<1> HIDE DEF j
<1>6. Delivery!Settle(w, "tour") /\ Delivery!Is(w, "handed")
  BY <1>1, <1>2, <1>4, <1>5, MappedSettle, AtDeal
<1>7. file' = [file EXCEPT ![w] = "none"]
  BY DEF RemoveSent, SetFile
<1> QED
  BY <1>6, <1>7 DEF Delivery!GoOn, Delivery!Put

LEMMA CrashMaps == ASSUME IInv, Crash PROVE Delivery!Crash
<1>1. Deals' = [w \in Worker |-> Delivery!None]
  BY DealOfIdle DEF Crash, Deals
<1> QED
  BY <1>1 DEF Crash, Delivery!Crash, Deals

LEMMA SendMaps ==
  ASSUME IInv, NEW w \in Worker, Send(w) PROVE Delivery!Serve(w) \/ Delivery!Crash
BY CrashMaps, SendOneMaps DEF Send, AtSend

(* A text is sent with the message that is edited, so that its chat, the    *)
(* last of a button's request, is served as the request ends.               *)
LEMMA EditMaps ==
  ASSUME IInv, NEW w \in Worker, Edit(w)
  PROVE  \/ Delivery!Crash \/ Delivery!Serve(w) \/ Delivery!End(w)
         \/ UNCHANGED Delivery!dealVars
<1>1. CASE ~bot
  BY <1>1, CrashMaps DEF Edit
<1>2. CASE bot
  <2>1. /\ job[w] \in Jobs /\ job[w].pc = "edit" /\ FileOf(job[w], file[w])
        /\ job[w].attach \in BOOLEAN /\ job[w].kind \in {"button", "all"}
        /\ job[w].kind = "all" => job[w].todo = {} /\ ~job[w].attach
        /\ UNCHANGED file
    BY <1>2, AtJob, JobTypes DEF Edit, FileOf
  <2>2. CASE job[w].attach
    <3> DEFINE j == [pc |-> "send", kind |-> "button", todo |-> job[w].todo, attach |-> TRUE]
    <3>1. job' = [job EXCEPT ![w] = j]
      BY <1>2, <2>1, <2>2 DEF Edit, Step, Become, Goto
    <3>2. j \in Jobs
      BY <2>1, <2>2, JobTypes DEF Jobs, Kind
    <3>3. DealOf(j) = DealOf(job[w])
      BY <2>1, <2>2, <3>2, DealOfJob DEF Firm
    <3> HIDE DEF j
    <3> QED
      BY <2>1, <3>1, <3>3, MappedStutter
  <2>3. CASE ~job[w].attach
    <3>1. job' = [job EXCEPT ![w] = Idle] /\ file[w] = "none"
      BY <1>2, <2>1, <2>3, JobTypes DEF Edit, Goto, FileOf
    <3>2. file' = [file EXCEPT ![w] = "none"]
      BY <2>1, <3>1 DEF IInv, TypeOK
    <3>3. Delivery!Close(w)
      BY <3>1, <3>2, MappedClose
    <3>4. CASE job[w].todo = {}
      <4>1. WhatFor(job[w]) \in {"text", "tour"}
        BY <2>1, <2>3, <3>4, DealOfJob
      <4> QED
        BY <2>1, <3>1, <3>3, <3>4, <4>1, AtDeal DEF Delivery!End, Delivery!Is, Deals
    <3>5. CASE job[w].todo # {}
      <4>1. PICK c : job[w].todo = {c}
        BY <2>1, <3>5, JobTypes DEF FileOf
      <4>2. WhatFor(job[w]) = "text"
        BY <2>1, <2>3, <3>5, DealOfJob
      <4>3. Delivery!Ready(w) /\ Deals[w].owed = {c}
        BY <2>1, <3>1, <4>1, <4>2, AtDeal DEF Delivery!Ready
      <4> QED
        BY <3>3, <4>3 DEF Delivery!Serve, Deals
    <3> QED
      BY <3>4, <3>5
  <2> QED
    BY <2>2, <2>3
<1> QED
  BY <1>1, <1>2

LEMMA DeliveryStep == IInv /\ [Next]_vars => [Delivery!Next]_(Delivery!dealVars)
<1> SUFFICES ASSUME IInv, [Next]_vars PROVE [Delivery!Next]_(Delivery!dealVars)
  OBVIOUS
<1>1. ASSUME NEW w \in Worker, Begin(w) PROVE Delivery!Next
  BY <1>1, BeginMaps DEF Delivery!Next
<1>2. ASSUME NEW w \in Worker, Serve(w) PROVE Delivery!Next \/ UNCHANGED Delivery!dealVars
  BY <1>2, NextCameraMaps, CaptureMaps, FailMaps, DiscardMaps, SendMaps, CleanMaps,
     SendAndRemoveMaps, RemoveSentMaps, EditMaps DEF Serve, Delivery!Next
<1>3. CASE Crash
  BY <1>3, CrashMaps DEF Delivery!Next
<1>4. CASE BotChanges \/ UNCHANGED vars
  BY <1>4 DEF BotChanges, vars, Delivery!dealVars
<1> QED
  BY <1>1, <1>2, <1>3, <1>4 DEF Next

(* Whoever asks for pictures, clips or texts can rely on Deliveries,        *)
(* however many goroutines serve requests, and whatever captures fail:      *)
(* SendFileOrMsg, captureNotifyMedia, snapOne, snapAll and the rest         *)
(* implement it.                                                            *)
THEOREM DeliveriesImplemented == Spec => DeliverySpec
<1>1. Init => Delivery!Init
  BY DealOfIdle DEF Init, Delivery!Init
<1> QED
  BY <1>1, IInvHolds, DeliveryStep, PTL DEF Spec, DeliverySpec, Delivery!Spec

=============================================================================
