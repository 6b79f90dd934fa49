------------------------- MODULE RenamePrompt_proofs -------------------------
(****************************************************************************)
(* Proofs about RenamePrompt for any chats, admins, names and goroutines.   *)
(*                                                                          *)
(* A name an admin was told has been saved: the record and the state file   *)
(* have it, and only another rename overwrites a Contact that is not blank. *)
(* As long as an admin's handlers do not overlap, his one handler knows     *)
(* where it is between the prompt in his record and what he was asked.      *)
(****************************************************************************)
EXTENDS RenamePrompt, TLAPS

LEMMA Distinct == Blank \notin Given /\ Poller \notin Press /\ Nobody \notin User
BY PromptAssumption

-----------------------------------------------------------------------------
(* Types *)

LEMMA PressTypes ==
  ASSUME NEW q \in Pressing
  PROVE  /\ q # Idle /\ q.by \in Manager /\ q.do \in Tapped /\ q.user \in User
         /\ q.todo \subseteq User /\ q.asks \in Somebody
         /\ q.pc \in {"tapped", "show", "save", "edit", "fill"}
         /\ q.pc = "fill" => q.whose \in User /\ q.name \in Name
BY DEF Pressing, Idle

LEMMA ReadTypes ==
  ASSUME NEW q \in Reading
  PROVE  /\ q # Idle /\ q.by \in Manager /\ q.do \in Typed /\ q.user \in User /\ q.name \in Given
         /\ q.pc \in {"text", "clear", "cancel", "rename", "command", "answer"}
BY DEF Reading, Idle

ProcOK ==
  /\ proc \in [Process -> {Idle} \cup Pressing \cup Reading]
  /\ proc[Poller] \in {Idle} \cup Reading
  /\ \A p \in Press : proc[p] \in {Idle} \cup Pressing

LEMMA PressGoes ==
  ASSUME TypeOK, NEW p \in Press, NEW q \in {Idle} \cup Pressing, Goto(p, q)
  PROVE  ProcOK'
BY Distinct DEF TypeOK, Goto, ProcOK, Process

LEMMA PollerGoes ==
  ASSUME TypeOK, NEW q \in {Idle} \cup Reading, Goto(Poller, q)
  PROVE  ProcOK'
BY Distinct DEF TypeOK, Goto, ProcOK, Process

LEMMA PressOnTypes ==
  ASSUME TypeOK, NEW p \in Press, proc[p] # Idle, NEW pc \in {"tapped", "show", "save", "edit"},
         NEW todo \in SUBSET User, NEW asks \in Somebody, PressOn(p, pc, todo, asks)
  PROVE  ProcOK'
<1> DEFINE q == [pc |-> pc, by |-> proc[p].by, do |-> proc[p].do, user |-> proc[p].user,
                 todo |-> todo, asks |-> asks]
<1>1. proc[p] \in Pressing
  BY DEF TypeOK
<1>2. q \in Pressing
  BY <1>1, PressTypes DEF Pressing
<1>3. Goto(p, q)
  BY DEF PressOn
<1> HIDE DEF q
<1> QED
  BY <1>2, <1>3, PressGoes

LEMMA ReadOnTypes ==
  ASSUME TypeOK, proc[Poller] # Idle, NEW pc \in {"clear", "cancel", "rename", "command", "answer"},
         NEW user \in User, ReadOn(pc, user)
  PROVE  ProcOK'
<1> DEFINE q == [pc |-> pc, by |-> proc[Poller].by, do |-> proc[Poller].do, user |-> user,
                 name |-> proc[Poller].name]
<1>1. proc[Poller] \in Reading
  BY DEF TypeOK
<1>2. q \in Reading
  BY <1>1, ReadTypes DEF Reading
<1>3. Goto(Poller, q)
  BY DEF ReadOn
<1> HIDE DEF q
<1> QED
  BY <1>2, <1>3, PollerGoes

(* What the rest of TypeOK says *)
NamesOK ==
  /\ known \subseteq User /\ Manager \subseteq known
  /\ contact \in [User -> AnyName] /\ meta \in [User -> AnyName] /\ promised \in [User -> AnyName]
PromptsOK ==
  /\ admins \subseteq Manager
  /\ pending \in [Manager -> Somebody]
  /\ asked \in [Manager -> Somebody] /\ muddled \subseteq Manager
DiskOK ==
  /\ disk \in [known: SUBSET User, contact: [User -> AnyName], meta: [User -> AnyName],
               pending: [Manager -> Somebody]]
  /\ Manager \subseteq disk.known

LEMMA TypeOKParts == TypeOK <=> NamesOK /\ PromptsOK /\ DiskOK /\ ProcOK
BY DEF TypeOK, NamesOK, PromptsOK, DiskOK, ProcOK

LEMMA PartsTypeOK == NamesOK' /\ PromptsOK' /\ DiskOK' /\ ProcOK' => TypeOK'
BY DEF TypeOK, NamesOK, PromptsOK, DiskOK, ProcOK

LEMMA ImageTypes == ASSUME NamesOK, PromptsOK, disk' = Image PROVE DiskOK'
BY DEF NamesOK, PromptsOK, DiskOK, Image

LEMMA ReportTypes ==
  ASSUME NamesOK, NEW u \in known, NEW n \in Reported[u], Report(u, n), UNCHANGED <<known, promised>>
  PROVE  NamesOK'
BY PromptAssumption DEF NamesOK, Report, Ensured, IfEmpty, AnyName

LEMMA AnotherTypes == ASSUME muddled \subseteq Manager, NEW a \in Manager, Another(a)
                      PROVE  muddled' \subseteq Manager
BY DEF Another

(* A press at a step is a press. *)
LEMMA AtPress ==
  ASSUME TypeOK, NEW p \in Press, proc[p].pc # "idle"
  PROVE  proc[p] # Idle /\ proc[p] \in Pressing
BY DEF TypeOK, Idle

LEMMA AtMessage ==
  ASSUME TypeOK, proc[Poller].pc # "idle"
  PROVE  proc[Poller] # Idle /\ proc[Poller] \in Reading
BY DEF TypeOK, Idle

LEMMA SettledTypes ==
  ASSUME muddled \subseteq Manager, NEW p \in Press, Settled(p) PROVE muddled' \subseteq Manager
BY DEF Settled

LEMMA TypeOKPress ==
  ASSUME TypeOK, NEW p \in Press, ServePress(p) PROVE TypeOK'
<1> USE TypeOKParts, PartsTypeOK
<1>1. CASE Ask(p)
  <2>1. proc[p] # Idle /\ proc[p].user \in User /\ proc[p].by \in Manager
    BY <1>1, AtPress, PressTypes DEF Ask
  <2>2. ProcOK'
    BY <1>1, <2>1, PressOnTypes DEF Ask, Somebody
  <2>3. PromptsOK'
    BY <1>1, <2>1, SettledTypes, PromptAssumption DEF Ask, PromptsOK, Somebody
  <2>4. NamesOK' /\ DiskOK'
    BY <1>1 DEF Ask, UNCHANGEDNames, NamesOK, DiskOK
  <2> QED
    BY <2>2, <2>3, <2>4
<1>2. CASE RefuseToAsk(p)
  <2>1. proc[p] # Idle /\ proc[p].by \in Manager
    BY <1>2, AtPress, PressTypes DEF RefuseToAsk
  <2>2. ProcOK'
    BY <1>2, <2>1, PressOnTypes DEF RefuseToAsk, PromptsOK
  <2>3. PromptsOK' /\ NamesOK' /\ DiskOK'
    BY <1>2 DEF RefuseToAsk, UNCHANGEDNames, PromptsOK, NamesOK, DiskOK
  <2> QED
    BY <2>2, <2>3
<1>3. CASE Clear(p)
  <2>1. proc[p] # Idle /\ proc[p].user \in User /\ proc[p].by \in Manager
    BY <1>3, AtPress, PressTypes DEF Clear, Clearing
  <2>2. PICK todo \in SUBSET User : PressOn(p, "show", todo, Nobody)
    BY <1>3 DEF Clear, NamesOK
  <2>3. ProcOK'
    BY <2>1, <2>2, PressOnTypes DEF Somebody
  <2>4. PromptsOK'
    BY <1>3, <2>1, SettledTypes DEF Clear, PromptsOK, Somebody
  <2>5. NamesOK' /\ DiskOK'
    BY <1>3 DEF Clear, UNCHANGEDNames, NamesOK, DiskOK
  <2> QED
    BY <2>3, <2>4, <2>5
<1>4. CASE ReadName(p)
  <2>1. proc[p] \in Pressing
    BY <1>4, AtPress DEF ReadName
  <2>2. PICK u \in proc[p].todo :
          /\ Nameless(u)
          /\ Goto(p, [pc |-> "fill", by |-> proc[p].by, do |-> proc[p].do, user |-> proc[p].user,
                      asks |-> proc[p].asks, todo |-> proc[p].todo \ {u}, whose |-> u,
                      name |-> meta[u]])
    BY <1>4 DEF ReadName
  <2>3. u \in User /\ meta[u] \in Name
    BY <2>1, <2>2, PressTypes DEF Nameless, NamesOK, AnyName
  <2> DEFINE q == [pc |-> "fill", by |-> proc[p].by, do |-> proc[p].do, user |-> proc[p].user,
                   asks |-> proc[p].asks, todo |-> proc[p].todo \ {u}, whose |-> u,
                   name |-> meta[u]]
  <2>4. q \in Pressing
    BY <2>1, <2>3, PressTypes DEF Pressing
  <2>5. Goto(p, q)
    BY <2>2
  <2> HIDE DEF q
  <2>6. ProcOK'
    BY <2>4, <2>5, PressGoes
  <2>7. NamesOK' /\ PromptsOK' /\ DiskOK'
    BY <1>4 DEF ReadName, UNCHANGEDNames, NamesOK, PromptsOK, DiskOK
  <2> QED
    BY <2>6, <2>7
<1>5. CASE FillName(p)
  <2>1. proc[p] # Idle /\ proc[p] \in Pressing /\ proc[p].whose \in User /\ proc[p].name \in Name
    BY <1>5, AtPress, PressTypes DEF FillName
  <2>2. ProcOK'
    BY <1>5, <2>1, PressTypes, PressOnTypes DEF FillName
  <2>3. NamesOK'
    BY <1>5, <2>1 DEF FillName, NamesOK, Filled, IfEmpty, AnyName
  <2>4. PromptsOK' /\ DiskOK'
    BY <1>5 DEF FillName, PromptsOK, DiskOK
  <2> QED
    BY <2>2, <2>3, <2>4
<1>6. CASE Shown(p)
  <2>1. proc[p] # Idle /\ proc[p] \in Pressing
    BY <1>6, AtPress DEF Shown
  <2>2. ProcOK'
    BY <1>6, <2>1, PressTypes, PressOnTypes DEF Shown
  <2>3. NamesOK' /\ PromptsOK' /\ DiskOK'
    BY <1>6 DEF Shown, UNCHANGEDNames, NamesOK, PromptsOK, DiskOK
  <2> QED
    BY <2>2, <2>3
<1>7. CASE SavePress(p)
  <2>1. proc[p] # Idle /\ proc[p] \in Pressing
    BY <1>7, AtPress DEF SavePress
  <2>2. ProcOK'
    BY <1>7, <2>1, PressTypes, PressOnTypes DEF SavePress
  <2>3. NamesOK' /\ PromptsOK'
    BY <1>7 DEF SavePress, UNCHANGEDNames, NamesOK, PromptsOK
  <2>4. DiskOK'
    BY <1>7, ImageTypes DEF SavePress
  <2> QED
    BY <2>2, <2>3, <2>4
<1>8. CASE Edit(p)
  <2>1. proc[p] \in Pressing
    BY <1>8, AtPress DEF Edit
  <2>2. ProcOK'
    BY <1>8, PressGoes DEF Edit
  <2>3. PromptsOK'
    BY <1>8, <2>1, PressTypes DEF Edit, PromptsOK
  <2>4. NamesOK' /\ DiskOK'
    BY <1>8 DEF Edit, UNCHANGEDNames, NamesOK, DiskOK
  <2> QED
    BY <2>2, <2>3, <2>4
<1> QED
  BY <1>1, <1>2, <1>3, <1>4, <1>5, <1>6, <1>7, <1>8 DEF ServePress

LEMMA GiveTypes ==
  ASSUME NamesOK, NEW u \in User, NEW n \in Given, Give(u, n), UNCHANGED known PROVE NamesOK'
BY PromptAssumption DEF NamesOK, Give, Overwrite, AnyName

LEMMA TypeOKMessage == ASSUME TypeOK, ServeMessage PROVE TypeOK'
<1> USE TypeOKParts, PartsTypeOK
<1> USE DEF UNCHANGEDButPoller, Message
<1>1. proc[Poller].pc # "idle" => proc[Poller] # Idle /\ proc[Poller].user \in User
                                  /\ proc[Poller].by \in Manager /\ proc[Poller].name \in Given
  BY AtMessage, ReadTypes
<1>2. CASE ReadPrompt
  <2>1. HasPrompt(proc[Poller].by) => pending[proc[Poller].by] \in User
    BY <1>1, <1>2, PromptAssumption DEF ReadPrompt, HasPrompt, PromptsOK, Somebody
  <2>2. ProcOK'
    BY <1>1, <1>2, <2>1, ReadOnTypes DEF ReadPrompt
  <2> QED
    BY <1>2, <2>2 DEF ReadPrompt, UNCHANGEDNames, NamesOK, PromptsOK, DiskOK
<1>3. CASE ClearPrompt
  <2>1. ProcOK'
    BY <1>1, <1>3, ReadOnTypes DEF ClearPrompt
  <2>2. PromptsOK'
    BY <1>3 DEF ClearPrompt, Consumed, PromptsOK, Somebody
  <2> QED
    BY <1>3, <2>1, <2>2 DEF ClearPrompt, UNCHANGEDNames, NamesOK, DiskOK
<1>4. CASE SaveCancel
  <2>1. ProcOK'
    BY <1>1, <1>4, ReadOnTypes DEF SaveCancel
  <2>2. PromptsOK' /\ DiskOK'
    BY <1>4, ImageTypes DEF SaveCancel, PromptsOK, Somebody
  <2> QED
    BY <1>4, <2>1, <2>2 DEF SaveCancel, UNCHANGEDNames, NamesOK
<1>5. CASE Rename
  <2>1. ProcOK'
    BY <1>1, <1>5, ReadOnTypes DEF Rename
  <2>2. NamesOK'
    BY <1>1, <1>5, GiveTypes DEF Rename
  <2> QED
    BY <1>5, <2>1, <2>2 DEF Rename, PromptsOK, DiskOK
<1>6. CASE Command
  <2>1. ProcOK'
    BY <1>1, <1>6, ReadOnTypes, PollerGoes DEF Command
  <2>2. NamesOK'
    <3>1. CASE Give(proc[Poller].user, proc[Poller].name)
      BY <1>1, <1>6, <3>1, GiveTypes DEF Command
    <3>2. CASE UNCHANGEDNames
      BY <1>6, <3>2 DEF Command, UNCHANGEDNames, NamesOK
    <3> QED
      BY <1>6, <3>1, <3>2 DEF Command
  <2>3. PromptsOK'
    BY <1>6 DEF Command, PromptsOK
  <2>4. DiskOK'
    <3>1. CASE UNCHANGED disk
      BY <3>1 DEF DiskOK
    <3> QED
      BY <1>6, <3>1, ImageTypes DEF Command
  <2> QED
    BY <2>1, <2>2, <2>3, <2>4
<1>7. CASE Answer
  <2>1. ProcOK'
    BY <1>7, PollerGoes DEF Answer
  <2>2. NamesOK'
    BY <1>1, <1>7, PromptAssumption DEF Answer, NamesOK, AnyName
  <2>3. PromptsOK' /\ DiskOK'
    BY <1>7, ImageTypes DEF Answer, PromptsOK, Somebody
  <2> QED
    BY <2>1, <2>2, <2>3
<1> QED
  BY <1>2, <1>3, <1>4, <1>5, <1>6, <1>7 DEF ServeMessage

LEMMA TypeOKWrite == ASSUME TypeOK, NEW u \in User \ Manager, Write(u) PROVE TypeOK'
<1> USE TypeOKParts, PartsTypeOK
<1>1. PICK n \in Reported[u] : FirstContact(u, n) \/ (u \in known /\ Report(u, n) /\ UNCHANGED known)
  BY DEF Write
<1>2. n \in AnyName /\ UNCHANGED promised
  BY PromptAssumption DEF AnyName, Write, UNCHANGEDHistory
<1>3. NamesOK'
  <2>1. CASE FirstContact(u, n)
    BY <1>2, <2>1 DEF FirstContact, NamesOK
  <2>2. CASE u \in known /\ Report(u, n) /\ UNCHANGED known
    BY <1>2, <2>2, ReportTypes
  <2> QED
    BY <1>1, <2>1, <2>2
<1> QED
  BY <1>3 DEF Write, UNCHANGEDHistory, PromptsOK, DiskOK, ProcOK

LEMMA TypeOKStart ==
  ASSUME TypeOK, NEW a \in Manager, WriteAsAdmin(a) \/ \E p \in Press : Tap(p, a)
  PROVE  TypeOK'
<1> USE TypeOKParts, PartsTypeOK
<1>1. NamesOK'
  <2>1. PICK n \in Reported[a] : Report(a, n)
    BY DEF WriteAsAdmin, Tap
  <2>2. a \in known /\ UNCHANGED <<known, promised>>
    BY DEF NamesOK, WriteAsAdmin, Tap
  <2> QED
    BY <2>1, <2>2, ReportTypes
<1>2. PromptsOK' /\ DiskOK'
  BY AnotherTypes DEF WriteAsAdmin, Tap, PromptsOK, DiskOK
<1>3. CASE WriteAsAdmin(a)
  <2>1. PICK q \in Reading : Goto(Poller, q)
    BY <1>3 DEF WriteAsAdmin, Reading
  <2> QED
    BY <1>1, <1>2, <2>1, PollerGoes
<1>4. ASSUME NEW p \in Press, Tap(p, a) PROVE TypeOK'
  <2>1. PICK q \in Pressing : Goto(p, q)
    BY <1>4 DEF Tap, Pressing, Somebody
  <2> QED
    BY <1>1, <1>2, <2>1, PressGoes
<1> QED
  BY <1>3, <1>4

LEMMA TypeOKOthers ==
  ASSUME TypeOK,
         (\E a \in Manager : Role(a)) \/ (\E u \in User \ Manager : Delete(u)) \/ OtherSave \/ Restart
  PROVE  TypeOK'
<1> USE TypeOKParts, PartsTypeOK
<1>1. ASSUME NEW a \in Manager, Role(a) PROVE TypeOK'
  BY <1>1 DEF Role, UNCHANGEDNames, NamesOK, PromptsOK, DiskOK, ProcOK
<1>2. ASSUME NEW u \in User \ Manager, Delete(u) PROVE TypeOK'
  BY <1>2 DEF Delete, Forget, AnyName, NamesOK, PromptsOK, DiskOK, ProcOK
<1>3. CASE OtherSave
  BY <1>3, ImageTypes DEF OtherSave, UNCHANGEDNames, NamesOK, PromptsOK, ProcOK
<1>4. CASE Restart
  <2>1. NamesOK' /\ DiskOK'
    BY <1>4 DEF Restart, NamesOK, DiskOK, AnyName
  <2>2. ProcOK'
    BY <1>4 DEF Restart, ProcOK, Process
  <2>3. PromptsOK'
    BY <1>4 DEF Restart, PromptsOK, DiskOK, BroughtBack
  <2> QED
    BY <2>1, <2>2, <2>3
<1> QED
  BY <1>1, <1>2, <1>3, <1>4

LEMMA TypeOKNext == TypeOK /\ [Next]_vars => TypeOK'
<1> SUFFICES ASSUME TypeOK, [Next]_vars PROVE TypeOK'
  OBVIOUS
<1>1. CASE UNCHANGED vars
  BY <1>1 DEF vars, TypeOK
<1> QED
  BY <1>1, TypeOKWrite, TypeOKStart, TypeOKOthers, TypeOKPress, TypeOKMessage DEF Next

LEMMA TypeOKInit == Init => TypeOK
BY PromptAssumption DEF Init, TypeOK, Image, AnyName, Somebody, Process

(* The records, the state file and the goroutines keep their types.         *)
THEOREM TypeOKHolds == Spec => []TypeOK
BY TypeOKInit, TypeOKNext, PTL DEF Spec

-----------------------------------------------------------------------------
(* Names.  A name that was told is in the record and in the state file; the *)
(* one being told is in the record.                                         *)

InPlace(u) ==
  promised[u] # Blank =>
    /\ u \in known /\ contact[u] = promised[u]
    /\ u \in disk.known /\ disk.contact[u] = promised[u]
Telling ==
  proc[Poller].pc = "answer" /\ proc[Poller].user \in known =>
    contact[proc[Poller].user] = proc[Poller].name
Names == TypeOK /\ Telling /\ \A u \in User : InPlace(u)

(* Steps that give and promise no name: what was promised and is being told *)
(* stays as it is, on disk at least as new as in memory.                    *)
LEMMA NamesStay ==
  ASSUME Names, TypeOK',
         \A u \in User : contact[u] # Blank => contact'[u] = contact[u],
         known' = known, promised' = promised,
         disk' = disk \/ disk' = Image,
         proc'[Poller] = proc[Poller] \/ proc'[Poller].pc # "answer"
  PROVE  Names'
<1>1. ASSUME NEW u \in User PROVE InPlace(u)'
  <2>1. SUFFICES ASSUME promised[u] # Blank PROVE InPlace(u)'
    BY DEF InPlace
  <2>2. u \in known /\ contact[u] # Blank /\ contact'[u] = promised[u] /\ contact[u] = promised[u]
    BY <2>1 DEF Names, InPlace
  <2>3. disk' = Image => disk'.known = known /\ disk'.contact = contact
    BY DEF Image
  <2> QED
    BY <2>1, <2>2, <2>3 DEF Names, InPlace
<1>2. Telling'
  <2>1. SUFFICES ASSUME proc[Poller].pc = "answer", proc'[Poller] = proc[Poller],
                        proc[Poller].user \in known
                 PROVE  contact'[proc[Poller].user] = proc[Poller].name
    BY DEF Telling
  <2>2. proc[Poller].user \in User /\ proc[Poller].name \in Given
    BY <2>1, AtMessage, ReadTypes DEF Names
  <2> QED
    BY <2>1, <2>2, Distinct DEF Names, Telling
<1> QED
  BY <1>1, <1>2 DEF Names

LEMMA PressKeepsPoller ==
  ASSUME TypeOK, NEW p \in Press, NEW q, Goto(p, q) PROVE proc'[Poller] = proc[Poller]
BY Distinct DEF Goto, TypeOK, Process

LEMMA PollerAt ==
  ASSUME TypeOK, NEW q, Goto(Poller, q) PROVE proc'[Poller] = q
BY DEF Goto, TypeOK, Process

LEMMA FillsBlanks ==
  ASSUME TypeOK, NEW v \in User, NEW n, contact' = IfEmpty(v, n)
  PROVE  \A u \in User : contact[u] # Blank => contact'[u] = contact[u]
BY DEF TypeOK, IfEmpty

LEMMA NamesPress == ASSUME Names, NEW p \in Press, ServePress(p) PROVE Names'
<1>1. TypeOK /\ TypeOK'
  BY TypeOKPress DEF Names
<1>2. proc'[Poller] = proc[Poller]
  BY <1>1, PressKeepsPoller
     DEF ServePress, Ask, RefuseToAsk, Clear, ReadName, FillName, Shown, SavePress, Edit, PressOn
<1>3. \A u \in User : contact[u] # Blank => contact'[u] = contact[u]
  <2>1. CASE FillName(p)
    <3>1. proc[p].whose \in User
      BY <1>1, <2>1, AtPress, PressTypes DEF FillName
    <3> QED
      BY <1>1, <2>1, <3>1, FillsBlanks DEF FillName, Filled
  <2>2. CASE ~FillName(p)
    BY <2>2 DEF ServePress, UNCHANGEDNames, Ask, RefuseToAsk, Clear, ReadName, Shown, SavePress, Edit
  <2> QED
    BY <2>1, <2>2
<1>4. known' = known /\ promised' = promised /\ (disk' = disk \/ disk' = Image)
  BY DEF ServePress, UNCHANGEDNames, Ask, RefuseToAsk, Clear, ReadName, FillName, Shown, SavePress, Edit
<1> QED
  BY <1>1, <1>2, <1>3, <1>4, NamesStay

(* A name is given: nothing is promised of its bearer until he is told. *)
LEMMA NamesGive ==
  ASSUME Names, TypeOK', NEW u \in User, NEW n \in Given, Give(u, n),
         known' = known, disk' = disk, proc'[Poller].user = u, proc'[Poller].name = n
  PROVE  Names'
<1>1. ASSUME NEW v \in User PROVE InPlace(v)'
  <2>1. CASE v = u
    BY <2>1 DEF Give, InPlace, Names, TypeOK
  <2>2. CASE v # u
    BY <2>2 DEF Give, Overwrite, InPlace, Names, TypeOK
  <2> QED
    BY <2>1, <2>2
<1>2. Telling'
  BY DEF Telling, Give, Overwrite, Names, TypeOK
<1> QED
  BY <1>1, <1>2 DEF Names

LEMMA NamesMessage == ASSUME Names, ServeMessage PROVE Names'
<1>1. TypeOK /\ TypeOK'
  BY TypeOKMessage DEF Names
<1> USE DEF UNCHANGEDButPoller, Message
<1>2. CASE ReadPrompt \/ ClearPrompt \/ SaveCancel
  <2>1. proc'[Poller].pc # "answer"
    BY <1>1, <1>2, PollerAt DEF ReadPrompt, ClearPrompt, SaveCancel, ReadOn
  <2>2. contact' = contact /\ known' = known /\ promised' = promised /\ (disk' = disk \/ disk' = Image)
    BY <1>2 DEF ReadPrompt, ClearPrompt, SaveCancel, UNCHANGEDNames
  <2> QED
    BY <1>1, <2>1, <2>2, NamesStay
<1>3. CASE Rename
  <2>1. proc[Poller].user \in User /\ proc[Poller].name \in Given
    BY <1>1, <1>3, AtMessage, ReadTypes DEF Rename
  <2>2. proc'[Poller].user = proc[Poller].user /\ proc'[Poller].name = proc[Poller].name
    BY <1>1, <1>3, PollerAt DEF Rename, ReadOn
  <2> QED
    BY <1>1, <1>3, <2>1, <2>2, NamesGive DEF Rename
<1>4. CASE Command
  <2>1. proc[Poller].user \in User /\ proc[Poller].name \in Given
    BY <1>1, <1>4, AtMessage, ReadTypes DEF Command
  <2>2. CASE Give(proc[Poller].user, proc[Poller].name) /\ ReadOn("answer", proc[Poller].user)
             /\ UNCHANGED disk
    <3>1. proc'[Poller].user = proc[Poller].user /\ proc'[Poller].name = proc[Poller].name
      BY <1>1, <2>2, PollerAt DEF ReadOn
    <3> QED
      BY <1>1, <1>4, <2>1, <2>2, <3>1, NamesGive DEF Command
  <2>3. CASE UNCHANGEDNames /\ Goto(Poller, Idle) /\ disk' \in {disk, Image}
    <3>1. proc'[Poller].pc # "answer"
      BY <1>1, <2>3, PollerAt DEF Idle
    <3> QED
      BY <1>1, <1>4, <2>3, <3>1, NamesStay DEF Command, UNCHANGEDNames
  <2> QED
    BY <1>4, <2>2, <2>3 DEF Command
<1>5. CASE Answer
  <2>1. proc[Poller].user \in User /\ proc[Poller].pc = "answer"
    BY <1>1, <1>5, AtMessage, ReadTypes DEF Answer
  <2>2. disk'.known = known /\ disk'.contact = contact /\ known' = known /\ contact' = contact
    BY <1>5 DEF Answer, Image
  <2>3. ASSUME NEW u \in User PROVE InPlace(u)'
    <3>1. CASE u = proc[Poller].user /\ u \in known
      BY <1>1, <1>5, <2>1, <2>2, <3>1 DEF Answer, InPlace, Names, Telling, TypeOK
    <3>2. CASE ~(u = proc[Poller].user /\ u \in known)
      <4>1. promised'[u] = promised[u]
        BY <1>1, <1>5, <3>2 DEF Answer, TypeOK
      <4> QED
        BY <2>2, <4>1 DEF InPlace, Names
    <3> QED
      BY <3>1, <3>2
  <2>4. Telling'
    BY <1>1, <1>5, PollerAt DEF Answer, Telling, Idle
  <2> QED
    BY <1>1, <2>3, <2>4 DEF Names
<1> QED
  BY <1>2, <1>3, <1>4, <1>5 DEF ServeMessage

LEMMA NamesWrite == ASSUME Names, NEW u \in User \ Manager, Write(u) PROVE Names'
<1>1. TypeOK /\ TypeOK' /\ proc[Poller].pc # "answer" /\ UNCHANGED <<proc, disk, promised>>
  BY TypeOKWrite DEF Names, Write, UNCHANGEDHistory, Idle
<1>2. PICK n \in Reported[u] : FirstContact(u, n) \/ (u \in known /\ Report(u, n) /\ UNCHANGED known)
  BY DEF Write
<1>3. CASE FirstContact(u, n)
  <2>1. ASSUME NEW v \in User PROVE InPlace(v)'
    <3>1. promised[v] # Blank => v # u /\ v \in known
      BY <1>3 DEF FirstContact, Names, InPlace
    <3> QED
      BY <1>1, <1>3, <3>1 DEF FirstContact, InPlace, Names, TypeOK
  <2> QED
    BY <1>1, <2>1 DEF Names, Telling
<1>4. CASE u \in known /\ Report(u, n) /\ UNCHANGED known
  <2>1. \A v \in User : contact[v] # Blank => contact'[v] = contact[v]
    BY <1>1, <1>4, FillsBlanks DEF Report, Ensured
  <2> QED
    BY <1>1, <1>4, <2>1, NamesStay
<1> QED
  BY <1>2, <1>3, <1>4

LEMMA NamesStart ==
  ASSUME Names, NEW a \in Manager, WriteAsAdmin(a) \/ \E p \in Press : Tap(p, a)
  PROVE  Names'
<1>1. TypeOK /\ TypeOK'
  BY TypeOKStart DEF Names
<1>2. PICK n \in Reported[a] : Report(a, n)
  BY DEF WriteAsAdmin, Tap
<1>3. a \in User
  BY PromptAssumption
<1>4. \A u \in User : contact[u] # Blank => contact'[u] = contact[u]
  BY <1>1, <1>2, <1>3, FillsBlanks DEF Report, Ensured
<1>5. known' = known /\ promised' = promised /\ disk' = disk
  BY DEF WriteAsAdmin, Tap
<1>6. proc'[Poller] = proc[Poller] \/ proc'[Poller].pc # "answer"
  <2>1. CASE WriteAsAdmin(a)
    BY <1>1, <2>1, PollerAt DEF WriteAsAdmin
  <2>2. ASSUME NEW p \in Press, Tap(p, a) PROVE proc'[Poller] = proc[Poller]
    BY <1>1, <2>2, PressKeepsPoller DEF Tap
  <2> QED
    BY <2>1, <2>2
<1> QED
  BY <1>1, <1>4, <1>5, <1>6, NamesStay

LEMMA NamesOthers ==
  ASSUME Names,
         (\E a \in Manager : Role(a)) \/ (\E u \in User \ Manager : Delete(u)) \/ OtherSave \/ Restart
  PROVE  Names'
<1>1. TypeOK /\ TypeOK'
  BY TypeOKOthers DEF Names
<1>2. CASE (\E a \in Manager : Role(a)) \/ OtherSave
  <2>1. contact' = contact /\ known' = known /\ promised' = promised
        /\ (disk' = disk \/ disk' = Image) /\ proc' = proc
    BY <1>2 DEF Role, OtherSave, UNCHANGEDNames
  <2> QED
    BY <1>1, <2>1, NamesStay
<1>3. ASSUME NEW u \in User \ Manager, Delete(u) PROVE Names'
  <2>1. ASSUME NEW v \in User PROVE InPlace(v)'
    BY <1>1, <1>3 DEF Delete, Forget, InPlace, Names, TypeOK
  <2>2. Telling'
    <3>1. proc[Poller].pc = "answer" => proc[Poller].user \in User
      BY <1>1, AtMessage, ReadTypes
    <3> QED
      BY <1>1, <1>3, <3>1 DEF Delete, Forget, Telling, Names, TypeOK
  <2> QED
    BY <1>1, <2>1, <2>2 DEF Names
<1>4. CASE Restart
  <2>1. ASSUME NEW v \in User PROVE InPlace(v)'
    BY <1>1, <1>4 DEF Restart, InPlace, Names, TypeOK
  <2>2. Telling'
    BY <1>1, <1>4 DEF Restart, Telling, TypeOK, Idle, Process
  <2> QED
    BY <1>1, <2>1, <2>2 DEF Names
<1> QED
  BY <1>2, <1>3, <1>4

LEMMA NamesNext == Names /\ [Next]_vars => Names'
<1> SUFFICES ASSUME Names, [Next]_vars PROVE Names'
  OBVIOUS
<1>1. CASE UNCHANGED vars
  BY <1>1, TypeOKNext DEF vars, Names, InPlace, Telling
<1> QED
  BY <1>1, NamesWrite, NamesStart, NamesOthers, NamesPress, NamesMessage DEF Next

LEMMA NamesInit == Init => Names
BY TypeOKInit DEF Init, Names, InPlace, Telling, Idle, Process

(* However many chats, admins and presses: a name an admin was told a chat  *)
(* has now (applyPendingRename, cmdAdminName) is its name until he gives    *)
(* another; SetContactIfEmpty, the menus and a restart do not change it.    *)
THEOREM NamesKeptHolds == Spec => []NamesKept
<1>1. Names => NamesKept
  BY DEF Names, InPlace, NamesKept
<1> QED
  BY <1>1, NamesInit, NamesNext, PTL DEF Spec

-----------------------------------------------------------------------------
(* Prompts.  As long as an admin's handlers do not overlap, what his one    *)
(* handler is at determines how the prompt in his record, the one in the    *)
(* state file and the one he was shown differ.                              *)

Of(q, a) == q # Idle /\ q.by = a
Alone(a, p) == \A o \in Process \ {p} : ~Of(proc[o], a)
Quiet(a) == \A o \in Process : ~Of(proc[o], a)

Agree(noted, shown, saved) == noted = shown /\ (shown # Nobody => saved = shown)

Phase(q, noted, shown, saved) ==
  /\ q.pc \in {"tapped", "text"} => Agree(noted, shown, saved)
  /\ q.pc \in {"show", "fill", "save", "edit"} =>
       noted = q.asks /\ (q.do # "rename" => q.asks = Nobody)
  /\ q.pc = "edit" /\ q.asks # Nobody => saved = q.asks
  /\ q.pc \in {"clear", "rename"} => q.do \in Slash \/ q.user = shown
  /\ q.pc = "rename" => q.do \notin Slash
  /\ q.pc \in {"cancel", "rename", "command", "answer"} => noted = Nobody
  /\ q.pc = "command" \/ (q.pc = "answer" /\ q.do \in Slash) => shown = Nobody

PromptOf(a) ==
  a \notin muddled =>
    /\ a \notin admins => pending[a] = Nobody
    /\ Quiet(a) => Agree(pending[a], asked[a], disk.pending[a])
    /\ \A p \in Process : Of(proc[p], a) =>
         Alone(a, p) /\ Phase(proc[p], pending[a], asked[a], disk.pending[a])

Prompts == TypeOK /\ \A a \in Manager : PromptOf(a)

(* A step of a goroutine that is not of this admin, and one of his: it      *)
(* begins, goes on or ends.                                                 *)
LEMMA PromptOfOther ==
  ASSUME TypeOK, NEW a \in Manager, PromptOf(a), NEW p \in Process, NEW q, Goto(p, q),
         ~Of(proc[p], a), ~Of(q, a), pending'[a] = pending[a], asked'[a] = asked[a],
         disk'.pending[a] \in {disk.pending[a], pending[a]},
         a \in muddled => a \in muddled', admins' = admins
  PROVE  PromptOf(a)'
<1>1. SUFFICES ASSUME a \notin muddled' PROVE PromptOf(a)'
  BY DEF PromptOf
<1>2. \A o \in Process : Of(proc'[o], a) => o # p /\ proc'[o] = proc[o]
  BY DEF Goto, TypeOK
<1>3. \A o \in Process : Of(proc'[o], a) <=> Of(proc[o], a)
  BY DEF Goto, TypeOK
<1>4. Quiet(a)' => Agree(pending[a], asked[a], disk'.pending[a])
  BY <1>1, <1>3 DEF PromptOf, Quiet, Agree
<1>5. ASSUME NEW o \in Process, Of(proc'[o], a)
      PROVE  Alone(a, o)' /\ Phase(proc[o], pending[a], asked[a], disk'.pending[a])
  BY <1>1, <1>3, <1>5 DEF PromptOf, Alone, Phase, Agree
<1> QED
  BY <1>1, <1>2, <1>4, <1>5 DEF PromptOf

LEMMA PromptOfOwn ==
  ASSUME TypeOK, NEW a \in Manager, NEW p \in Process, NEW q, Of(q, a), Goto(p, q),
         a \notin muddled' =>
           /\ Alone(a, p)
           /\ a \notin admins' => pending'[a] = Nobody
           /\ Phase(q, pending'[a], asked'[a], disk'.pending[a])
  PROVE  PromptOf(a)'
<1>1. proc'[p] = q /\ \A o \in Process \ {p} : proc'[o] = proc[o]
  BY DEF Goto, TypeOK
<1>2. a \notin muddled' => \A o \in Process : Of(proc'[o], a) => o = p
  BY <1>1 DEF Alone
<1>3. ~Quiet(a)'
  BY <1>1 DEF Quiet
<1> QED
  BY <1>1, <1>2, <1>3 DEF PromptOf, Alone

LEMMA PromptOfEnd ==
  ASSUME TypeOK, NEW a \in Manager, NEW p \in Process, Goto(p, Idle),
         a \notin muddled' =>
           /\ Alone(a, p)
           /\ a \notin admins' => pending'[a] = Nobody
           /\ Agree(pending'[a], asked'[a], disk'.pending[a])
  PROVE  PromptOf(a)'
<1>1. proc'[p] = Idle /\ \A o \in Process \ {p} : proc'[o] = proc[o]
  BY DEF Goto, TypeOK
<1>2. a \notin muddled' => \A o \in Process : ~Of(proc'[o], a)
  BY <1>1 DEF Alone, Of
<1> QED
  BY <1>2 DEF PromptOf, Quiet

(* A step of no goroutine *)
LEMMA PromptOfNone ==
  ASSUME TypeOK, NEW a \in Manager, PromptOf(a), UNCHANGED <<proc, pending, asked>>,
         disk' = disk \/ disk' = Image, a \in muddled => a \in muddled',
         a \notin muddled' /\ a \notin admins' => a \notin admins
  PROVE  PromptOf(a)'
<1>1. disk'.pending[a] \in {disk.pending[a], pending[a]}
  BY DEF Image
<1> QED
  BY <1>1 DEF PromptOf, Quiet, Alone, Agree, Phase

LEMMA SettledAlone ==
  ASSUME TypeOK, NEW p \in Press, Of(proc[p], proc[p].by), Settled(p), PromptOf(proc[p].by),
         proc[p].by \notin muddled', proc[p].by \in Manager
  PROVE  Alone(proc[p].by, p)
<1>1. CASE AtWork(proc[p].by) = {p}
  BY <1>1 DEF AtWork, Alone, Of
<1>2. CASE AtWork(proc[p].by) # {p}
  BY <1>2 DEF Settled, PromptOf, Process
<1> QED
  BY <1>1, <1>2

LEMMA PromptOfPressOther ==
  ASSUME Prompts, NEW p \in Press, ServePress(p), NEW a \in Manager, a # proc[p].by
  PROVE  PromptOf(a)'
<1>1. proc[p].pc # "idle"
  BY DEF ServePress, Ask, RefuseToAsk, Clear, ReadName, FillName, Shown, SavePress, Edit
<1>2. TypeOK /\ PromptOf(a) /\ proc[p].by \in Manager /\ p \in Process
  BY <1>1, AtPress, PressTypes DEF Prompts, Process
<1>3. PICK q : Goto(p, q) /\ ~Of(q, a)
  <2>1. CASE ReadName(p)
    <3>1. PICK u, n :
            Goto(p, [pc |-> "fill", by |-> proc[p].by, do |-> proc[p].do, user |-> proc[p].user,
                     asks |-> proc[p].asks, todo |-> proc[p].todo \ {u}, whose |-> u, name |-> n])
      BY <2>1 DEF ReadName
    <3> QED
      BY <3>1 DEF Of
  <2>4. CASE Edit(p)
    BY <2>4 DEF Edit, Of
  <2>2. PICK pc, todo, asks : ReadName(p) \/ Edit(p) \/ PressOn(p, pc, todo, asks)
    BY DEF ServePress, Ask, RefuseToAsk, Clear, FillName, Shown, SavePress
  <2>3. CASE PressOn(p, pc, todo, asks)
    BY <2>3 DEF PressOn, Of
  <2> QED
    BY <2>1, <2>2, <2>3, <2>4
<1>4. pending'[a] = pending[a] /\ asked'[a] = asked[a]
  BY <1>2 DEF ServePress, Ask, RefuseToAsk, Clear, ReadName, FillName, Shown, SavePress, Edit, TypeOK
<1>5. disk'.pending[a] \in {disk.pending[a], pending[a]}
  BY DEF ServePress, Ask, RefuseToAsk, Clear, ReadName, FillName, Shown, SavePress, Edit, Image
<1>6. (a \in muddled => a \in muddled') /\ admins' = admins
  BY DEF ServePress, Ask, RefuseToAsk, Clear, ReadName, FillName, Shown, SavePress, Edit, Settled
<1> QED
  BY <1>2, <1>3, <1>4, <1>5, <1>6, PromptOfOther DEF Of

(* The admin whose press it is; what the step makes of his press.           *)
LEMMA PromptOfPressOn ==
  ASSUME TypeOK, NEW p \in Press, NEW a \in Manager, proc[p].by = a,
         NEW pc, NEW todo, NEW asks, PressOn(p, pc, todo, asks),
         a \notin muddled' =>
           /\ Alone(a, p)
           /\ a \notin admins' => pending'[a] = Nobody
           /\ pc \in {"show", "save", "edit"} /\ pending'[a] = asks
           /\ proc[p].do # "rename" => asks = Nobody
           /\ pc = "edit" /\ asks # Nobody => disk'.pending[a] = asks
  PROVE  PromptOf(a)'
<1> DEFINE q == [pc |-> pc, by |-> proc[p].by, do |-> proc[p].do, user |-> proc[p].user,
                 todo |-> todo, asks |-> asks]
<1>1. Goto(p, q) /\ Of(q, a)
  BY DEF PressOn, Of, Idle
<1>2. a \notin muddled' => Phase(q, pending'[a], asked'[a], disk'.pending[a])
  BY DEF Phase
<1> HIDE DEF q
<1> QED
  BY <1>1, <1>2, PromptOfOwn DEF Process

LEMMA PromptOfPress ==
  ASSUME Prompts, NEW p \in Press, ServePress(p), NEW a \in Manager, a = proc[p].by
  PROVE  PromptOf(a)'
<1>1. proc[p].pc # "idle"
  BY DEF ServePress, Ask, RefuseToAsk, Clear, ReadName, FillName, Shown, SavePress, Edit
<1>2. TypeOK /\ proc[p] \in Pressing /\ a \in Manager /\ p \in Process /\ Of(proc[p], a)
  BY <1>1, AtPress, PressTypes DEF Prompts, Process, Of
<1>3. PromptOf(a)
  BY <1>2 DEF Prompts
<1>4. a \notin muddled => /\ Alone(a, p) /\ (a \notin admins => pending[a] = Nobody)
                         /\ Phase(proc[p], pending[a], asked[a], disk.pending[a])
  BY <1>2, <1>3 DEF PromptOf
<1>5. CASE Ask(p)
  <2>1. a \notin muddled' => Alone(a, p)
    BY <1>2, <1>3, <1>5, SettledAlone DEF Ask
  <2>2. pending'[a] = proc[p].user /\ admins' = admins /\ a \in admins /\ proc[p].do = "rename"
    BY <1>2, <1>5 DEF Ask, TypeOK
  <2>3. PressOn(p, "show", {proc[p].user}, proc[p].user)
    BY <1>5 DEF Ask
  <2> QED
    BY <1>2, <2>1, <2>2, <2>3, PromptOfPressOn
<1>6. CASE RefuseToAsk(p)
  <2>1. PressOn(p, "show", {}, asked[a]) /\ proc[p].do = "rename" /\ proc[p].pc = "tapped"
        /\ UNCHANGED <<admins, pending, muddled>>
    BY <1>6 DEF RefuseToAsk
  <2>2. a \notin muddled => pending[a] = asked[a]
    BY <1>4, <2>1 DEF Phase, Agree
  <2> QED
    BY <1>2, <1>4, <2>1, <2>2, PromptOfPressOn
<1>7. CASE Clear(p)
  <2>1. a \notin muddled' => Alone(a, p)
    BY <1>2, <1>3, <1>7, SettledAlone DEF Clear
  <2>2. pending'[a] = Nobody /\ admins' = admins
    BY <1>2, <1>7 DEF Clear, Clears, TypeOK
  <2>3. PICK todo : PressOn(p, "show", todo, Nobody)
    BY <1>7 DEF Clear
  <2> QED
    BY <1>2, <2>1, <2>2, <2>3, PromptOfPressOn
<1>8. CASE ReadName(p)
  <2>1. PICK u, n :
          Goto(p, [pc |-> "fill", by |-> proc[p].by, do |-> proc[p].do, user |-> proc[p].user,
                   asks |-> proc[p].asks, todo |-> proc[p].todo \ {u}, whose |-> u, name |-> n])
    BY <1>8 DEF ReadName
  <2> DEFINE q == [pc |-> "fill", by |-> proc[p].by, do |-> proc[p].do, user |-> proc[p].user,
                   asks |-> proc[p].asks, todo |-> proc[p].todo \ {u}, whose |-> u, name |-> n]
  <2>2. Of(q, a) /\ Goto(p, q)
    BY <2>1 DEF Of, Idle
  <2>3. a \notin muddled => Phase(q, pending[a], asked[a], disk.pending[a])
    BY <1>4, <1>8 DEF ReadName, Phase
  <2> HIDE DEF q
  <2> QED
    BY <1>2, <1>4, <1>8, <2>2, <2>3, PromptOfOwn DEF ReadName
<1>9. CASE FillName(p)
  <2>1. PressOn(p, "show", proc[p].todo, proc[p].asks) /\ UNCHANGED <<admins, pending, muddled>>
    BY <1>9 DEF FillName
  <2>2. a \notin muddled =>
          pending[a] = proc[p].asks /\ (proc[p].do # "rename" => proc[p].asks = Nobody)
    BY <1>4, <1>9 DEF FillName, Phase
  <2> QED
    BY <1>2, <1>4, <2>1, <2>2, PromptOfPressOn
<1>10. CASE Shown(p)
  <2>1. PressOn(p, IF Saves(proc[p].do) THEN "save" ELSE "edit", {}, proc[p].asks)
        /\ UNCHANGED <<admins, pending, muddled>>
    BY <1>10 DEF Shown
  <2>2. a \notin muddled =>
          pending[a] = proc[p].asks /\ (proc[p].do # "rename" => proc[p].asks = Nobody)
    BY <1>4, <1>10 DEF Shown, Phase
  <2> QED
    BY <1>2, <1>4, <2>1, <2>2, PromptOfPressOn DEF Saves
<1>11. CASE SavePress(p)
  <2>1. PressOn(p, "edit", {}, proc[p].asks) /\ UNCHANGED <<admins, pending, muddled>>
        /\ disk'.pending = pending
    BY <1>11 DEF SavePress, Image
  <2>2. a \notin muddled =>
          pending[a] = proc[p].asks /\ (proc[p].do # "rename" => proc[p].asks = Nobody)
    BY <1>4, <1>11 DEF SavePress, Phase
  <2> QED
    BY <1>2, <1>4, <2>1, <2>2, PromptOfPressOn
<1>12. CASE Edit(p)
  <2>1. Goto(p, Idle) /\ UNCHANGED <<admins, pending, disk, muddled>> /\ proc[p].pc = "edit"
    BY <1>12 DEF Edit
  <2>2. asked'[a] = proc[p].asks
    BY <1>2, <1>12 DEF Edit, TypeOK
  <2>3. a \notin muddled => Agree(pending[a], proc[p].asks, disk.pending[a])
    BY <1>4, <2>1 DEF Phase, Agree
  <2> QED
    BY <1>2, <1>4, <2>1, <2>2, <2>3, PromptOfEnd
<1> QED
  BY <1>5, <1>6, <1>7, <1>8, <1>9, <1>10, <1>11, <1>12 DEF ServePress

LEMMA PromptOfMessageOther ==
  ASSUME Prompts, ServeMessage, NEW a \in Manager, a # proc[Poller].by
  PROVE  PromptOf(a)'
<1>1. proc[Poller].pc # "idle"
  BY DEF ServeMessage, Message, ReadPrompt, ClearPrompt, SaveCancel, Rename, Command, Answer
<1>2. TypeOK /\ PromptOf(a) /\ proc[Poller].by \in Manager /\ Poller \in Process
  BY <1>1, AtMessage, ReadTypes DEF Prompts, Process
<1>3. PICK q : Goto(Poller, q) /\ ~Of(q, a)
  BY DEF ServeMessage, ReadPrompt, ClearPrompt, SaveCancel, Rename, Command, Answer, ReadOn, Of
<1>4. pending'[a] = pending[a] /\ asked'[a] = asked[a]
  BY <1>2 DEF ServeMessage, ReadPrompt, ClearPrompt, Consumed, SaveCancel, Rename, Command, Answer,
              UNCHANGEDButPoller, TypeOK
<1>5. disk'.pending[a] \in {disk.pending[a], pending[a]}
  BY DEF ServeMessage, ReadPrompt, ClearPrompt, SaveCancel, Rename, Command, Answer, Image
<1>6. muddled' = muddled /\ admins' = admins
  BY DEF ServeMessage, ReadPrompt, ClearPrompt, SaveCancel, Rename, Command, Answer,
         UNCHANGEDButPoller
<1> QED
  BY <1>2, <1>3, <1>4, <1>5, <1>6, PromptOfOther DEF Of

LEMMA PromptOfReadOn ==
  ASSUME TypeOK, NEW a \in Manager, proc[Poller].by = a, NEW pc, NEW user, ReadOn(pc, user),
         UNCHANGED <<admins, muddled>>,
         a \notin muddled =>
           /\ Alone(a, Poller)
           /\ a \notin admins => pending'[a] = Nobody
           /\ pc \in {"clear", "cancel", "rename", "command", "answer"}
           /\ pc \in {"clear", "rename"} => proc[Poller].do \in Slash \/ user = asked'[a]
           /\ pc = "rename" => proc[Poller].do \notin Slash
           /\ pc # "clear" => pending'[a] = Nobody
           /\ pc = "command" \/ (pc = "answer" /\ proc[Poller].do \in Slash) => asked'[a] = Nobody
  PROVE  PromptOf(a)'
<1> DEFINE q == [pc |-> pc, by |-> proc[Poller].by, do |-> proc[Poller].do, user |-> user,
                 name |-> proc[Poller].name]
<1>1. Goto(Poller, q) /\ Of(q, a)
  BY DEF ReadOn, Of, Idle
<1>2. a \notin muddled' => Phase(q, pending'[a], asked'[a], disk'.pending[a])
  BY DEF Phase
<1> HIDE DEF q
<1> QED
  BY <1>1, <1>2, PromptOfOwn DEF Process

LEMMA PromptOfMessage ==
  ASSUME Prompts, ServeMessage, NEW a \in Manager, a = proc[Poller].by
  PROVE  PromptOf(a)'
<1> DEFINE q == proc[Poller]
<1>1. proc[Poller].pc # "idle"
  BY DEF ServeMessage, Message, ReadPrompt, ClearPrompt, SaveCancel, Rename, Command, Answer
<1>2. TypeOK /\ proc[Poller] \in Reading /\ a \in Manager /\ Poller \in Process /\ Of(proc[Poller], a)
  BY <1>1, AtMessage, ReadTypes DEF Prompts, Process, Of
<1>3. a \notin muddled => /\ Alone(a, Poller) /\ (a \notin admins => pending[a] = Nobody)
                         /\ Phase(proc[Poller], pending[a], asked[a], disk.pending[a])
  BY <1>2 DEF Prompts, PromptOf
<1> USE DEF Message, UNCHANGEDButPoller
<1>4. CASE ReadPrompt
  <2>1. UNCHANGED <<admins, asked, muddled, pending, disk>> /\ q.pc = "text"
    BY <1>4 DEF ReadPrompt
  <2>2. a \notin muddled => pending[a] = asked[a]
    BY <1>3, <2>1 DEF Phase, Agree
  <2>3. CASE ~HasPrompt(a)
    BY <1>2, <1>3, <1>4, <2>1, <2>2, <2>3, PromptOfReadOn DEF ReadPrompt, HasPrompt
  <2>4. CASE HasPrompt(a)
    BY <1>2, <1>3, <1>4, <2>1, <2>2, <2>4, PromptOfReadOn DEF ReadPrompt, HasPrompt
  <2> QED
    BY <2>3, <2>4
<1>5. CASE ClearPrompt
  <2>1. UNCHANGED <<admins, asked, muddled>> /\ q.pc = "clear" /\ pending'[a] = Nobody
        /\ ReadOn(IF q.do \in Slash THEN "cancel" ELSE "rename", q.user)
    BY <1>2, <1>5 DEF ClearPrompt, Consumed, TypeOK
  <2>2. a \notin muddled => q.do \in Slash \/ q.user = asked[a]
    BY <1>3, <2>1 DEF Phase
  <2> QED
    BY <1>2, <1>3, <2>1, <2>2, PromptOfReadOn
<1>6. CASE SaveCancel
  <2>1. UNCHANGED <<admins, muddled, pending>> /\ q.pc = "cancel" /\ asked'[a] = Nobody
        /\ ReadOn("command", q.user)
    BY <1>2, <1>6 DEF SaveCancel, TypeOK
  <2>2. a \notin muddled => pending[a] = Nobody
    BY <1>3, <2>1 DEF Phase
  <2> QED
    BY <1>2, <1>3, <2>1, <2>2, PromptOfReadOn
<1>7. CASE Rename
  <2>1. UNCHANGED <<admins, asked, muddled, pending>> /\ q.pc = "rename" /\ ReadOn("answer", q.user)
    BY <1>7 DEF Rename
  <2>2. a \notin muddled => pending[a] = Nobody /\ q.do \notin Slash
    BY <1>3, <2>1 DEF Phase
  <2> QED
    BY <1>2, <1>3, <2>1, <2>2, PromptOfReadOn
<1>8. CASE Command
  <2>1. UNCHANGED <<admins, asked, muddled, pending>> /\ q.pc = "command"
        /\ (ReadOn("answer", q.user) \/ Goto(Poller, Idle))
    BY <1>8 DEF Command
  <2>2. a \notin muddled => pending[a] = Nobody /\ asked[a] = Nobody
    BY <1>3, <2>1 DEF Phase
  <2>3. CASE ReadOn("answer", q.user)
    BY <1>2, <1>3, <2>1, <2>2, <2>3, PromptOfReadOn
  <2>4. CASE Goto(Poller, Idle)
    BY <1>2, <1>3, <2>1, <2>2, <2>4, PromptOfEnd DEF Agree
  <2> QED
    BY <2>1, <2>3, <2>4
<1>9. CASE Answer
  <2>1. UNCHANGED <<admins, muddled, pending>> /\ q.pc = "answer" /\ Goto(Poller, Idle)
        /\ asked'[a] = IF q.do \in {"plain", "name"} THEN Nobody ELSE asked[a]
    BY <1>2, <1>9 DEF Answer, TypeOK
  <2>2. a \notin muddled => pending[a] = Nobody /\ asked'[a] = Nobody
    <3>1. q.do \in {"plain", "name"} \/ q.do \in Slash
      BY <1>2, ReadTypes DEF Typed, Slash
    <3> QED
      BY <1>3, <2>1, <3>1 DEF Phase
  <2> QED
    BY <1>2, <1>3, <2>1, <2>2, PromptOfEnd DEF Agree
<1> QED
  BY <1>4, <1>5, <1>6, <1>7, <1>8, <1>9 DEF ServeMessage

LEMMA PromptOfStart ==
  ASSUME Prompts, NEW b \in Manager, WriteAsAdmin(b) \/ (\E p \in Press : Tap(p, b)),
         NEW a \in Manager
  PROVE  PromptOf(a)'
<1>1. TypeOK /\ PromptOf(a)
  BY DEF Prompts
<1>a. \E p \in Process : \E q :
        proc[p] = Idle /\ Goto(p, q) /\ Of(q, b) /\ q.pc \in {"tapped", "text"}
  <2>1. CASE WriteAsAdmin(b)
    BY <2>1 DEF WriteAsAdmin, Process, Of, Idle
  <2>2. ASSUME NEW p \in Press, Tap(p, b)
        PROVE  \E q : proc[p] = Idle /\ Goto(p, q) /\ Of(q, b) /\ q.pc \in {"tapped", "text"}
    BY <2>2 DEF Tap, Of, Idle
  <2> QED
    BY <2>1, <2>2 DEF Process
<1>b. PICK p \in Process :
        \E q : proc[p] = Idle /\ Goto(p, q) /\ Of(q, b) /\ q.pc \in {"tapped", "text"}
  BY <1>a
<1>2. PICK q : proc[p] = Idle /\ Goto(p, q) /\ Of(q, b) /\ q.pc \in {"tapped", "text"}
  BY <1>b
<1>3. UNCHANGED <<admins, pending, disk, asked>> /\ Another(b)
  BY DEF WriteAsAdmin, Tap
<1>4. CASE a # b
  <2>1. ~Of(proc[p], a) /\ ~Of(q, a) /\ (a \in muddled => a \in muddled')
    BY <1>2, <1>3, <1>4 DEF Of, Another
  <2> QED
    BY <1>1, <1>2, <1>3, <2>1, PromptOfOther
<1>5. CASE a = b
  <2>1. a \notin muddled' => a \notin muddled /\ Quiet(a)
    BY <1>3, <1>5 DEF Another, AtWork, Quiet, Of
  <2>2. a \notin muddled' => Alone(a, p)
    BY <2>1 DEF Quiet, Alone
  <2>3. a \notin muddled' => Phase(q, pending[a], asked[a], disk.pending[a])
    BY <1>1, <1>2, <2>1 DEF PromptOf, Phase
  <2>4. a \notin muddled' /\ a \notin admins => pending[a] = Nobody
    BY <1>1, <2>1 DEF PromptOf
  <2> QED
    BY <1>1, <1>2, <1>3, <1>5, <2>2, <2>3, <2>4, PromptOfOwn
<1> QED
  BY <1>4, <1>5

(* Memory and the state file agree on the prompt of an admin at nothing     *)
(* unless a cancelled one is still in the file, which the history notes.    *)
LEMMA PromptOfRestart == ASSUME Prompts, Restart, NEW a \in Manager PROVE PromptOf(a)'
<1>1. TypeOK /\ PromptOf(a)
  BY DEF Prompts
<1>2. SUFFICES ASSUME a \notin muddled' PROVE PromptOf(a)'
  BY DEF PromptOf
<1>3. a \notin muddled /\ AtWork(a) = {} /\ (asked[a] = Nobody => disk.pending[a] = Nobody)
  BY <1>2 DEF Restart, BroughtBack
<1>4. Quiet(a)
  BY <1>3 DEF AtWork, Quiet, Of
<1>5. Agree(pending[a], asked[a], disk.pending[a]) /\ disk.pending[a] = asked[a]
      /\ (a \notin admins => pending[a] = Nobody)
  BY <1>1, <1>3, <1>4 DEF PromptOf, Agree
<1>6. \A p \in Process : ~Of(proc'[p], a)
  BY DEF Restart, Of
<1>7. pending'[a] = disk.pending[a] /\ UNCHANGED <<admins, disk, asked>>
  BY DEF Restart
<1> QED
  BY <1>5, <1>6, <1>7 DEF PromptOf, Agree

LEMMA PromptsNext == Prompts /\ [Next]_vars => Prompts'
<1> SUFFICES ASSUME Prompts, [Next]_vars, NEW a \in Manager PROVE PromptOf(a)'
  BY TypeOKNext DEF Prompts
<1>1. TypeOK /\ PromptOf(a)
  BY DEF Prompts
<1>2. CASE UNCHANGED vars
  BY <1>1, <1>2, PromptOfNone DEF vars
<1>3. CASE OtherSave
  BY <1>1, <1>3, PromptOfNone DEF OtherSave
<1>4. ASSUME NEW u \in User \ Manager, Write(u) \/ Delete(u) PROVE PromptOf(a)'
  BY <1>1, <1>4, PromptOfNone DEF Write, Delete, UNCHANGEDHistory
<1>5. ASSUME NEW b \in Manager, Role(b) PROVE PromptOf(a)'
  BY <1>1, <1>5, PromptOfNone DEF Role, UNCHANGEDNames
<1>6. ASSUME NEW p \in Press, ServePress(p) PROVE PromptOf(a)'
  BY <1>6, PromptOfPress, PromptOfPressOther
<1>7. CASE ServeMessage
  BY <1>7, PromptOfMessage, PromptOfMessageOther
<1> QED
  BY <1>2, <1>3, <1>4, <1>5, <1>6, <1>7, PromptOfStart, PromptOfRestart DEF Next

LEMMA PromptsInit == Init => Prompts
BY TypeOKInit, PromptAssumption
   DEF Init, Prompts, PromptOf, Quiet, Agree, Of, Image, Process

(* However many admins, presses and chats: a message is taken for the name  *)
(* of the subscriber the admin was asked about (consumePendingRename).      *)
THEOREM NameGoesToAskedHolds == Spec => []NameGoesToAsked
<1>1. Prompts => NameGoesToAsked
  <2> SUFFICES ASSUME Prompts, Message("rename"), proc[Poller].by \notin muddled
               PROVE  proc[Poller].user = asked[proc[Poller].by]
    BY DEF NameGoesToAsked
  <2>1. proc[Poller] # Idle /\ proc[Poller].by \in Manager /\ proc[Poller].pc = "rename"
    BY AtMessage, ReadTypes DEF Prompts, Message
  <2> QED
    BY <2>1 DEF Prompts, PromptOf, Of, Phase, Process
<1> QED
  BY <1>1, PromptsInit, PromptsNext, PTL DEF Spec

(* A prompt an admin was shown is in the state file                         *)
(* (handleUsersWizardCallback saves it).                                    *)
THEOREM PromptSurvivesHolds == Spec => []PromptSurvives
<1>1. Prompts => PromptSurvives
  BY DEF Prompts, PromptOf, Quiet, Of, Agree, AtWork, PromptSurvives
<1> QED
  BY <1>1, PromptsInit, PromptsNext, PTL DEF Spec

=============================================================================
