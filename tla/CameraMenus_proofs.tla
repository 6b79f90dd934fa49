------------------------- MODULE CameraMenus_proofs --------------------------
(****************************************************************************)
(* Proofs about ClipSettings and CameraMenus for any cameras, lists of      *)
(* them, subscribers, presses and state files.                              *)
(****************************************************************************)
EXTENDS CameraMenus, TLAPS

-----------------------------------------------------------------------------
(* Clip settings of whatever the state file says *)

LEMMA SizeLimits ==
  /\ MinClipSizeBytes \in Int /\ MaxClipSizeBytes \in Int /\ MinClipSizeBytes <= MaxClipSizeBytes
  /\ Defaults.size \in Int
  /\ MinClipSizeBytes <= Defaults.size /\ Defaults.size <= MaxClipSizeBytes
<1>1. 500 * 1024 = 512000 /\ 3 * 1024 = 3072
  BY SMT
<1>2. 3072 * 1024 = 3145728
  BY SMT
<1> QED
  BY SMT, <1>1, <1>2 DEF MinClipSizeBytes, MaxClipSizeBytes, Defaults

LEMMA SettingsLimits ==
  ASSUME NEW r \in Rules PROVE ClipSettingsOf(r) \in Settings
<1>1. ClipLength(r.length) \in {1000 * s : s \in MinClipLengthSecs .. MaxClipLengthSecs}
  <2>1. (r.length + 500) \div 1000 \in Int
    BY DEF Rules
  <2>2. Clamp(MinClipLengthSecs, MaxClipLengthSecs, (r.length + 500) \div 1000)
          \in MinClipLengthSecs .. MaxClipLengthSecs
    BY <2>1 DEF Clamp, MinClipLengthSecs, MaxClipLengthSecs
  <2> QED
    BY <2>2 DEF ClipLength
<1>2. ClipSize(r.size) \in MinClipSizeBytes .. MaxClipSizeBytes
  BY SMT, SizeLimits DEF Rules, ClipSize, Clamp
<1>3. Defaults.scale \in Scales /\ Defaults.codec \in Codecs
  BY SMT DEF Defaults, Scales, Codecs
<1>4. Defaults.size \in MinClipSizeBytes .. MaxClipSizeBytes
  BY SMT, SizeLimits
<1>5. Defaults.length = 1000 * 6 /\ 6 \in MinClipLengthSecs .. MaxClipLengthSecs
  BY SMT DEF Defaults, MinClipLengthSecs, MaxClipLengthSecs
<1> QED
  BY SMT, <1>1, <1>2, <1>3, <1>4, <1>5 DEF ClipSettingsOf, Settings

(* What a menu offers passes the limits as it is.                           *)
LEMMA SettingsKept ==
  ASSUME NEW r \in Rules, NEW kind \in Kind, NEW v, Allowed(kind, v), r[kind] = RuleOf(kind, v)
  PROVE  ClipSettingsOf(r)[kind] = r[kind]
<1>1. CASE kind = "scale"
  BY <1>1 DEF Allowed, RuleOf, ClipSettingsOf
<1>2. CASE kind = "codec"
  BY <1>2 DEF Allowed, RuleOf, ClipSettingsOf
<1>3. CASE kind = "length"
  <2>1. v \in 2 .. 15 /\ r.length = 1000 * v
    BY <1>3 DEF Allowed, RuleOf, MinClipLengthSecs, MaxClipLengthSecs
  <2>2. (r.length + 500) \div 1000 = v
    BY <2>1
  <2>3. ClipLength(r.length) = r.length
    BY <2>1, <2>2 DEF ClipLength, Clamp, MinClipLengthSecs, MaxClipLengthSecs
  <2>4. ClipSettingsOf(r).length = IF r.length > 0 THEN ClipLength(r.length) ELSE Defaults.length
    BY DEF ClipSettingsOf
  <2> QED
    BY <1>3, <2>1, <2>3, <2>4
<1>4. CASE kind = "size"
  <2>1. v \in MinClipSizeBytes .. MaxClipSizeBytes /\ r.size = v
    BY <1>4 DEF Allowed, RuleOf
  <2>2. r.size > 0 /\ ClipSize(r.size) = r.size
    <3>1. MinClipSizeBytes > 0
      BY SMT DEF MinClipSizeBytes
    <3> QED
      BY <2>1, <3>1, SizeLimits DEF ClipSize, Clamp
  <2>3. ClipSettingsOf(r).size = IF r.size > 0 THEN ClipSize(r.size) ELSE Defaults.size
    BY DEF ClipSettingsOf
  <2> QED
    BY <1>4, <2>2, <2>3
<1> QED
  BY <1>1, <1>2, <1>3, <1>4 DEF Kind

LEMMA EvenBelow ==
  ASSUME NEW v \in Int
  PROVE  /\ EvenPixels(v) \in Nat /\ EvenPixels(v) % 2 = 0
         /\ v >= 2 => EvenPixels(v) \in 2 .. v
         /\ v < 2 => EvenPixels(v) = 0
<1>1. v % 2 \in 0 .. 1
  OBVIOUS
<1>4. v \div 2 \in Int /\ v = 2 * (v \div 2) + (v % 2)
  OBVIOUS
<1>5. (v - (v % 2)) % 2 = 0
  BY <1>1, <1>4
<1>2. CASE v < 2
  BY <1>2 DEF EvenPixels
<1>3. CASE v >= 2
  BY <1>1, <1>3 DEF EvenPixels
<1> QED
  BY <1>2, <1>3

(* A height below half the camera's, if it has one worth recompressing.     *)
LEMMA HeightLimits ==
  ASSUME NEW h \in Nat, NEW scale \in Scales
  PROVE  LET x == HeightForScale(h, scale) IN
         /\ x \in Nat /\ x % 2 = 0
         /\ scale = "full" => x = 0
         /\ scale # "full" /\ h >= 8 => 2 * x < h /\ x >= 2
         /\ scale # "full" /\ h < 6 => x = 0
<1>1. /\ h \div 4 \in Int /\ 4 * (h \div 4) <= h /\ h < 4 * (h \div 4) + 4
      /\ h \div 3 \in Int /\ 3 * (h \div 3) <= h /\ h < 3 * (h \div 3) + 3
      /\ h \div 2 \in Int /\ 2 * (h \div 2) <= h /\ h < 2 * (h \div 2) + 2
  OBVIOUS
<1>2. CASE h < 2 \/ scale = "full"
  BY <1>2 DEF HeightForScale
<1>3. CASE h >= 2 /\ scale = "quarter"
  <2>1. HeightForScale(h, scale) = EvenPixels(h \div 4)
    BY <1>3 DEF HeightForScale
  <2> QED
    BY <1>1, <1>3, <2>1, EvenBelow
<1>4. CASE h >= 2 /\ scale = "third"
  <2>1. HeightForScale(h, scale) = EvenPixels(h \div 3)
    BY <1>4 DEF HeightForScale
  <2> QED
    BY <1>1, <1>4, <2>1, EvenBelow
<1>5. CASE h >= 2 /\ scale = "half"
  <2>1. HeightForScale(h, scale) = EvenPixels((h \div 2) - 1)
    BY <1>5 DEF HeightForScale, BelowHalf
  <2> QED
    BY <1>1, <1>5, <2>1, EvenBelow
<1> QED
  BY <1>2, <1>3, <1>4, <1>5 DEF Scales

LEMMA DivBounds ==
  ASSUME NEW n \in Nat, NEW d \in Nat, d > 0
  PROVE  n \div d \in Nat /\ (n \div d) * d <= n /\ n < ((n \div d) + 1) * d
BY SMT

LEMMA EvenNear ==
  ASSUME NEW v \in Nat
  PROVE  EvenPixels(v) \in Nat /\ EvenPixels(v) <= v /\ v + 1 <= EvenPixels(v) + 2
BY EvenBelow DEF EvenPixels

LEMMA TimesKeepsOrder ==
  ASSUME NEW a \in Nat, NEW b \in Nat, NEW d \in Nat, a <= b
  PROVE  a * d \in Nat /\ b * d \in Nat /\ a * d <= b * d
BY SMT

(* The even number below a quotient *)
LEMMA EvenQuotient ==
  ASSUME NEW n \in Nat, NEW d \in Nat, d > 0
  PROVE  EvenPixels(n \div d) * d <= n /\ n < (EvenPixels(n \div d) + 2) * d
<1> DEFINE w == n \div d
           e == EvenPixels(w)
<1>1. w \in Nat /\ w * d <= n /\ n < (w + 1) * d
  BY DivBounds
<1> HIDE DEF w
<1>2. e \in Nat /\ e <= w /\ w + 1 <= e + 2
  BY <1>1, EvenNear
<1> HIDE DEF e
<1>3. e * d \in Nat /\ w * d \in Nat /\ e * d <= w * d
  BY <1>1, <1>2, TimesKeepsOrder
<1>4. (w + 1) * d \in Nat /\ (e + 2) * d \in Nat /\ (w + 1) * d <= (e + 2) * d
  <2>1. w + 1 \in Nat /\ e + 2 \in Nat
    BY <1>1, <1>2
  <2> QED
    BY <1>2, <2>1, TimesKeepsOrder
<1>5. e * d <= n /\ n < (e + 2) * d
  BY <1>1, <1>3, <1>4
<1> QED
  BY <1>5 DEF e, w

(* Whatever the rules and the camera: even sizes, recompressed unless it is *)
(* native (VideoClipOps).                                                   *)
LEMMA ClipsRecompressed ==
  ASSUME NEW r \in Rules, NEW cam \in [width: Nat, height: Nat, codec: Codecs \ {"auto"}]
  PROVE  Recompressed(cam, ClipSettingsOf(r))
<1> DEFINE s == ClipSettingsOf(r)
           h == HeightForScale(cam.height, s.scale)
           ops == VideoClipOps(cam, s)
<1>1. s.scale \in Scales /\ cam.height \in Nat /\ cam.width \in Nat
  BY SettingsLimits DEF Settings
<1> HIDE DEF s
<1>2. /\ h \in Nat /\ h % 2 = 0
      /\ s.scale = "full" => h = 0
      /\ s.scale # "full" /\ cam.height >= 8 => 2 * h < cam.height /\ h >= 2
      /\ s.scale # "full" /\ cam.height < 6 => h = 0
  BY <1>1, HeightLimits
<1>3. ops.height = h
  BY DEF VideoClipOps
<1>4. ops.width % 2 = 0
  <2> DEFINE w == (cam.width * h) \div cam.height
  <2>1. CASE cam.width > 0 /\ cam.height > 0 /\ h > 0
    <3>1. cam.width * h \in Int
      BY <1>1, <1>2
    <3> HIDE DEF h
    <3>2. w \in Int
      BY <1>1, <2>1, <3>1
    <3>3. ops.width = EvenPixels(w)
      BY <2>1 DEF VideoClipOps, h
    <3> HIDE DEF w
    <3> QED
      BY <3>2, <3>3, EvenBelow
  <2>2. CASE ~(cam.width > 0 /\ cam.height > 0 /\ h > 0)
    <3>1. ops.width = 0
      BY <2>2 DEF VideoClipOps
    <3> QED
      BY <3>1
  <2> QED
    BY <2>1, <2>2
<1>5. ASSUME cam.width > 0, h > 0
      PROVE  ops.width * cam.height <= cam.width * h /\ cam.width * h < (ops.width + 2) * cam.height
  <2>1. cam.height > 0
    BY <1>1, <1>5 DEF HeightForScale
  <2>2. ops.width = EvenPixels((cam.width * h) \div cam.height)
    BY <1>5, <2>1 DEF VideoClipOps
  <2>3. cam.width * h \in Nat
    <3> HIDE DEF h
    <3> QED
      BY <1>1, <1>2
  <2> HIDE DEF h, ops
  <2> QED
    BY <1>1, <2>1, <2>2, <2>3, EvenQuotient
<1> HIDE DEF h
<1> QED
  BY <1>2, <1>3, <1>4, <1>5 DEF Recompressed, s

-----------------------------------------------------------------------------
(* Types *)

ProcOK ==
  DOMAIN proc = Press /\ \A p \in Press : proc[p] = Idle \/ IsPress(proc[p]) \/ IsReply(proc[p])
MenusOK == DOMAIN menu = User /\ \A u \in User : \A b \in menu[u] : IsButton(b)
RecordsOK ==
  /\ cams \in Seq(Camera) /\ admins \subseteq Manager
  /\ subs \in [User -> SUBSET (Camera \X Class)]
  /\ clip \in [Camera -> Rules \cup {NoEntry}]
  /\ taps \in 0 .. MaxTaps /\ unsaved \in BOOLEAN
  /\ DOMAIN chosen = Camera \X Kind
  /\ outdated \subseteq Press \cup User

LEMMA TypeOKParts == TypeOK <=> ProcOK /\ MenusOK /\ RecordsOK
BY DEF TypeOK, ProcOK, MenusOK, RecordsOK

LEMMA PartsTypeOK == ProcOK' /\ MenusOK' /\ RecordsOK' => TypeOK'
BY DEF TypeOK, ProcOK, MenusOK, RecordsOK

LEMMA Goes ==
  ASSUME TypeOK, NEW p \in Press, NEW q, q = Idle \/ IsPress(q) \/ IsReply(q), Goto(p, q)
  PROVE  ProcOK' /\ proc'[p] = q /\ \A o \in Press \ {p} : proc'[o] = proc[o]
BY DEF TypeOK, ProcOK, Goto

LEMMA Replies ==
  ASSUME TypeOK, NEW p \in Press, proc[p].by \in User, NEW pc \in {"save", "edit"}, NEW m,
         \A b \in m : IsButton(b), Reply(p, pc, m)
  PROVE  ProcOK'
<1> DEFINE q == [pc |-> pc, by |-> proc[p].by, menu |-> m]
<1>1. IsReply(q) /\ Goto(p, q)
  BY DEF IsReply, Reply
<1> HIDE DEF q
<1> QED
  BY <1>1, Goes

(* What a goroutine at a step is *)
LEMMA AtPress ==
  ASSUME TypeOK, NEW p \in Press, proc[p].pc \in {"tapped", "again", "act", "new", "rule", "answer"}
  PROVE  IsPress(proc[p]) /\ proc[p] # Idle
BY DEF TypeOK, IsReply, Idle

LEMMA AtReply ==
  ASSUME TypeOK, NEW p \in Press, proc[p].pc \in {"save", "edit"}
  PROVE  IsReply(proc[p]) /\ proc[p] # Idle
BY DEF TypeOK, IsPress, Idle

LEMMA NoOpening == ASSUME NEW b \in Opening PROVE b.do \in Roots /\ b.place = 0
BY DEF Opening, Roots

LEMMA PickOpening ==
  ASSUME NEW b \in Opening, b.do = "pick" PROVE b.arg \in Trigger \X User
BY DEF Opening, Roots

(* A press that goes on *)
LEMMA PressGoesOn ==
  ASSUME NEW q, IsPress(q), q.b \notin Opening, NEW cam \in Camera \cup {NoCamera},
         NEW class \in Class, NEW save \in BOOLEAN,
         NEW pc \in {"tapped", "again", "act", "new", "rule", "answer"},
         pc \in {"act", "new", "rule"} \/ (pc = "answer" /\ q.b.do = "set") => cam \in Camera,
         pc \in {"new", "rule"} => q.b.do = "set",
         pc = "again" => q.b.do = "unsubscribe"
  PROVE  /\ IsPress([q EXCEPT !.pc = pc, !.cam = cam, !.class = class])
         /\ IsPress([q EXCEPT !.pc = pc, !.class = class]) \/ q.cam # cam
         /\ IsPress([q EXCEPT !.pc = pc, !.save = save]) \/ q.cam # cam
         /\ IsPress([q EXCEPT !.pc = pc]) \/ q.cam # cam
BY DEF IsPress

(* Menus *)

LEMMA ButtonTypes ==
  ASSUME NEW i \in Nat \ {0}, NEW cam \in Camera, NEW do \in OfCamera, NEW arg \in Argument,
         do \in {"subscribe", "add", "remove"} => arg \in Class \X User,
         do = "presets" => arg \in OfKind,
         do = "set" => arg \in OfValue
  PROVE  IsButton(Button(do, i, cam, arg))
BY DEF IsButton, Button

LEMMA Places ==
  ASSUME TypeOK
  PROVE  \A i \in DOMAIN cams : i \in Nat \ {0} /\ cams[i] \in Camera
BY DEF TypeOK

LEMMA EachCameraTypes ==
  ASSUME TypeOK, NEW do \in {"camera", "clip", "snap"} PROVE \A b \in EachCamera(do, <<>>) : IsButton(b)
BY Places, ButtonTypes DEF EachCamera, OfCamera, Argument

LEMMA SubscribeTypes ==
  ASSUME TypeOK, NEW arg \in Class \X User PROVE \A b \in EachCamera("subscribe", arg) : IsButton(b)
BY Places, ButtonTypes DEF EachCamera, OfCamera, Argument

LEMMA CameraMenuTypes ==
  ASSUME NEW u \in User, NEW i \in Nat \ {0}, NEW cam \in Camera
  PROVE  /\ \A b \in CameraMenu(u, i, cam) : IsButton(b)
         /\ \A b \in TriggerMenu(u, i, cam) : IsButton(b)
         /\ \A b \in PickMenu(u, i, cam) : IsButton(b)
         /\ \A b \in ClipMenu(i, cam) : IsButton(b)
<1>1. /\ IsButton(Button("snap", i, cam, <<>>)) /\ IsButton(Button("triggers", i, cam, <<>>))
      /\ IsButton(Button("unsubscribe", i, cam, <<>>)) /\ IsButton(Button("clip", i, cam, <<>>))
  BY ButtonTypes DEF OfCamera, Argument
<1>2. \A c \in Class : IsButton(Button("add", i, cam, <<c, u>>)) /\ IsButton(Button("remove", i, cam, <<c, u>>))
  BY ButtonTypes DEF OfCamera, Argument
<1>3. ASSUME NEW k \in Kind PROVE IsButton(Button("presets", i, cam, <<k>>))
  <2>1. <<k>> \in OfKind
    BY DEF OfKind
  <2>2. <<k>> \in Argument
    BY <2>1 DEF Argument
  <2> QED
    BY <2>1, <2>2, ButtonTypes DEF OfCamera
<1> QED
  BY <1>1, <1>2, <1>3 DEF CameraMenu, TriggerMenu, PickMenu, ClipMenu, ClassesOf, Class

LEMMA PresetMenuTypes ==
  ASSUME NEW i \in Nat \ {0}, NEW cam \in Camera, NEW k \in Kind
  PROVE  \A b \in PresetMenu(i, cam, k) : IsButton(b)
<1> SUFFICES ASSUME NEW v \in Offered[k] PROVE IsButton(Button("set", i, cam, <<k, v>>))
  BY DEF PresetMenu
<1>1. <<k, v>> \in {k} \X Offered[k]
  OBVIOUS
<1>2. <<k, v>> \in OfValue
  BY <1>1 DEF OfValue
<1> QED
  BY <1>2, ButtonTypes DEF OfCamera, Argument

(* Steps that change only what a goroutine does, and the history            *)
LEMMA OnlyProc ==
  ASSUME TypeOK, ProcOK', UNCHANGED <<cams, admins, menu>>, UNCHANGEDRecords, taps' \in 0 .. MaxTaps,
         outdated' \subseteq Press \cup User
  PROVE  TypeOK'
BY TypeOKParts, PartsTypeOK DEF MenusOK, RecordsOK, UNCHANGEDRecords

LEMMA TypeOKTap == ASSUME TypeOK, NEW p \in Press, NEW u \in Tapper, Tap(p, u) PROVE TypeOK'
<1>1. u \in User
  BY CameraAssumption
<1>2. PICK b \in menu[u] \cup Opening :
        Goto(p, [pc |-> "tapped", by |-> u, b |-> b, cam |-> NoCamera, class |-> AnyClass,
                 save |-> FALSE])
  BY DEF Tap
<1> DEFINE q == [pc |-> "tapped", by |-> u, b |-> b, cam |-> NoCamera, class |-> AnyClass,
                 save |-> FALSE]
<1>3. b \in Opening \/ IsButton(b)
  BY <1>1, <1>2 DEF TypeOK
<1>4. IsPress(q)
  BY <1>1, <1>3 DEF IsPress, Class
<1> HIDE DEF q
<1>5. ProcOK'
  BY <1>2, <1>4, Goes DEF q
<1>6. outdated' \subseteq Press \cup User
  BY <1>1 DEF Tap, TypeOK
<1>7. taps' \in 0 .. MaxTaps
  BY CameraAssumption DEF Tap, TypeOK
<1> QED
  BY <1>5, <1>6, <1>7, OnlyProc DEF Tap

LEMMA TypeOKReply ==
  ASSUME TypeOK, NEW p \in Press, NEW m, \A b \in m : IsButton(b), Answered(p, m),
         proc[p].by \in User, UNCHANGED <<cams, admins, menu>>, UNCHANGEDState,
         outdated' \in {outdated, outdated \ {p}}
  PROVE  TypeOK'
<1>1. ProcOK'
  BY Replies DEF Answered
<1>2. taps' \in 0 .. MaxTaps /\ outdated' \subseteq Press \cup User
  BY DEF UNCHANGEDState, TypeOK
<1> QED
  BY <1>1, <1>2, OnlyProc DEF UNCHANGEDState

LEMMA TypeOKGoes ==
  ASSUME TypeOK, NEW p \in Press, NEW q, IsPress(q) \/ IsReply(q), Goto(p, q),
         UNCHANGED <<cams, admins, menu>>, UNCHANGEDState, outdated' \in {outdated, outdated \ {p}}
  PROVE  TypeOK'
<1>1. ProcOK'
  BY Goes
<1>2. taps' \in 0 .. MaxTaps /\ outdated' \subseteq Press \cup User
  BY DEF UNCHANGEDState, TypeOK
<1> QED
  BY <1>1, <1>2, OnlyProc DEF UNCHANGEDState

(* The button of a press that looked up its camera                          *)
LEMMA AtLookedUp ==
  ASSUME TypeOK, NEW p \in Press, NEW does, does \subseteq OfCamera, LookedUp(p, does)
  PROVE  LET b == proc[p].b IN
         /\ IsPress(proc[p]) /\ proc[p].by \in User /\ b \notin Opening /\ IsButton(b)
         /\ b.place \in Nat \ {0} /\ Here(b) \in Camera /\ b.cam \in Camera
<1>1. IsPress(proc[p]) /\ proc[p].b.do \in OfCamera
  BY AtPress DEF LookedUp, Tapped
<1>2. proc[p].b \notin Opening
  BY <1>1, NoOpening DEF OfCamera, Roots
<1> QED
  BY <1>1, <1>2, Places DEF LookedUp, Here, IsPress, IsButton

LEMMA TypeOKLooks ==
  ASSUME TypeOK, NEW p \in Press,
         Refuse(p) \/ Open(p) \/ OpenCamera(p) \/ OpenPresets(p) \/ Unsubscribe(p) \/ Look(p)
         \/ LookAgain(p)
  PROVE  TypeOK'
<1>1. CASE Refuse(p)
  <2>1. proc[p].by \in User
    BY <1>1, AtPress DEF Refuse, IsPress
  <2> QED
    BY <1>1, <2>1, TypeOKReply DEF Refuse
<1>2. CASE Open(p)
  <2>1. IsPress(proc[p]) /\ proc[p].b.do \in Roots
    BY <1>2, AtPress DEF Open, Tapped
  <2>2. proc[p].by \in User /\ proc[p].b \in Opening
    BY <2>1 DEF IsPress, IsButton, OfCamera, Roots
  <2>3. proc[p].b.do = "pick" => proc[p].b.arg \in Class \X User
    BY <2>2, PickOpening DEF Class
  <2>4. PICK m : Answered(p, m) /\ \A b \in m : IsButton(b)
    <3>1. CASE proc[p].b.do = "pick"
      BY <1>2, <2>3, <3>1, SubscribeTypes DEF Open
    <3>2. CASE proc[p].b.do \in Roots \ {"pick"}
      BY <1>2, <3>2, EachCameraTypes DEF Open, Roots
    <3> QED
      BY <2>1, <3>1, <3>2
  <2> QED
    BY <1>2, <2>2, <2>4, TypeOKReply DEF Open
<1>3. CASE OpenCamera(p)
  <2>1. proc[p].by \in User /\ proc[p].b.place \in Nat \ {0} /\ Here(proc[p].b) \in Camera
    BY <1>3, AtLookedUp DEF OpenCamera, OfCamera
  <2>2. PICK m : Answered(p, m) /\ \A b \in m : IsButton(b)
    BY <1>3, <2>1, CameraMenuTypes DEF OpenCamera, LookedUp, Tapped
  <2> QED
    BY <1>3, <2>1, <2>2, TypeOKReply DEF OpenCamera
<1>4. CASE OpenPresets(p)
  <2>1. /\ proc[p].by \in User /\ proc[p].b.place \in Nat \ {0} /\ proc[p].b.cam \in Camera
        /\ IsButton(proc[p].b)
    BY <1>4, AtLookedUp DEF OpenPresets, OfCamera
  <2>2. proc[p].b.arg[1] \in Kind
    BY <1>4, <2>1 DEF OpenPresets, LookedUp, Tapped, IsButton, OfKind
  <2> QED
    BY <1>4, <2>1, <2>2, PresetMenuTypes, TypeOKReply DEF OpenPresets
<1>5. CASE Unsubscribe(p)
  <2>1. /\ proc[p].by \in User /\ proc[p].b.place \in Nat \ {0} /\ Here(proc[p].b) \in Camera
        /\ IsPress(proc[p]) /\ proc[p].b \notin Opening
    BY <1>5, AtLookedUp DEF Unsubscribe, OfCamera
  <2>2. proc[p].cam \in Camera \cup {NoCamera} /\ proc[p].class \in Class /\ proc[p].save \in BOOLEAN
    BY <2>1 DEF IsPress
  <2>3. CASE Step(p, "answer") /\ UNCHANGED outdated
    BY <1>5, <2>1, <2>2, <2>3, PressGoesOn, TypeOKGoes DEF Step, Unsubscribe, LookedUp, Tapped
  <2>4. ASSUME NEW c \in Class, Goto(p, [proc[p] EXCEPT !.pc = "again", !.class = c]),
               UNCHANGED outdated
        PROVE  TypeOK'
    BY <1>5, <2>1, <2>2, <2>4, PressGoesOn, TypeOKGoes DEF Unsubscribe, LookedUp, Tapped
  <2>5. CASE Answered(p, PickMenu(proc[p].by, proc[p].b.place, Here(proc[p].b)))
             /\ outdated' = outdated \ {p}
    BY <1>5, <2>1, <2>5, CameraMenuTypes, TypeOKReply DEF Unsubscribe
  <2> QED
    BY <1>5, <2>3, <2>4, <2>5 DEF Unsubscribe, ClassesOf
<1>6. CASE Look(p)
  <2>1. /\ IsPress(proc[p]) /\ proc[p].b \notin Opening /\ Sees(proc[p].b) \in Camera
        /\ IsButton(proc[p].b) /\ proc[p].b.do \in {"snap", "subscribe", "add", "remove", "set"}
    BY <1>6, AtLookedUp DEF Look, OfCamera, Sees, LookedUp, Tapped
  <2>2. proc[p].cam \in Camera \cup {NoCamera} /\ proc[p].class \in Class /\ proc[p].save \in BOOLEAN
    BY <2>1 DEF IsPress
  <2>3. CASE proc[p].b.do = "remove" /\ Step(p, "answer") /\ UNCHANGED outdated
    BY <1>6, <2>1, <2>2, <2>3, PressGoesOn, TypeOKGoes DEF Step, Look
  <2>4. ASSUME NEW c \in Class, Choose(p, c) PROVE TypeOK'
    BY <1>6, <2>1, <2>2, <2>4, PressGoesOn, TypeOKGoes DEF Choose, Look
  <2>5. (IF proc[p].b.do \in {"snap", "set"} THEN AnyClass ELSE proc[p].b.arg[1]) \in Class
    BY <2>1 DEF IsButton, Class
  <2> QED
    BY <1>6, <2>3, <2>4, <2>5 DEF Look
<1>7. CASE LookAgain(p)
  <2>1. IsPress(proc[p]) /\ proc[p].by \in User /\ proc[p].pc = "again"
    BY <1>7, AtPress DEF LookAgain, IsPress
  <2>2. /\ proc[p].cam \in Camera \cup {NoCamera} /\ proc[p].class \in Class
        /\ proc[p].save \in BOOLEAN /\ proc[p].b \notin Opening /\ proc[p].b.do = "unsubscribe"
    BY <2>1 DEF IsPress
  <2>3. CASE proc[p].b.place \notin DOMAIN cams
    BY <1>7, <2>1, <2>3, TypeOKReply DEF LookAgain
  <2>4. CASE Step(p, "answer") /\ UNCHANGED outdated
    BY <1>7, <2>1, <2>2, <2>4, PressGoesOn, TypeOKGoes DEF Step, LookAgain
  <2>5. CASE proc[p].b.place \in DOMAIN cams /\ Choose(p, proc[p].class)
    <3>1. Sees(proc[p].b) \in Camera
      BY <2>5, Places DEF Sees, Here
    <3> QED
      BY <1>7, <2>1, <2>2, <2>5, <3>1, PressGoesOn, TypeOKGoes DEF Choose, LookAgain
  <2> QED
    BY <1>7, <2>3, <2>4, <2>5 DEF LookAgain
<1> QED
  BY <1>1, <1>2, <1>3, <1>4, <1>5, <1>6, <1>7

(* Rules *)

LEMMA DefaultsRules == Defaults \in Rules
<1>1. 6000 \in Int /\ 1572864 \in Int
  BY SMT
<1> QED
  BY SMT, <1>1 DEF Defaults, Rules, Text, Scales, Codecs

LEMMA RuleTypes ==
  ASSUME NEW r \in Rules, NEW kind \in Kind, NEW value, Allowed(kind, value)
  PROVE  [r EXCEPT ![kind] = RuleOf(kind, value)] \in Rules
<1>1. CASE kind = "scale"
  <2>1. value \in Scales
    BY <1>1 DEF Allowed
  <2>2. RuleOf(kind, value) \in Text
    BY <1>1, <2>1 DEF RuleOf, Text
  <2> QED
    BY <1>1, <2>2 DEF Rules
<1>2. CASE kind = "codec"
  <2>1. value \in Codecs
    BY <1>2 DEF Allowed
  <2>2. RuleOf(kind, value) \in Text
    BY <1>2, <2>1 DEF RuleOf, Text
  <2> QED
    BY <1>2, <2>2 DEF Rules
<1>3. CASE kind = "length"
  <2>1. value \in Int
    BY <1>3 DEF Allowed, MinClipLengthSecs, MaxClipLengthSecs
  <2> QED
    BY <1>3, <2>1 DEF RuleOf, Rules
<1>4. CASE kind = "size"
  <2>1. value \in Int
    BY SMT, <1>4, SizeLimits DEF Allowed
  <2> QED
    BY <1>4, <2>1 DEF RuleOf, Rules
<1> QED
  BY <1>1, <1>2, <1>3, <1>4 DEF Kind

(* The press that sets a rule *)
LEMMA AtRule ==
  ASSUME TypeOK, NEW p \in Press, proc[p].pc = "rule"
  PROVE  /\ IsPress(proc[p]) /\ proc[p].cam \in Camera /\ proc[p].b \notin Opening
         /\ proc[p].b.arg[1] \in Kind /\ Allowed(proc[p].b.arg[1], proc[p].b.arg[2])
         /\ proc[p].b.arg[2] \in Offered[proc[p].b.arg[1]]
<1>1. IsPress(proc[p]) /\ proc[p].b \notin Opening /\ IsButton(proc[p].b) /\ proc[p].b.do = "set"
      /\ proc[p].cam \in Camera
  BY AtPress DEF IsPress
<1>2. PICK k \in Kind : proc[p].b.arg \in {k} \X Offered[k]
  BY <1>1 DEF IsButton, OfValue
<1> QED
  BY <1>1, <1>2, CameraAssumption

LEMMA TypeOKActs ==
  ASSUME TypeOK, NEW p \in Press, proc[p].pc = "rule" => clip[proc[p].cam] # NoEntry,
         Subscribe(p) \/ Remove(p) \/ Snap(p) \/ Ensure(p) \/ New(p) \/ RuleSet(p)
  PROVE  TypeOK'
<1> USE TypeOKParts, PartsTypeOK
<1>1. IsPress(proc[p]) /\ proc[p].by \in User /\ proc[p].b \notin Opening /\ IsButton(proc[p].b)
      /\ proc[p].cam \in Camera /\ proc[p].class \in Class /\ proc[p].save \in BOOLEAN
  <2>1. proc[p].pc \in {"act", "new", "rule"}
    BY DEF Subscribe, Remove, Snap, Ensure, New, RuleSet
  <2> QED
    BY <2>1, AtPress DEF IsPress
<1>2. CASE Subscribe(p)
  <2>1. ProcOK'
    BY <1>1, <1>2, PressGoesOn, Goes DEF Subscribe
  <2>2. proc[p].b.arg[2] \in User
    BY <1>1, <1>2 DEF Subscribe, IsButton
  <2>3. RecordsOK' /\ MenusOK'
    BY <1>1, <1>2, <2>2 DEF Subscribe, RecordsOK, MenusOK
  <2> QED
    BY <2>1, <2>3
<1>3. CASE Remove(p)
  <2>1. SavesRemoval(<<proc[p].cam, proc[p].class>> \in subs[proc[p].by]) \in BOOLEAN
    BY DEF SavesRemoval
  <2>2. ProcOK'
    BY <1>1, <1>3, <2>1, PressGoesOn, Goes DEF Remove
  <2>3. RecordsOK' /\ MenusOK'
    BY <1>1, <1>3 DEF Remove, RecordsOK, MenusOK
  <2> QED
    BY <2>2, <2>3
<1>4. CASE Snap(p)
  BY <1>1, <1>4, TypeOKReply DEF Snap
<1>5. CASE Ensure(p)
  <2>1. IsPress([proc[p] EXCEPT !.pc = IF clip[proc[p].cam] = NoEntry THEN "new" ELSE "rule"])
    BY <1>1, <1>5, PressGoesOn DEF Ensure
  <2> QED
    BY <1>5, <2>1, TypeOKGoes DEF Ensure, Step
<1>6. CASE New(p)
  <2>1. proc[p].b.do = "set"
    BY <1>1, <1>6 DEF New, IsPress
  <2>2. ProcOK'
    BY <1>1, <1>6, <2>1, PressGoesOn, Goes DEF New, Step
  <2>3. RecordsOK' /\ MenusOK'
    BY <1>1, <1>6, DefaultsRules DEF New, NewEntry, RecordsOK, MenusOK
  <2> QED
    BY <2>2, <2>3
<1>7. CASE RuleSet(p)
  <2>1. ProcOK'
    BY <1>1, <1>7, PressGoesOn, Goes DEF RuleSet
  <2>2. proc[p].b.arg[1] \in Kind /\ Allowed(proc[p].b.arg[1], proc[p].b.arg[2])
    BY <1>7, AtRule DEF RuleSet
  <2> DEFINE rule == RuleOf(proc[p].b.arg[1], proc[p].b.arg[2])
             entry == [clip[proc[p].cam] EXCEPT ![proc[p].b.arg[1]] = rule]
  <2>3. clip[proc[p].cam] \in Rules
    BY <1>1, <1>7 DEF TypeOK, RuleSet
  <2>4. entry \in Rules
    BY <2>2, <2>3, RuleTypes
  <2>5. clip' = [clip EXCEPT ![proc[p].cam] = entry] /\ UNCHANGED <<cams, admins, subs, menu, taps, outdated>>
        /\ chosen' = [chosen EXCEPT ![<<proc[p].cam, proc[p].b.arg[1]>>] = {rule}]
        /\ unsaved' \in BOOLEAN
    BY <1>7 DEF RuleSet, RecordsOK
  <2> HIDE DEF entry, rule
  <2>6. RecordsOK' /\ MenusOK'
    BY <1>1, <2>4, <2>5 DEF RecordsOK, MenusOK
  <2> QED
    BY <2>1, <2>6
<1> QED
  BY <1>2, <1>3, <1>4, <1>5, <1>6, <1>7

LEMMA TypeOKAnswers ==
  ASSUME TypeOK, NEW p \in Press, Answer(p) \/ Save(p) \/ Edit(p) PROVE TypeOK'
<1> USE TypeOKParts, PartsTypeOK
<1>1. CASE Answer(p)
  <2> DEFINE q == proc[p]
  <2>1. IsPress(q) /\ q.by \in User /\ q.b \notin Opening /\ IsButton(q.b) /\ q.pc = "answer"
    BY <1>1, AtPress DEF Answer, IsPress
  <2>2. q.b.place \in Nat \ {0} /\ (q.b.do = "subscribe" => q.b.arg \in Class \X User)
    BY <2>1 DEF IsButton
  <2>3. \A b \in MenuNow(q) : IsButton(b)
    <3>1. CASE q.b.do = "subscribe"
      <4>1. \A b \in EachCamera("subscribe", q.b.arg) : IsButton(b)
        BY <2>2, <3>1, SubscribeTypes
      <4> QED
        BY <3>1, <4>1 DEF MenuNow
    <3>2. CASE q.b.do # "subscribe" /\ q.b.place \notin DOMAIN cams
      BY <3>2 DEF MenuNow
    <3>3. CASE q.b.do = "set" /\ q.b.place \in DOMAIN cams
      <4>1. q.cam \in Camera
        BY <2>1, <3>3 DEF IsPress
      <4>2. MenuNow(q) = ClipMenu(q.b.place, q.cam)
        BY <3>3 DEF MenuNow
      <4> QED
        BY <2>1, <2>2, <4>1, <4>2, CameraMenuTypes
    <3>4. CASE q.b.do \notin {"subscribe", "set"} /\ q.b.place \in DOMAIN cams
      <4>1. Here(q.b) \in Camera
        BY <3>4, Places DEF Here
      <4>2. MenuNow(q) = CameraMenu(q.by, q.b.place, Here(q.b))
        BY <3>4 DEF MenuNow
      <4> QED
        BY <2>1, <2>2, <4>1, <4>2, CameraMenuTypes
    <3> QED
      BY <3>1, <3>2, <3>3, <3>4
  <2>4. ProcOK'
    BY <1>1, <2>1, <2>3, Replies DEF Answer
  <2>5. outdated' \subseteq Press \cup User /\ taps' \in 0 .. MaxTaps
    BY <1>1 DEF Answer, UNCHANGEDState, RecordsOK
  <2> QED
    BY <1>1, <2>4, <2>5, OnlyProc DEF Answer, UNCHANGEDState
<1>2. CASE Save(p)
  <2>1. IsReply(proc[p])
    BY <1>2, AtReply DEF Save
  <2>2. IsReply([proc[p] EXCEPT !.pc = "edit"])
    BY <2>1 DEF IsReply
  <2>3. ProcOK'
    BY <1>2, <2>2, Goes DEF Save, Step
  <2> QED
    BY <1>2, <2>3 DEF Save, RecordsOK, MenusOK
<1>3. CASE Edit(p)
  <2>1. IsReply(proc[p])
    BY <1>3, AtReply DEF Edit
  <2>2. ProcOK'
    BY <1>3, Goes DEF Edit
  <2>3. MenusOK'
    BY <1>3, <2>1 DEF Edit, MenusOK, IsReply
  <2>4. RecordsOK'
    BY <1>3, <2>1 DEF Edit, UNCHANGEDState, UNCHANGEDRecords, RecordsOK, IsReply
  <2> QED
    BY <2>2, <2>3, <2>4
<1> QED
  BY <1>1, <1>2, <1>3

LEMMA TypeOKAround ==
  ASSUME TypeOK, Refresh \/ \E a \in Manager : Role(a) PROVE TypeOK'
<1> USE TypeOKParts, PartsTypeOK
<1>1. CASE Refresh
  BY <1>1, CameraAssumption DEF Refresh, UNCHANGEDState, UNCHANGEDRecords, ProcOK, MenusOK, RecordsOK
<1>2. ASSUME NEW a \in Manager, Role(a) PROVE TypeOK'
  BY <1>2 DEF Role, UNCHANGEDState, UNCHANGEDRecords, ProcOK, MenusOK, RecordsOK
<1> QED
  BY <1>1, <1>2

LEMMA TypeOKInit == Init => TypeOK
<1> SUFFICES ASSUME Init PROVE TypeOK
  OBVIOUS
<1>1. cams \in Seq(Camera) /\ admins \subseteq Manager /\ clip \in [Camera -> Rules \cup {NoEntry}]
  BY CameraAssumption DEF Init
<1>2. subs \in [User -> SUBSET (Camera \X Class)]
  BY CameraAssumption DEF Init, Class
<1>3. taps \in 0 .. MaxTaps
  BY CameraAssumption DEF Init
<1>4. unsaved \in BOOLEAN /\ outdated = {}
  BY DEF Init
<1> QED
  BY <1>1, <1>2, <1>3, <1>4 DEF Init, TypeOK

-----------------------------------------------------------------------------
(* What was chosen and what was saved.  A press that sets a rule has an     *)
(* entry to set it in, which nobody takes away; after a change there is a   *)
(* press that will save it.                                                 *)

EntryMade == \A p \in Press : proc[p].pc = "rule" => clip[proc[p].cam] # NoEntry
WillSave(q) ==
  q # Idle /\ (q.pc \in {"rule", "save"} \/ (q.pc = "answer" /\ q.save))
SomeoneSaves == unsaved => \E p \in Press : WillSave(proc[p])

OfferedRules(kind) == {RuleOf(kind, v) : v \in Offered[kind]}
ChoicesEntered ==
  \A cam \in Camera, kind \in Kind :
    \A rule \in chosen[<<cam, kind>>] :
      clip[cam] # NoEntry /\ clip[cam][kind] = rule /\ rule \in OfferedRules(kind)

Kept == TypeOK /\ EntryMade /\ ChoicesEntered /\ SomeoneSaves

(* Steps that change none of the records *)
LEMMA KeptOthers ==
  ASSUME Kept, TypeOK', NEW p \in Press, NEW q, Goto(p, q), UNCHANGED <<clip, chosen, unsaved>>,
         q.pc = "rule" => clip[q.cam] # NoEntry, WillSave(proc[p]) => WillSave(q)
  PROVE  Kept'
<1>1. proc'[p] = q /\ \A o \in Press \ {p} : proc'[o] = proc[o]
  BY DEF Goto, Kept, TypeOK
<1>2. EntryMade'
  BY <1>1 DEF Kept, EntryMade
<1>3. SomeoneSaves'
  BY <1>1 DEF Kept, SomeoneSaves
<1> QED
  BY <1>2, <1>3 DEF Kept, ChoicesEntered

LEMMA KeptReply ==
  ASSUME Kept, TypeOK', NEW p \in Press, NEW m, Answered(p, m), UNCHANGED <<clip, chosen, unsaved>>,
         ~WillSave(proc[p])
  PROVE  Kept'
BY KeptOthers DEF Answered, Reply

LEMMA KeptLooks ==
  ASSUME Kept, NEW p \in Press,
         Refuse(p) \/ Open(p) \/ OpenCamera(p) \/ OpenPresets(p) \/ Unsubscribe(p) \/ Look(p)
         \/ LookAgain(p)
  PROVE  Kept'
<1>1. TypeOK' /\ UNCHANGED <<clip, chosen, unsaved>>
  BY TypeOKLooks
     DEF Kept, Refuse, Open, OpenCamera, OpenPresets, Unsubscribe, Look, LookAgain, UNCHANGEDState,
         UNCHANGEDRecords
<1>2. proc[p].pc \in {"tapped", "again"}
  BY DEF Refuse, Open, OpenCamera, OpenPresets, Unsubscribe, Look, LookAgain, LookedUp, Tapped
<1>3. IsPress(proc[p]) /\ ~WillSave(proc[p])
  BY <1>2, AtPress DEF Kept, WillSave
<1>4. PICK q : Goto(p, q) /\ q.pc # "rule"
  <2>1. CASE Refuse(p) \/ Open(p) \/ OpenCamera(p) \/ OpenPresets(p)
    BY <2>1 DEF Refuse, Open, OpenCamera, OpenPresets, Answered, Reply
  <2>4. ASSUME Step(p, "answer") PROVE \E q : Goto(p, q) /\ q.pc # "rule"
    <3>1. [proc[p] EXCEPT !.pc = "answer"].pc = "answer"
      BY <1>3 DEF IsPress
    <3> QED
      BY <2>4, <3>1 DEF Step
  <2>2. CASE Unsubscribe(p)
    <3>1. ASSUME NEW c, Goto(p, [proc[p] EXCEPT !.pc = "again", !.class = c])
          PROVE  \E q : Goto(p, q) /\ q.pc # "rule"
      <4>1. [proc[p] EXCEPT !.pc = "again", !.class = c].pc = "again"
        BY <1>3 DEF IsPress
      <4> QED
        BY <3>1, <4>1
    <3>2. ASSUME NEW m, Answered(p, m) PROVE \E q : Goto(p, q) /\ q.pc # "rule"
      BY <3>2 DEF Answered, Reply
    <3> QED
      BY <2>2, <2>4, <3>1, <3>2 DEF Unsubscribe
  <2>3. ASSUME NEW c, Choose(p, c) PROVE \E q : Goto(p, q) /\ q.pc # "rule"
    <3>1. [proc[p] EXCEPT !.pc = "act", !.cam = Sees(proc[p].b), !.class = c].pc = "act"
      BY <1>3 DEF IsPress
    <3> QED
      BY <2>3, <3>1 DEF Choose
  <2>5. CASE Look(p) \/ LookAgain(p)
    BY <2>3, <2>4, <2>5 DEF Look, LookAgain, Answered, Reply
  <2> QED
    BY <2>1, <2>2, <2>5
<1> QED
  BY <1>1, <1>3, <1>4, KeptOthers

LEMMA KeptActs ==
  ASSUME Kept, NEW p \in Press,
         Subscribe(p) \/ Remove(p) \/ Snap(p) \/ Ensure(p) \/ New(p) \/ RuleSet(p)
  PROVE  Kept'
<1>1. TypeOK /\ TypeOK'
  BY TypeOKActs DEF Kept, EntryMade
<1>2. proc[p].pc \in {"act", "new", "rule"}
  BY DEF Subscribe, Remove, Snap, Ensure, New, RuleSet
<1>3. IsPress(proc[p]) /\ DOMAIN proc = Press /\ proc[p].cam \in Camera
  BY <1>1, <1>2, AtPress DEF IsPress, TypeOK
<1>4. CASE Subscribe(p) \/ Remove(p)
  <2>1. PICK save : Goto(p, [proc[p] EXCEPT !.pc = "answer", !.save = save]) /\ (unsaved' => unsaved \/ save)
    <3>1. CASE Subscribe(p)
      BY <3>1 DEF Subscribe
    <3>2. CASE Remove(p)
      <4>1. unsaved' => unsaved \/ <<proc[p].cam, proc[p].class>> \in subs[proc[p].by]
        BY <1>1, <3>2 DEF Remove, TypeOK
      <4> QED
        BY <3>2, <4>1 DEF Remove, SavesRemoval
    <3> QED
      BY <1>4, <3>1, <3>2
  <2> DEFINE q == [proc[p] EXCEPT !.pc = "answer", !.save = save]
  <2>2. q.pc = "answer" /\ q.save = save /\ q # Idle
    BY <1>3 DEF IsPress, Idle
  <2>3. proc'[p] = q /\ \A o \in Press \ {p} : proc'[o] = proc[o]
    BY <1>3, <2>1 DEF Goto
  <2>4. UNCHANGED <<clip, chosen>> /\ ~WillSave(proc[p])
    BY <1>4 DEF Subscribe, Remove, WillSave
  <2> HIDE DEF q
  <2>5. SomeoneSaves'
    BY <2>1, <2>2, <2>3, <2>4 DEF Kept, SomeoneSaves, WillSave
  <2>6. EntryMade' /\ ChoicesEntered'
    BY <2>2, <2>3, <2>4 DEF Kept, EntryMade, ChoicesEntered
  <2> QED
    BY <1>1, <2>5, <2>6 DEF Kept
<1>5. CASE Snap(p)
  BY <1>1, <1>5, KeptReply DEF Snap, UNCHANGEDState, UNCHANGEDRecords, WillSave
<1>6. CASE Ensure(p)
  <2> DEFINE q == [proc[p] EXCEPT !.pc = IF clip[proc[p].cam] = NoEntry THEN "new" ELSE "rule"]
  <2>1. q.cam = proc[p].cam /\ q.pc = IF clip[proc[p].cam] = NoEntry THEN "new" ELSE "rule"
    BY <1>3 DEF IsPress
  <2>2. Goto(p, q) /\ ~WillSave(proc[p]) /\ UNCHANGED <<clip, chosen, unsaved>>
    BY <1>6 DEF Ensure, Step, WillSave, UNCHANGEDState, UNCHANGEDRecords
  <2> HIDE DEF q
  <2> QED
    BY <1>1, <2>1, <2>2, KeptOthers
<1>7. CASE New(p)
  <2> DEFINE q == [proc[p] EXCEPT !.pc = "rule"]
             cam == proc[p].cam
  <2>1. q.pc = "rule" /\ q.cam = cam /\ q # Idle
    BY <1>3 DEF IsPress, Idle
  <2>2. proc'[p] = q /\ \A o \in Press \ {p} : proc'[o] = proc[o]
    BY <1>3, <1>7 DEF New, Step, Goto
  <2> HIDE DEF q
  <2>3. WillSave(proc'[p])
    BY <2>1, <2>2 DEF WillSave
  <2>4. Defaults # NoEntry
    BY DefaultsRules, CameraAssumption
  <2>5. /\ clip'[cam] # NoEntry
        /\ \A c \in Camera : clip[c] # NoEntry => clip'[c] = clip[c]
    BY <1>1, <1>3, <1>7, <2>4 DEF New, NewEntry, TypeOK
  <2>6. EntryMade'
    <3> SUFFICES ASSUME NEW o \in Press, proc'[o].pc = "rule" PROVE clip'[proc'[o].cam] # NoEntry
      BY DEF EntryMade
    <3>1. CASE o = p
      BY <2>1, <2>2, <2>5, <3>1
    <3>2. CASE o # p
      <4>1. proc[o].pc = "rule" /\ proc'[o] = proc[o]
        BY <2>2, <3>2
      <4>2. proc[o].cam \in Camera /\ clip[proc[o].cam] # NoEntry
        BY <1>1, <4>1, AtRule DEF Kept, EntryMade
      <4> QED
        BY <2>5, <4>1, <4>2
    <3> QED
      BY <3>1, <3>2
  <2>7. ChoicesEntered'
    BY <1>7, <2>5 DEF Kept, ChoicesEntered, New
  <2> QED
    BY <1>1, <2>3, <2>6, <2>7 DEF Kept, SomeoneSaves
<1>8. CASE RuleSet(p)
  <2> DEFINE q == [proc[p] EXCEPT !.pc = "answer", !.save = TRUE]
             cam == proc[p].cam
             kind == proc[p].b.arg[1]
             rule == RuleOf(proc[p].b.arg[1], proc[p].b.arg[2])
  <2>1. q.pc = "answer" /\ q.save = TRUE /\ q # Idle
    BY <1>3 DEF IsPress, Idle
  <2>2. proc'[p] = q /\ \A o \in Press \ {p} : proc'[o] = proc[o]
    BY <1>3, <1>8 DEF RuleSet, Goto
  <2> HIDE DEF q
  <2>3. WillSave(proc'[p])
    BY <2>1, <2>2 DEF WillSave
  <2>4. /\ clip' = [clip EXCEPT ![cam] = [clip[cam] EXCEPT ![kind] = rule]]
        /\ chosen' = [chosen EXCEPT ![<<cam, kind>>] = {rule}]
    BY <1>8 DEF RuleSet
  <2>5. clip[cam] \in Rules /\ kind \in Kind /\ Allowed(kind, proc[p].b.arg[2])
    BY <1>1, <1>3, <1>8, AtRule DEF RuleSet, Kept, EntryMade, TypeOK
  <2>6. [clip[cam] EXCEPT ![kind] = rule] \in Rules
    BY <2>5, RuleTypes
  <2>7. [clip[cam] EXCEPT ![kind] = rule][kind] = rule
        /\ \A k \in Kind \ {kind} : [clip[cam] EXCEPT ![kind] = rule][k] = clip[cam][k]
    <3>1. DOMAIN clip[cam] = Kind
      BY <2>5 DEF Rules, Kind
    <3> QED
      BY <2>5, <3>1
  <2>11. rule \in OfferedRules(kind)
    BY <1>1, <1>8, AtRule DEF RuleSet, OfferedRules
  <2> HIDE DEF rule
  <2>8. \A c \in Camera : clip[c] # NoEntry => clip'[c] # NoEntry
    BY <1>1, <2>4, <2>6, CameraAssumption DEF TypeOK
  <2>9. ChoicesEntered'
    <3> SUFFICES ASSUME NEW c \in Camera, NEW k \in Kind, NEW r \in chosen'[<<c, k>>]
                 PROVE  clip'[c] # NoEntry /\ clip'[c][k] = r /\ r \in OfferedRules(k)
      BY DEF ChoicesEntered
    <3>1. clip' \in [Camera -> Rules \cup {NoEntry}] /\ DOMAIN chosen = Camera \X Kind
          /\ clip \in [Camera -> Rules \cup {NoEntry}]
      BY <1>1 DEF TypeOK
    <3>2. clip'[cam] = [clip[cam] EXCEPT ![kind] = rule]
      BY <1>3, <2>4, <3>1
    <3>3. CASE c = cam /\ k = kind
      <4>1. r = rule
        BY <2>4, <3>1, <3>3
      <4> QED
        BY <2>6, <2>7, <2>11, <3>2, <3>3, <4>1, CameraAssumption
    <3>4. CASE ~(c = cam /\ k = kind)
      <4>1. <<c, k>> # <<cam, kind>>
        BY <3>4
      <4>2. r \in chosen[<<c, k>>]
        BY <2>4, <3>1, <4>1
      <4>3. clip[c] # NoEntry /\ clip[c][k] = r /\ r \in OfferedRules(k)
        BY <4>2 DEF Kept, ChoicesEntered
      <4>4. CASE c = cam
        BY <2>6, <2>7, <3>2, <3>4, <4>3, <4>4, CameraAssumption
      <4>5. CASE c # cam
        BY <2>4, <3>1, <4>3, <4>5
      <4> QED
        BY <4>4, <4>5
    <3> QED
      BY <3>3, <3>4
  <2>10. EntryMade'
    <3> SUFFICES ASSUME NEW o \in Press, proc'[o].pc = "rule" PROVE clip'[proc'[o].cam] # NoEntry
      BY DEF EntryMade
    <3>1. proc[o].pc = "rule" /\ proc'[o] = proc[o]
      BY <2>1, <2>2
    <3>2. proc[o].cam \in Camera /\ clip[proc[o].cam] # NoEntry
      BY <1>1, <3>1, AtRule DEF Kept, EntryMade
    <3> QED
      BY <2>8, <3>1, <3>2
  <2> QED
    BY <1>1, <2>3, <2>9, <2>10 DEF Kept, SomeoneSaves
<1> QED
  BY <1>4, <1>5, <1>6, <1>7, <1>8

LEMMA KeptAnswers ==
  ASSUME Kept, NEW p \in Press, Answer(p) \/ Save(p) \/ Edit(p) PROVE Kept'
<1>1. TypeOK /\ TypeOK' /\ UNCHANGED <<clip, chosen>>
  BY TypeOKAnswers DEF Kept, Answer, Save, Edit, UNCHANGEDState, UNCHANGEDRecords
<1>2. CASE Answer(p)
  <2> DEFINE q == [pc |-> IF proc[p].save THEN "save" ELSE "edit", by |-> proc[p].by,
                   menu |-> MenuNow(proc[p])]
  <2>1. Goto(p, q) /\ unsaved' = unsaved /\ proc[p].pc = "answer"
    BY <1>2 DEF Answer, Reply, UNCHANGEDState, UNCHANGEDRecords
  <2>2. q.pc # "rule" /\ (WillSave(proc[p]) => WillSave(q))
    BY <2>1 DEF WillSave, Idle
  <2> HIDE DEF q
  <2> QED
    BY <1>1, <2>1, <2>2, KeptOthers
<1>3. CASE Save(p)
  <2>1. IsReply(proc[p]) /\ DOMAIN proc = Press
    BY <1>1, <1>3, AtReply DEF Save, TypeOK
  <2> DEFINE q == [proc[p] EXCEPT !.pc = "edit"]
  <2>2. q.pc = "edit"
    BY <2>1 DEF IsReply
  <2>3. proc'[p] = q /\ \A o \in Press \ {p} : proc'[o] = proc[o]
    BY <1>3, <2>1 DEF Save, Step, Goto
  <2> HIDE DEF q
  <2>4. ~unsaved'
    BY <1>3 DEF Save
  <2>5. EntryMade'
    BY <1>1, <2>2, <2>3 DEF Kept, EntryMade
  <2> QED
    BY <1>1, <2>4, <2>5 DEF Kept, SomeoneSaves, ChoicesEntered
<1>4. CASE Edit(p)
  <2>1. Goto(p, Idle) /\ unsaved' = unsaved /\ ~WillSave(proc[p])
    BY <1>4 DEF Edit, WillSave, UNCHANGEDState, UNCHANGEDRecords
  <2> QED
    BY <1>1, <2>1, KeptOthers DEF Idle
<1> QED
  BY <1>2, <1>3, <1>4

LEMMA KeptTap == ASSUME Kept, NEW p \in Press, NEW u \in Tapper, Tap(p, u) PROVE Kept'
<1>1. TypeOK'
  BY TypeOKTap DEF Kept
<1>2. PICK q : Goto(p, q) /\ q.pc = "tapped"
  BY DEF Tap
<1>3. ~WillSave(proc[p]) /\ UNCHANGED <<clip, chosen, unsaved>>
  BY DEF Tap, WillSave, UNCHANGEDRecords
<1> QED
  BY <1>1, <1>2, <1>3, KeptOthers

LEMMA KeptNext == Kept /\ [Next]_vars => Kept'
<1> SUFFICES ASSUME Kept, [Next]_vars PROVE Kept'
  OBVIOUS
<1>1. CASE UNCHANGED vars
  BY <1>1 DEF vars, Kept, TypeOK, EntryMade, ChoicesEntered, SomeoneSaves, WillSave
<1>2. CASE Refresh \/ \E a \in Manager : Role(a)
  <2>1. TypeOK' /\ UNCHANGED <<proc, clip, chosen, unsaved>>
    BY <1>2, TypeOKAround DEF Kept, Refresh, Role, UNCHANGEDState, UNCHANGEDRecords
  <2> QED
    BY <2>1 DEF Kept, EntryMade, ChoicesEntered, SomeoneSaves, WillSave
<1>3. ASSUME NEW p \in Press, Serve(p) PROVE Kept'
  BY <1>3, KeptLooks, KeptActs, KeptAnswers DEF Serve
<1> QED
  BY <1>1, <1>2, <1>3, KeptTap DEF Next

LEMMA KeptInit == Init => Kept
BY TypeOKInit DEF Init, Kept, EntryMade, ChoicesEntered, SomeoneSaves, Idle

LEMMA KeptHolds == Spec => []Kept
BY KeptInit, KeptNext, PTL DEF Spec

(* The list, the records, the menus and the goroutines keep their types.    *)
THEOREM TypeOKHolds == Spec => []TypeOK
<1>1. Kept => TypeOK
  BY DEF Kept
<1> QED
  BY <1>1, KeptHolds, PTL

(* However many cameras and presses: a setting an admin gave stays until    *)
(* another is given, as New leaves an entry that is there                   *)
(* (EnsureCameraSettings), and GetCameraClipSettings finds it as it is.     *)
THEOREM ChoicesKeptHolds == Spec => []ChoicesKept
<1>1. Kept => ChoicesKept
  <2> SUFFICES ASSUME Kept, NEW cam \in Camera, NEW kind \in Kind,
                      NEW rule \in chosen[<<cam, kind>>]
               PROVE  /\ clip[cam] # NoEntry /\ clip[cam][kind] = rule
                      /\ ClipSettingsOf(RulesOf(cam))[kind] = rule
    BY DEF ChoicesKept
  <2>1. clip[cam] # NoEntry /\ clip[cam][kind] = rule /\ rule \in OfferedRules(kind)
    BY DEF Kept, ChoicesEntered
  <2>2. clip[cam] \in Rules /\ RulesOf(cam) = clip[cam]
    BY <2>1 DEF Kept, TypeOK, RulesOf
  <2>3. PICK v \in Offered[kind] : clip[cam][kind] = RuleOf(kind, v)
    BY <2>1 DEF OfferedRules
  <2> QED
    BY <2>1, <2>2, <2>3, SettingsKept, CameraAssumption
<1> QED
  BY <1>1, KeptHolds, PTL

(* When no press is being served, the state file has all that was changed   *)
(* (HandleCallback saves what a handler says it changed).                   *)
THEOREM ChangesSavedHolds == Spec => []ChangesSaved
<1>1. Kept => ChangesSaved
  BY DEF Kept, SomeoneSaves, ChangesSaved, WillSave, Idling
<1> QED
  BY <1>1, KeptHolds, PTL

(* For every camera and everything a state file may say: what SecuritySpy   *)
(* is asked for is within the limits, even, and below half the native       *)
(* height unless it is native (GetCameraClipSettings, VideoClipOps).        *)
THEOREM ClipsWithinLimitsHolds == Spec => []ClipsWithinLimits
<1>1. Unset \in Rules
  BY DEF Unset, Rules, Text
<1>2. TypeOK => ClipsWithinLimits
  <2> SUFFICES ASSUME TypeOK, NEW cam \in Camera
               PROVE  /\ ClipSettingsOf(RulesOf(cam)) \in Settings
                      /\ Recompressed(Native[cam], ClipSettingsOf(RulesOf(cam)))
    BY DEF ClipsWithinLimits
  <2>1. RulesOf(cam) \in Rules
    BY <1>1 DEF RulesOf, TypeOK
  <2>2. Native[cam] \in [width: Nat, height: Nat, codec: Codecs \ {"auto"}]
    BY CameraAssumption
  <2> QED
    BY <2>1, <2>2, SettingsLimits, ClipsRecompressed
<1> QED
  BY <1>2, TypeOKHolds, PTL

-----------------------------------------------------------------------------
(* Places.  What was made since the list was last replaced names the        *)
(* cameras by the places they have.                                         *)

InPlace(b) == b.place \in DOMAIN cams /\ cams[b.place] = b.cam
UpToDate(q) ==
  /\ q.pc \in {"tapped", "again"} /\ q.b.do \in OfCamera => InPlace(q.b)
  /\ q.pc \in {"act", "new", "rule"} \/ (q.pc = "answer" /\ q.b.do = "set") =>
       q.b.place \in DOMAIN cams /\ q.cam = cams[q.b.place]
  /\ q.pc \in {"save", "edit"} => \A b \in q.menu : InPlace(b)
PressesInTime == \A p \in Press : p \notin outdated => UpToDate(proc[p])
MenusInTime == \A u \in User : u \notin outdated => \A b \in menu[u] : InPlace(b)
InTime == TypeOK /\ PressesInTime /\ MenusInTime

LEMMA IdleUpToDate == UpToDate(Idle)
BY DEF UpToDate, Idle

LEMMA InTimeOthers ==
  ASSUME InTime, TypeOK', NEW p \in Press, NEW q, Goto(p, q), UNCHANGED <<cams, menu>>,
         outdated' = outdated \/ outdated' = outdated \ {p},
         p \notin outdated' => UpToDate(q)
  PROVE  InTime'
<1>1. proc'[p] = q /\ \A o \in Press \ {p} : proc'[o] = proc[o]
  BY DEF Goto, InTime, TypeOK
<1>2. \A r : UpToDate(r) => UpToDate(r)'
  BY DEF UpToDate, InPlace
<1>3. PressesInTime'
  <2> SUFFICES ASSUME NEW o \in Press, o \notin outdated' PROVE UpToDate(proc[o])'
    BY DEF PressesInTime
  <2>1. CASE o = p
    BY <1>1, <2>1 DEF UpToDate, InPlace
  <2>2. CASE o # p
    BY <1>1, <2>2 DEF InTime, PressesInTime, UpToDate, InPlace
  <2> QED
    BY <2>1, <2>2
<1>4. MenusInTime'
  <2>1. \A u \in User : u \notin outdated' => u \notin outdated
    BY CameraAssumption
  <2> QED
    BY <2>1 DEF InTime, MenusInTime, InPlace
<1> QED
  BY <1>3, <1>4 DEF InTime

(* Menus made from the list *)
LEMMA MadeInPlace ==
  ASSUME NEW i \in DOMAIN cams, NEW u
  PROVE  /\ \A do, arg : \A b \in EachCamera(do, arg) : InPlace(b)
         /\ \A b \in CameraMenu(u, i, cams[i]) : InPlace(b)
         /\ \A b \in TriggerMenu(u, i, cams[i]) : InPlace(b)
         /\ \A b \in PickMenu(u, i, cams[i]) : InPlace(b)
         /\ \A b \in ClipMenu(i, cams[i]) : InPlace(b)
         /\ \A k : \A b \in PresetMenu(i, cams[i], k) : InPlace(b)
BY DEF InPlace, EachCamera, CameraMenu, TriggerMenu, PickMenu, ClipMenu, PresetMenu, Button

LEMMA EachInPlace == \A do, arg : \A b \in EachCamera(do, arg) : InPlace(b)
BY DEF InPlace, EachCamera, Button

LEMMA InTimeReply ==
  ASSUME InTime, TypeOK', NEW p \in Press, NEW pc \in {"save", "edit"}, NEW m, Reply(p, pc, m),
         UNCHANGED <<cams, menu>>, outdated' = outdated \/ outdated' = outdated \ {p},
         p \notin outdated' => \A b \in m : InPlace(b)
  PROVE  InTime'
<1> DEFINE q == [pc |-> pc, by |-> proc[p].by, menu |-> m]
<1>1. Goto(p, q) /\ (p \notin outdated' => UpToDate(q))
  BY DEF Reply, UpToDate
<1> HIDE DEF q
<1> QED
  BY <1>1, InTimeOthers

LEMMA InTimeLooks ==
  ASSUME InTime, NEW p \in Press,
         Refuse(p) \/ Open(p) \/ OpenCamera(p) \/ OpenPresets(p) \/ Unsubscribe(p) \/ Look(p)
         \/ LookAgain(p)
  PROVE  InTime'
<1>1. TypeOK /\ TypeOK' /\ UNCHANGED <<cams, menu>>
  BY TypeOKLooks
     DEF InTime, Refuse, Open, OpenCamera, OpenPresets, Unsubscribe, Look, LookAgain
<1>2. proc[p].pc \in {"tapped", "again"} /\ IsPress(proc[p])
  BY <1>1, AtPress
     DEF Refuse, Open, OpenCamera, OpenPresets, Unsubscribe, Look, LookAgain, LookedUp, Tapped
<1>3. p \notin outdated /\ proc[p].b.do \in OfCamera => InPlace(proc[p].b)
  BY <1>2 DEF InTime, PressesInTime, UpToDate
<1>4. ASSUME NEW c, Choose(p, c), proc[p].b.place \in DOMAIN cams PROVE InTime'
  <2> DEFINE q == [proc[p] EXCEPT !.pc = "act", !.cam = Sees(proc[p].b), !.class = c]
  <2>1. q.pc = "act" /\ q.cam = cams[proc[p].b.place] /\ q.b = proc[p].b
    BY <1>2 DEF IsPress, Sees, Here
  <2>2. UpToDate(q)
    BY <1>4, <2>1 DEF UpToDate
  <2>3. Goto(p, q) /\ outdated' = outdated \ {p}
    BY <1>4 DEF Choose
  <2> HIDE DEF q
  <2> QED
    BY <1>1, <2>2, <2>3, InTimeOthers
<1>5. ASSUME Step(p, "answer"), outdated' = outdated, proc[p].b.do # "set" PROVE InTime'
  <2> DEFINE q == [proc[p] EXCEPT !.pc = "answer"]
  <2>1. q.pc = "answer" /\ q.b = proc[p].b
    BY <1>2 DEF IsPress
  <2>2. UpToDate(q) /\ Goto(p, q)
    BY <1>5, <2>1 DEF UpToDate, Step
  <2> HIDE DEF q
  <2> QED
    BY <1>1, <1>5, <2>2, InTimeOthers
<1>6. CASE Refuse(p)
  BY <1>1, <1>6, InTimeReply DEF Refuse, Answered
<1>7. CASE Open(p)
  <2>1. PICK m : Answered(p, m) /\ \A b \in m : InPlace(b)
    BY <1>7, EachInPlace DEF Open
  <2> QED
    BY <1>1, <1>7, <2>1, InTimeReply DEF Open, Answered
<1>8. CASE OpenCamera(p)
  <2>1. PICK m : Answered(p, m) /\ \A b \in m : InPlace(b)
    BY <1>8, MadeInPlace DEF OpenCamera, LookedUp, Tapped, Here
  <2> QED
    BY <1>1, <1>8, <2>1, InTimeReply DEF OpenCamera, Answered
<1>9. CASE OpenPresets(p)
  <2> DEFINE b == proc[p].b
  <2>1. Answered(p, PresetMenu(b.place, b.cam, b.arg[1])) /\ outdated' = outdated
        /\ b.place \in DOMAIN cams /\ b.do \in OfCamera
    BY <1>9 DEF OpenPresets, LookedUp, Tapped, OfCamera
  <2>2. p \notin outdated => b.cam = cams[b.place]
    BY <1>3, <2>1 DEF InPlace
  <2>3. p \notin outdated' => \A x \in PresetMenu(b.place, b.cam, b.arg[1]) : InPlace(x)
    BY <2>1, <2>2, MadeInPlace
  <2> HIDE DEF b
  <2> QED
    BY <1>1, <2>1, <2>3, InTimeReply DEF Answered
<1>10. CASE Unsubscribe(p)
  <2>1. proc[p].b.do = "unsubscribe" /\ proc[p].b.place \in DOMAIN cams
    BY <1>10 DEF Unsubscribe, LookedUp, Tapped
  <2>2. ASSUME NEW c, Goto(p, [proc[p] EXCEPT !.pc = "again", !.class = c]), outdated' = outdated
        PROVE  InTime'
    <3> DEFINE q == [proc[p] EXCEPT !.pc = "again", !.class = c]
    <3>1. q.pc = "again" /\ q.b = proc[p].b
      BY <1>2 DEF IsPress
    <3>2. p \notin outdated' => UpToDate(q)
      BY <1>3, <2>1, <2>2, <3>1 DEF UpToDate
    <3> HIDE DEF q
    <3> QED
      BY <1>1, <2>2, <3>2, InTimeOthers DEF q
  <2>3. ASSUME Answered(p, PickMenu(proc[p].by, proc[p].b.place, Here(proc[p].b))),
               outdated' = outdated \ {p}
        PROVE  InTime'
    <3>1. \A b \in PickMenu(proc[p].by, proc[p].b.place, Here(proc[p].b)) : InPlace(b)
      BY <2>1, MadeInPlace DEF Here
    <3> QED
      BY <1>1, <2>3, <3>1, InTimeReply DEF Answered
  <2> QED
    BY <1>5, <1>10, <2>1, <2>2, <2>3 DEF Unsubscribe
<1>11. CASE Look(p)
  <2>1. proc[p].b.place \in DOMAIN cams
    BY <1>11 DEF Look, LookedUp
  <2> QED
    BY <1>4, <1>5, <1>11, <2>1 DEF Look
<1>12. CASE LookAgain(p)
  <2>1. proc[p].b.do = "unsubscribe"
    BY <1>2, <1>12 DEF LookAgain, IsPress
  <2>2. CASE proc[p].b.place \notin DOMAIN cams
    BY <1>1, <1>12, <2>2, InTimeReply DEF LookAgain, Answered
  <2> QED
    BY <1>4, <1>5, <1>12, <2>1, <2>2 DEF LookAgain
<1> QED
  BY <1>6, <1>7, <1>8, <1>9, <1>10, <1>11, <1>12

LEMMA InTimeActs ==
  ASSUME InTime, Kept, NEW p \in Press,
         Subscribe(p) \/ Remove(p) \/ Snap(p) \/ Ensure(p) \/ New(p) \/ RuleSet(p)
  PROVE  InTime'
<1>1. TypeOK /\ TypeOK' /\ UNCHANGED <<cams, menu, outdated>>
  BY TypeOKActs DEF Kept, EntryMade, Subscribe, Remove, Snap, Ensure, New, RuleSet
<1>2. proc[p].pc \in {"act", "new", "rule"}
  BY DEF Subscribe, Remove, Snap, Ensure, New, RuleSet
<1>3. IsPress(proc[p])
  BY <1>1, <1>2, AtPress
<1>4. p \notin outdated => proc[p].b.place \in DOMAIN cams /\ proc[p].cam = cams[proc[p].b.place]
  BY <1>2 DEF InTime, PressesInTime, UpToDate
<1>5. CASE Snap(p)
  BY <1>1, <1>5, InTimeReply DEF Snap, Answered
<1>6. ASSUME NEW pc \in {"new", "rule", "answer"}, NEW save,
             Step(p, pc) \/ Goto(p, [proc[p] EXCEPT !.pc = pc, !.save = save])
      PROVE  InTime'
  <2>1. PICK q : Goto(p, q) /\ q.pc = pc /\ q.b = proc[p].b /\ q.cam = proc[p].cam
    <3>1. /\ [proc[p] EXCEPT !.pc = pc].pc = pc /\ [proc[p] EXCEPT !.pc = pc].b = proc[p].b
          /\ [proc[p] EXCEPT !.pc = pc].cam = proc[p].cam
      BY <1>3 DEF IsPress
    <3>2. /\ [proc[p] EXCEPT !.pc = pc, !.save = save].pc = pc
          /\ [proc[p] EXCEPT !.pc = pc, !.save = save].b = proc[p].b
          /\ [proc[p] EXCEPT !.pc = pc, !.save = save].cam = proc[p].cam
      BY <1>3 DEF IsPress
    <3> QED
      BY <1>6, <3>1, <3>2 DEF Step
  <2>2. p \notin outdated' => UpToDate(q)
    BY <1>1, <1>4, <2>1 DEF UpToDate
  <2> QED
    BY <1>1, <2>1, <2>2, InTimeOthers
<1>7. CASE Subscribe(p) \/ RuleSet(p)
  BY <1>6, <1>7 DEF Subscribe, RuleSet
<1>8. CASE Remove(p)
  BY <1>6, <1>8 DEF Remove
<1>9. CASE Ensure(p) \/ New(p)
  BY <1>6, <1>9 DEF Ensure, New
<1> QED
  BY <1>5, <1>7, <1>8, <1>9

LEMMA InTimeAnswers ==
  ASSUME InTime, NEW p \in Press, Answer(p) \/ Save(p) \/ Edit(p) PROVE InTime'
<1>1. TypeOK /\ TypeOK'
  BY TypeOKAnswers DEF InTime
<1>2. CASE Answer(p)
  <2>1. proc[p].pc = "answer" /\ UNCHANGED <<cams, menu>>
        /\ outdated' = IF proc[p].b.do = "set" THEN outdated ELSE outdated \ {p}
    BY <1>2 DEF Answer
  <2>2. p \notin outdated' => \A b \in MenuNow(proc[p]) : InPlace(b)
    <3> SUFFICES ASSUME p \notin outdated' PROVE \A b \in MenuNow(proc[p]) : InPlace(b)
      OBVIOUS
    <3>1. CASE proc[p].b.do = "subscribe"
      BY <3>1, EachInPlace DEF MenuNow
    <3>2. CASE proc[p].b.do # "subscribe" /\ proc[p].b.place \notin DOMAIN cams
      BY <3>2 DEF MenuNow
    <3>3. CASE proc[p].b.do = "set" /\ proc[p].b.place \in DOMAIN cams
      <4>1. proc[p].cam = cams[proc[p].b.place]
        BY <2>1, <3>3 DEF InTime, PressesInTime, UpToDate
      <4>2. MenuNow(proc[p]) = ClipMenu(proc[p].b.place, proc[p].cam)
        BY <3>3 DEF MenuNow
      <4> QED
        BY <3>3, <4>1, <4>2, MadeInPlace
    <3>4. CASE proc[p].b.do \notin {"subscribe", "set"} /\ proc[p].b.place \in DOMAIN cams
      <4>1. MenuNow(proc[p]) = CameraMenu(proc[p].by, proc[p].b.place, cams[proc[p].b.place])
        BY <3>4 DEF MenuNow, Here
      <4> QED
        BY <3>4, <4>1, MadeInPlace
    <3> QED
      BY <3>1, <3>2, <3>3, <3>4
  <2>3. PICK pc \in {"save", "edit"} : Reply(p, pc, MenuNow(proc[p]))
    BY <1>2 DEF Answer
  <2> QED
    BY <1>1, <2>1, <2>2, <2>3, InTimeReply
<1>3. CASE Save(p)
  <2>1. IsReply(proc[p]) /\ proc[p].pc = "save"
    BY <1>1, <1>3, AtReply DEF Save
  <2> DEFINE q == [proc[p] EXCEPT !.pc = "edit"]
  <2>2. q.pc = "edit" /\ q.menu = proc[p].menu
    BY <2>1 DEF IsReply
  <2>3. Goto(p, q) /\ UNCHANGED <<cams, menu, outdated>>
    BY <1>3 DEF Save, Step
  <2>4. p \notin outdated' => UpToDate(q)
    BY <2>1, <2>2, <2>3 DEF InTime, PressesInTime, UpToDate
  <2> HIDE DEF q
  <2> QED
    BY <1>1, <2>3, <2>4, InTimeOthers
<1>4. CASE Edit(p)
  <2>1. IsReply(proc[p]) /\ proc[p].pc = "edit" /\ proc[p].by \in User
    BY <1>1, <1>4, AtReply DEF Edit, IsReply
  <2> DEFINE u == proc[p].by
  <2>2. /\ menu' = [menu EXCEPT ![u] = proc[p].menu] /\ Goto(p, Idle) /\ cams' = cams
        /\ outdated' = (IF p \in outdated THEN outdated \cup {u} ELSE outdated \ {u}) \ {p}
    BY <1>4 DEF Edit
  <2>3. p \notin User /\ u \notin Press
    BY <2>1, CameraAssumption
  <2>4. PressesInTime'
    <3> SUFFICES ASSUME NEW o \in Press, o \notin outdated' PROVE UpToDate(proc[o])'
      BY DEF PressesInTime
    <3>1. CASE o = p
      <4>1. proc'[o] = Idle
        BY <1>1, <2>2, <3>1 DEF Goto, TypeOK
      <4> QED
        BY <4>1 DEF UpToDate, Idle
    <3>2. CASE o # p
      <4>1. proc'[o] = proc[o] /\ o \notin outdated
        BY <1>1, <2>2, <2>3, <3>2 DEF Goto, TypeOK
      <4> QED
        BY <2>2, <4>1 DEF InTime, PressesInTime, UpToDate, InPlace
    <3> QED
      BY <3>1, <3>2
  <2>5. MenusInTime'
    <3> SUFFICES ASSUME NEW v \in User, v \notin outdated', NEW b \in menu'[v] PROVE InPlace(b)'
      BY DEF MenusInTime
    <3>1. CASE v = u
      <4>1. p \notin outdated /\ b \in proc[p].menu
        BY <1>1, <2>2, <2>3, <3>1 DEF TypeOK
      <4> QED
        BY <2>1, <2>2, <4>1 DEF InTime, PressesInTime, UpToDate, InPlace
    <3>2. CASE v # u
      <4>1. v \notin outdated /\ b \in menu[v]
        BY <1>1, <2>2, <2>3, <3>2 DEF TypeOK
      <4> QED
        BY <2>2, <4>1 DEF InTime, MenusInTime, InPlace
    <3> QED
      BY <3>1, <3>2
  <2> QED
    BY <1>1, <2>4, <2>5 DEF InTime
<1> QED
  BY <1>2, <1>3, <1>4

LEMMA InTimeTap == ASSUME InTime, NEW p \in Press, NEW u \in Tapper, Tap(p, u) PROVE InTime'
<1>1. TypeOK /\ TypeOK' /\ u \in User /\ p \notin User /\ u \notin Press
  BY TypeOKTap, CameraAssumption DEF InTime
<1>2. PICK b \in menu[u] \cup Opening :
        Goto(p, [pc |-> "tapped", by |-> u, b |-> b, cam |-> NoCamera, class |-> AnyClass,
                 save |-> FALSE])
  BY DEF Tap
<1> DEFINE q == [pc |-> "tapped", by |-> u, b |-> b, cam |-> NoCamera, class |-> AnyClass,
                 save |-> FALSE]
<1>3. UNCHANGED <<cams, menu>>
      /\ outdated' = IF u \in outdated THEN outdated \cup {p} ELSE outdated \ {p}
  BY DEF Tap
<1>4. p \notin outdated' => UpToDate(q)
  <2>1. p \notin outdated' => u \notin outdated
    BY <1>3
  <2>2. b.do \in OfCamera => b \in menu[u]
    BY <1>2, NoOpening DEF OfCamera, Roots
  <2> QED
    BY <1>1, <2>1, <2>2 DEF InTime, MenusInTime, UpToDate
<1>5. proc'[p] = q /\ \A o \in Press \ {p} : proc'[o] = proc[o]
  BY <1>1, <1>2 DEF Goto, TypeOK
<1> HIDE DEF q
<1>6. PressesInTime'
  <2> SUFFICES ASSUME NEW o \in Press, o \notin outdated' PROVE UpToDate(proc[o])'
    BY DEF PressesInTime
  <2>1. CASE o = p
    BY <1>3, <1>4, <1>5, <2>1 DEF UpToDate, InPlace
  <2>2. CASE o # p
    BY <1>3, <1>5, <2>2 DEF InTime, PressesInTime, UpToDate, InPlace
  <2> QED
    BY <2>1, <2>2
<1>7. MenusInTime'
  BY <1>1, <1>3 DEF InTime, MenusInTime, InPlace
<1> QED
  BY <1>1, <1>6, <1>7 DEF InTime

LEMMA InTimeAround == ASSUME InTime, Refresh \/ \E a \in Manager : Role(a) PROVE InTime'
<1>1. TypeOK' /\ UNCHANGED <<proc, menu>>
  BY TypeOKAround DEF InTime, Refresh, Role
<1>2. CASE cams' = cams /\ outdated' = outdated
  BY <1>1, <1>2 DEF InTime, PressesInTime, MenusInTime, UpToDate, InPlace
<1>3. CASE outdated' = Press \cup User
  BY <1>1, <1>3 DEF InTime, PressesInTime, MenusInTime
<1> QED
  BY <1>2, <1>3 DEF Refresh, Role

LEMMA InTimeNext == Kept /\ InTime /\ [Next]_vars => InTime'
<1> SUFFICES ASSUME Kept, InTime, [Next]_vars PROVE InTime'
  OBVIOUS
<1>1. CASE UNCHANGED vars
  <2>1. TypeOK'
    BY <1>1 DEF vars, InTime, TypeOK
  <2> QED
    BY <1>1, <2>1 DEF vars, InTime, PressesInTime, MenusInTime, UpToDate, InPlace
<1>2. ASSUME NEW p \in Press, Serve(p) PROVE InTime'
  BY <1>2, InTimeLooks, InTimeActs, InTimeAnswers DEF Serve
<1> QED
  BY <1>1, <1>2, InTimeTap, InTimeAround DEF Next

LEMMA InTimeInit == Init => InTime
BY TypeOKInit, IdleUpToDate DEF Init, InTime, PressesInTime, MenusInTime

(* A step of a press leaves the others as they are. *)
LEMMA ServeGoes ==
  ASSUME TypeOK, NEW p \in Press, Serve(p) PROVE \A o \in Press \ {p} : proc'[o] = proc[o]
<1>1. PICK q : Goto(p, q)
  <2>1. CASE Refuse(p) \/ Open(p) \/ OpenCamera(p) \/ OpenPresets(p) \/ Snap(p) \/ Answer(p)
    BY <2>1 DEF Refuse, Open, OpenCamera, OpenPresets, Snap, Answer, Answered, Reply
  <2>2. CASE Unsubscribe(p) \/ Look(p) \/ LookAgain(p)
    BY <2>2 DEF Unsubscribe, Look, LookAgain, Answered, Reply, Step, Choose
  <2>3. CASE Subscribe(p) \/ Remove(p) \/ Ensure(p) \/ New(p) \/ RuleSet(p)
    BY <2>3 DEF Subscribe, Remove, Ensure, New, RuleSet, Step
  <2>4. CASE Save(p) \/ Edit(p)
    BY <2>4 DEF Save, Edit, Step
  <2> QED
    BY <2>1, <2>2, <2>3, <2>4 DEF Serve
<1> QED
  BY <1>1 DEF Goto, TypeOK

(* Nothing but a look makes a press act. *)
LEMMA OnlyLooksAct ==
  ASSUME TypeOK, [Next]_vars, NEW p \in Press,
         proc'[p] # proc[p], proc'[p] # Idle, proc'[p].pc = "act"
  PROVE  Look(p) \/ LookAgain(p)
<1>1. ASSUME NEW q, Goto(p, q), q.pc # "act" PROVE FALSE
  BY <1>1 DEF Goto, TypeOK
<1>2. ASSUME NEW pc, pc # "act", Step(p, pc), IsPress(proc[p]) \/ IsReply(proc[p]) PROVE FALSE
  <2>1. [proc[p] EXCEPT !.pc = pc].pc = pc
    BY <1>2 DEF IsPress, IsReply
  <2> QED
    BY <1>1, <1>2, <2>1 DEF Step
<1>3. ASSUME NEW pc \in {"save", "edit"}, NEW m, Reply(p, pc, m) PROVE FALSE
  BY <1>1, <1>3 DEF Reply
<1>4. ASSUME NEW save, Goto(p, [proc[p] EXCEPT !.pc = "answer", !.save = save]), IsPress(proc[p])
      PROVE  FALSE
  <2>1. [proc[p] EXCEPT !.pc = "answer", !.save = save].pc = "answer"
    BY <1>4 DEF IsPress
  <2> QED
    BY <1>1, <1>4, <2>1
<1>5. PICK o \in Press : Serve(o) \/ \E u \in Tapper : Tap(o, u)
  BY DEF Next, Refresh, Role, vars
<1>6. CASE \E u \in Tapper : Tap(o, u)
  <2>1. PICK q : Goto(o, q) /\ q.pc = "tapped"
    BY <1>6 DEF Tap
  <2> QED
    BY <2>1 DEF Goto, TypeOK
<1>7. CASE Serve(o)
  <2>1. o = p
    BY <1>7, ServeGoes
  <2>2. ASSUME Refuse(p) \/ Open(p) \/ OpenCamera(p) \/ OpenPresets(p) \/ Snap(p) \/ Answer(p)
        PROVE  FALSE
    BY <1>3, <2>2 DEF Refuse, Open, OpenCamera, OpenPresets, Snap, Answer, Answered
  <2>3. ASSUME Unsubscribe(p) PROVE FALSE
    <3>1. IsPress(proc[p])
      BY <2>3, AtPress DEF Unsubscribe, LookedUp, Tapped
    <3>2. ASSUME NEW c, Goto(p, [proc[p] EXCEPT !.pc = "again", !.class = c]) PROVE FALSE
      <4>1. [proc[p] EXCEPT !.pc = "again", !.class = c].pc = "again"
        BY <3>1 DEF IsPress
      <4> QED
        BY <1>1, <3>2, <4>1
    <3> QED
      BY <1>2, <1>3, <2>3, <3>1, <3>2 DEF Unsubscribe, Answered
  <2>4. ASSUME Subscribe(p) \/ Remove(p) \/ RuleSet(p) PROVE FALSE
    <3>1. IsPress(proc[p])
      BY <2>4, AtPress DEF Subscribe, Remove, RuleSet
    <3>2. PICK save : Goto(p, [proc[p] EXCEPT !.pc = "answer", !.save = save])
      BY <2>4 DEF Subscribe, Remove, RuleSet
    <3> QED
      BY <1>4, <3>1, <3>2
  <2>5. ASSUME Ensure(p) \/ New(p) PROVE FALSE
    <3>1. IsPress(proc[p])
      BY <2>5, AtPress DEF Ensure, New
    <3> QED
      BY <1>2, <2>5, <3>1 DEF Ensure, New
  <2>6. ASSUME Save(p) PROVE FALSE
    <3>1. IsReply(proc[p])
      BY <2>6, AtReply DEF Save
    <3> QED
      BY <1>2, <2>6, <3>1 DEF Save
  <2>7. ASSUME Edit(p) PROVE FALSE
    BY <2>7 DEF Edit, Goto, TypeOK
  <2> QED
    BY <1>7, <2>1, <2>2, <2>3, <2>4, <2>5, <2>6, <2>7 DEF Serve
<1> QED
  BY <1>5, <1>6, <1>7

(* A press, when it comes to act, has looked its camera up.                 *)
LEMMA LooksFirst ==
  ASSUME TypeOK, [Next]_vars, NEW p \in Press,
         proc'[p] # proc[p], proc'[p] # Idle, proc'[p].pc = "act"
  PROVE  /\ proc[p].pc \in {"tapped", "again"} /\ proc[p].b.do \in OfCamera
         /\ proc[p].b.place \in DOMAIN cams /\ proc'[p].cam = cams[proc[p].b.place]
<1>1. PICK c : Choose(p, c) /\ (Look(p) \/ LookAgain(p)) /\ proc[p].b.place \in DOMAIN cams
  <2>1. Look(p) \/ LookAgain(p)
    BY OnlyLooksAct
  <2>2. IsPress(proc[p])
    BY <2>1, AtPress DEF Look, LookAgain, LookedUp, Tapped
  <2>3. ASSUME Step(p, "answer") PROVE FALSE
    <3>1. proc'[p] = [proc[p] EXCEPT !.pc = "answer"]
      BY <2>3 DEF Step, Goto, TypeOK
    <3> QED
      BY <2>2, <3>1 DEF IsPress
  <2>4. ASSUME Answered(p, {}) PROVE FALSE
    BY <2>4 DEF Answered, Reply, Goto, TypeOK
  <2> QED
    BY <2>1, <2>3, <2>4 DEF Look, LookAgain, LookedUp
<1>2. IsPress(proc[p]) /\ proc[p].pc \in {"tapped", "again"} /\ proc[p].b.do \in OfCamera
  BY <1>1, AtPress DEF Look, LookAgain, LookedUp, Tapped, IsPress, OfCamera
<1>3. proc'[p] = [proc[p] EXCEPT !.pc = "act", !.cam = cams[proc[p].b.place], !.class = c]
  BY <1>1 DEF Choose, Sees, Here, Goto, TypeOK
<1> QED
  BY <1>1, <1>2, <1>3 DEF IsPress

(* For any cameras, lists and presses: unless the list was replaced since   *)
(* the menu was made, a press acts on the camera its button named           *)
(* (subWizardSubscribeCam, camsWizardUnsubscribeApply, camSetWizardApply,    *)
(* mediaWizardSnap).                                                         *)
THEOREM UndisturbedPickHolds == Spec => UndisturbedPick
<1>1. Kept /\ InTime /\ [Next]_vars => [\A p \in Press : Acts(p)]_vars
  <2> SUFFICES ASSUME InTime, [Next]_vars, NEW p \in Press, proc'[p] # proc[p], proc'[p] # Idle,
                      proc'[p].pc = "act", p \notin outdated
               PROVE  proc'[p].cam = proc[p].b.cam
    BY DEF Acts
  <2>1. UpToDate(proc[p])
    BY DEF InTime, PressesInTime
  <2> QED
    BY <2>1, LooksFirst DEF InTime, UpToDate, InPlace
<1>2. Init => Kept /\ InTime
  BY KeptInit, InTimeInit
<1>3. Kept /\ InTime /\ [Next]_vars => (Kept /\ InTime)'
  BY KeptNext, InTimeNext
<1> QED
  BY <1>1, <1>2, <1>3, PTL DEF Spec, UndisturbedPick

-----------------------------------------------------------------------------
(* Lists that agree.  Whatever was replaced since, a button names a camera  *)
(* that some list has in its place.                                         *)

Had(i, cam) == \E list \in Lists : i \in DOMAIN list /\ list[i] = cam
Named(q) ==
  /\ q.pc \in {"tapped", "again"} /\ q.b.do \in OfCamera => Had(q.b.place, q.b.cam)
  /\ q.pc \in {"act", "new", "rule"} \/ (q.pc = "answer" /\ q.b.do = "set") =>
       Had(q.b.place, q.cam)
  /\ q.pc \in {"save", "edit"} => \A b \in q.menu : Had(b.place, b.cam)
AllNamed ==
  /\ cams \in Lists
  /\ \A p \in Press : Named(proc[p])
  /\ \A u \in User : \A b \in menu[u] : Had(b.place, b.cam)

LEMMA HadInPlace == ASSUME AllNamed, NEW b, InPlace(b) PROVE Had(b.place, b.cam)
BY DEF AllNamed, InPlace, Had

LEMMA NamedGoes ==
  ASSUME AllNamed, TypeOK, NEW p \in Press, NEW q, Goto(p, q), Named(q), UNCHANGED <<cams, menu>>
  PROVE  AllNamed'
<1>1. \A o \in Press : Named(proc'[o])
  BY DEF Goto, TypeOK, AllNamed
<1>2. \A o \in Press : Named(proc[o])'
  BY <1>1 DEF Named
<1> QED
  BY <1>2 DEF AllNamed

LEMMA NamedReply ==
  ASSUME AllNamed, TypeOK, NEW p \in Press, NEW pc \in {"save", "edit"}, NEW m, Reply(p, pc, m),
         UNCHANGED <<cams, menu>>, \A b \in m : Had(b.place, b.cam)
  PROVE  AllNamed'
<1> DEFINE q == [pc |-> pc, by |-> proc[p].by, menu |-> m]
<1>1. Goto(p, q) /\ Named(q)
  BY DEF Reply, Named
<1> HIDE DEF q
<1> QED
  BY <1>1, NamedGoes

LEMMA NamedLooks ==
  ASSUME AllNamed, TypeOK, NEW p \in Press,
         Refuse(p) \/ Open(p) \/ OpenCamera(p) \/ OpenPresets(p) \/ Unsubscribe(p) \/ Look(p)
         \/ LookAgain(p)
  PROVE  AllNamed'
<1>1. UNCHANGED <<cams, menu>>
  BY DEF Refuse, Open, OpenCamera, OpenPresets, Unsubscribe, Look, LookAgain
<1>2. proc[p].pc \in {"tapped", "again"} /\ IsPress(proc[p])
  BY AtPress DEF Refuse, Open, OpenCamera, OpenPresets, Unsubscribe, Look, LookAgain, LookedUp, Tapped
<1>3. proc[p].b.do \in OfCamera => Had(proc[p].b.place, proc[p].b.cam)
  BY <1>2 DEF AllNamed, Named
<1>4. ASSUME NEW m, Answered(p, m), \A b \in m : InPlace(b) PROVE AllNamed'
  BY <1>1, <1>4, HadInPlace, NamedReply DEF Answered
<1>5. ASSUME NEW c, Choose(p, c), proc[p].b.place \in DOMAIN cams PROVE AllNamed'
  <2> DEFINE q == [proc[p] EXCEPT !.pc = "act", !.cam = Sees(proc[p].b), !.class = c]
  <2>1. q.pc = "act" /\ q.cam = cams[proc[p].b.place] /\ q.b = proc[p].b
    BY <1>2 DEF IsPress, Sees, Here
  <2>2. Named(q) /\ Goto(p, q)
    BY <1>5, <2>1 DEF AllNamed, Named, Had, Choose
  <2> HIDE DEF q
  <2> QED
    BY <1>1, <2>2, NamedGoes
<1>6. ASSUME Step(p, "answer"), proc[p].b.do # "set" PROVE AllNamed'
  <2> DEFINE q == [proc[p] EXCEPT !.pc = "answer"]
  <2>1. q.pc = "answer" /\ q.b = proc[p].b
    BY <1>2 DEF IsPress
  <2>2. Named(q) /\ Goto(p, q)
    BY <1>6, <2>1 DEF Named, Step
  <2> HIDE DEF q
  <2> QED
    BY <1>1, <2>2, NamedGoes
<1>7. CASE Refuse(p)
  BY <1>4, <1>7 DEF Refuse
<1>8. CASE Open(p)
  BY <1>4, <1>8, EachInPlace DEF Open
<1>9. CASE OpenCamera(p)
  BY <1>4, <1>9, MadeInPlace DEF OpenCamera, LookedUp, Tapped, Here
<1>10. CASE OpenPresets(p)
  <2> DEFINE b == proc[p].b
  <2>1. Answered(p, PresetMenu(b.place, b.cam, b.arg[1])) /\ b.do \in OfCamera
    BY <1>10 DEF OpenPresets, LookedUp, Tapped, OfCamera
  <2>2. \A x \in PresetMenu(b.place, b.cam, b.arg[1]) : x.place = b.place /\ x.cam = b.cam
    BY DEF PresetMenu, Button
  <2> HIDE DEF b
  <2> QED
    BY <1>1, <1>3, <2>1, <2>2, NamedReply DEF Answered, b
<1>11. CASE Unsubscribe(p)
  <2>1. proc[p].b.do = "unsubscribe" /\ proc[p].b.place \in DOMAIN cams
    BY <1>11 DEF Unsubscribe, LookedUp, Tapped
  <2>2. ASSUME NEW c, Goto(p, [proc[p] EXCEPT !.pc = "again", !.class = c]) PROVE AllNamed'
    <3> DEFINE q == [proc[p] EXCEPT !.pc = "again", !.class = c]
    <3>1. q.pc = "again" /\ q.b = proc[p].b
      BY <1>2 DEF IsPress
    <3>2. Named(q) /\ Goto(p, q)
      BY <1>3, <2>1, <2>2, <3>1 DEF Named, OfCamera
    <3> HIDE DEF q
    <3> QED
      BY <1>1, <3>2, NamedGoes
  <2>3. \A b \in PickMenu(proc[p].by, proc[p].b.place, Here(proc[p].b)) : InPlace(b)
    BY <2>1, MadeInPlace DEF Here
  <2> QED
    BY <1>4, <1>6, <1>11, <2>1, <2>2, <2>3 DEF Unsubscribe
<1>12. CASE Look(p)
  <2>1. proc[p].b.place \in DOMAIN cams
    BY <1>12 DEF Look, LookedUp
  <2> QED
    BY <1>5, <1>6, <1>12, <2>1 DEF Look
<1>13. CASE LookAgain(p)
  <2>1. proc[p].b.do = "unsubscribe"
    BY <1>2, <1>13 DEF LookAgain, IsPress
  <2> QED
    BY <1>4, <1>5, <1>6, <1>13, <2>1 DEF LookAgain
<1> QED
  BY <1>7, <1>8, <1>9, <1>10, <1>11, <1>12, <1>13

LEMMA NamedActs ==
  ASSUME AllNamed, TypeOK, NEW p \in Press,
         Subscribe(p) \/ Remove(p) \/ Snap(p) \/ Ensure(p) \/ New(p) \/ RuleSet(p)
  PROVE  AllNamed'
<1>1. UNCHANGED <<cams, menu>> /\ proc[p].pc \in {"act", "new", "rule"}
  BY DEF Subscribe, Remove, Snap, Ensure, New, RuleSet
<1>2. IsPress(proc[p]) /\ Had(proc[p].b.place, proc[p].cam)
  BY <1>1, AtPress DEF AllNamed, Named
<1>3. CASE Snap(p)
  BY <1>1, <1>3, NamedReply DEF Snap, Answered
<1>4. ASSUME NEW pc \in {"new", "rule", "answer"}, NEW save,
             Step(p, pc) \/ Goto(p, [proc[p] EXCEPT !.pc = pc, !.save = save])
      PROVE  AllNamed'
  <2>1. PICK q : Goto(p, q) /\ q.pc = pc /\ q.b = proc[p].b /\ q.cam = proc[p].cam
    <3>1. /\ [proc[p] EXCEPT !.pc = pc].pc = pc /\ [proc[p] EXCEPT !.pc = pc].b = proc[p].b
          /\ [proc[p] EXCEPT !.pc = pc].cam = proc[p].cam
      BY <1>2 DEF IsPress
    <3>2. /\ [proc[p] EXCEPT !.pc = pc, !.save = save].pc = pc
          /\ [proc[p] EXCEPT !.pc = pc, !.save = save].b = proc[p].b
          /\ [proc[p] EXCEPT !.pc = pc, !.save = save].cam = proc[p].cam
      BY <1>2 DEF IsPress
    <3> QED
      BY <1>4, <3>1, <3>2 DEF Step
  <2>2. Named(q)
    BY <1>2, <2>1 DEF Named
  <2> QED
    BY <1>1, <2>1, <2>2, NamedGoes
<1>5. CASE Subscribe(p) \/ RuleSet(p)
  BY <1>4, <1>5 DEF Subscribe, RuleSet
<1>6. CASE Remove(p)
  BY <1>4, <1>6 DEF Remove
<1>7. CASE Ensure(p) \/ New(p)
  BY <1>4, <1>7 DEF Ensure, New
<1> QED
  BY <1>3, <1>5, <1>6, <1>7

LEMMA NamedAnswers ==
  ASSUME AllNamed, TypeOK, NEW p \in Press, Answer(p) \/ Save(p) \/ Edit(p) PROVE AllNamed'
<1>1. CASE Answer(p)
  <2> DEFINE b == proc[p].b
  <2>1. proc[p].pc = "answer" /\ UNCHANGED <<cams, menu>>
    BY <1>1 DEF Answer
  <2>2. CASE b.do = "set" /\ b.place \in DOMAIN cams
    <3>1. Had(b.place, proc[p].cam) /\ MenuNow(proc[p]) = ClipMenu(b.place, proc[p].cam)
      BY <2>1, <2>2 DEF AllNamed, Named, MenuNow
    <3>2. \A x \in MenuNow(proc[p]) : Had(x.place, x.cam)
      BY <3>1 DEF ClipMenu, Button
    <3> QED
      BY <1>1, <2>1, <3>2, NamedReply DEF Answer
  <2>3. CASE ~(b.do = "set" /\ b.place \in DOMAIN cams)
    <3>1. \A x \in MenuNow(proc[p]) : InPlace(x)
      BY <2>3, EachInPlace, MadeInPlace DEF MenuNow, Here
    <3> QED
      BY <1>1, <2>1, <3>1, HadInPlace, NamedReply DEF Answer
  <2> QED
    BY <2>2, <2>3
<1>2. CASE Save(p)
  <2> DEFINE q == [proc[p] EXCEPT !.pc = "edit"]
  <2>1. IsReply(proc[p]) /\ proc[p].pc = "save" /\ UNCHANGED <<cams, menu>> /\ Goto(p, q)
    BY <1>2, AtReply DEF Save, Step
  <2>2. q.pc = "edit" /\ q.menu = proc[p].menu
    BY <2>1 DEF IsReply
  <2>3. Named(q)
    BY <2>1, <2>2 DEF AllNamed, Named
  <2> HIDE DEF q
  <2> QED
    BY <2>1, <2>3, NamedGoes
<1>3. CASE Edit(p)
  <2>1. /\ proc[p].pc = "edit" /\ Goto(p, Idle) /\ cams' = cams
        /\ menu' = [menu EXCEPT ![proc[p].by] = proc[p].menu]
    BY <1>3 DEF Edit
  <2>2. \A o \in Press : Named(proc[o])'
    BY <2>1 DEF Goto, TypeOK, AllNamed, Named, Idle
  <2>3. \A u \in User : \A b \in menu'[u] : Had(b.place, b.cam)
    BY <2>1 DEF TypeOK, AllNamed, Named
  <2> QED
    BY <2>1, <2>2, <2>3 DEF AllNamed
<1> QED
  BY <1>1, <1>2, <1>3

LEMMA NamedNext == TypeOK /\ AllNamed /\ [Next]_vars => AllNamed'
<1> SUFFICES ASSUME TypeOK, AllNamed, [Next]_vars PROVE AllNamed'
  OBVIOUS
<1>1. CASE UNCHANGED vars
  BY <1>1 DEF vars, AllNamed, Named
<1>2. CASE Refresh \/ \E a \in Manager : Role(a)
  BY <1>2 DEF Refresh, Role, AllNamed, Named
<1>3. ASSUME NEW p \in Press, NEW u \in Tapper, Tap(p, u) PROVE AllNamed'
  <2>1. PICK b \in menu[u] \cup Opening :
          Goto(p, [pc |-> "tapped", by |-> u, b |-> b, cam |-> NoCamera, class |-> AnyClass,
                   save |-> FALSE])
    BY <1>3 DEF Tap
  <2> DEFINE q == [pc |-> "tapped", by |-> u, b |-> b, cam |-> NoCamera, class |-> AnyClass,
                   save |-> FALSE]
  <2>2. b.do \in OfCamera => b \in menu[u]
    BY <2>1, NoOpening DEF OfCamera, Roots
  <2>3. u \in User /\ UNCHANGED <<cams, menu>>
    BY <1>3, CameraAssumption DEF Tap
  <2>4. Named(q) /\ Goto(p, q)
    BY <2>1, <2>2, <2>3 DEF AllNamed, Named
  <2> HIDE DEF q
  <2> QED
    BY <2>3, <2>4, NamedGoes
<1> QED
  BY <1>1, <1>2, <1>3, NamedLooks, NamedActs, NamedAnswers DEF Next, Serve

(* No list has a camera where another has a different one: cameras come and *)
(* go at its end alone.                                                     *)
ListsAgree ==
  \A one, other \in Lists : \A i \in DOMAIN one \cap DOMAIN other : one[i] = other[i]
ActsAsNamed ==
  \A p \in Press :
    proc'[p] # proc[p] /\ proc'[p] # Idle /\ proc'[p].pc = "act" => proc'[p].cam = proc[p].b.cam

(* That a place is another camera's in another list is the only cause of a  *)
(* press that acts on a camera its button did not name: without it, presses *)
(* may be served as late as they like (the handlers need no other guard     *)
(* than the one for a place that is gone).                                  *)
THEOREM PlacesNameCameras == ListsAgree => (Spec => [][ActsAsNamed]_vars)
<1> SUFFICES ASSUME ListsAgree PROVE Spec => [][ActsAsNamed]_vars
  OBVIOUS
<1>1. TypeOK /\ AllNamed /\ [Next]_vars => [ActsAsNamed]_vars
  <2> SUFFICES ASSUME TypeOK, AllNamed, [Next]_vars, NEW p \in Press,
                      proc'[p] # proc[p], proc'[p] # Idle, proc'[p].pc = "act"
               PROVE  proc'[p].cam = proc[p].b.cam
    BY DEF ActsAsNamed
  <2>1. Had(proc[p].b.place, proc[p].b.cam)
    BY LooksFirst DEF AllNamed, Named
  <2> QED
    BY <2>1, LooksFirst DEF AllNamed, Had, ListsAgree
<1>2. Init => AllNamed
  BY DEF Init, AllNamed, Named, Idle
<1> QED
  BY <1>1, <1>2, NamedNext, TypeOKHolds, PTL DEF Spec

=============================================================================
