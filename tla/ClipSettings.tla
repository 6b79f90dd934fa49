---------------------------- MODULE ClipSettings -----------------------------
(****************************************************************************)
(* What a camera's clip settings ask SecuritySpy for (pkg/chat/             *)
(* camsettings.go).  Rules are what the catalog entry of a camera says,     *)
(* settings what is made of them: a rule that is missing, or has a value    *)
(* the menus do not offer, counts as the default or as the nearest limit.   *)
(* Lengths of time are in milliseconds, as rules are durations.             *)
(****************************************************************************)
EXTENDS Integers

Kind == {"scale", "length", "size", "codec"}
Scales == {"full", "half", "third", "quarter"}
Codecs == {"auto", "h264", "h265"}

MinClipLengthSecs == 2
MaxClipLengthSecs == 15
MinClipSizeBytes == 500 * 1024
MaxClipSizeBytes == 3 * 1024 * 1024

(* A rule that is not set, or not as it should be *)
Unset == [scale |-> "", length |-> 0, size |-> 0, codec |-> ""]
Defaults == [scale |-> "half", length |-> 6000, size |-> 1572864, codec |-> "h265"]

Text == Scales \cup Codecs \cup {"", "other"}
Rules == [scale: Text, length: Int, size: Int, codec: Text]
Settings ==
  [scale: Scales,
   length: {1000 * s : s \in MinClipLengthSecs .. MaxClipLengthSecs},
   size: MinClipSizeBytes .. MaxClipSizeBytes,
   codec: Codecs]

Clamp(lo, hi, v) == IF v < lo THEN lo ELSE IF v > hi THEN hi ELSE v

(* GetCameraClipSettings; the clamped length is first rounded to seconds.   *)
ClipLength(d) == 1000 * Clamp(MinClipLengthSecs, MaxClipLengthSecs, (d + 500) \div 1000)
ClipSize(n) == Clamp(MinClipSizeBytes, MaxClipSizeBytes, n)
ClipSettingsOf(r) ==
  [scale |-> IF r.scale \in Scales THEN r.scale ELSE Defaults.scale,
   length |-> IF r.length > 0 THEN ClipLength(r.length) ELSE Defaults.length,
   size |-> IF r.size > 0 THEN ClipSize(r.size) ELSE Defaults.size,
   codec |-> IF r.codec \in Codecs THEN r.codec ELSE Defaults.codec]

(* A value a press may set, and the rule it becomes *)
Allowed(kind, value) ==
  CASE kind = "scale" -> value \in Scales
    [] kind = "codec" -> value \in Codecs
    [] kind = "length" -> value \in MinClipLengthSecs .. MaxClipLengthSecs
    [] kind = "size" -> value \in MinClipSizeBytes .. MaxClipSizeBytes
RuleOf(kind, value) == IF kind = "length" THEN 1000 * value ELSE value

(* evenPixels; heightForScale: zero asks for the native height              *)
EvenPixels(v) == IF v < 2 THEN 0 ELSE v - (v % 2)
HalfItself(h) == EvenPixels(h \div 2)
BelowHalf(h) == EvenPixels((h \div 2) - 1)
HeightForScale(h, scale) ==
  CASE h < 2 \/ scale = "full" -> 0
    [] h >= 2 /\ scale = "quarter" -> EvenPixels(h \div 4)
    [] h >= 2 /\ scale = "third" -> EvenPixels(h \div 3)
    [] OTHER -> BelowHalf(h)

(* VideoClipOps, of a camera whose native codec is given *)
VideoClipOps(cam, s) ==
  LET height == HeightForScale(cam.height, s.scale) IN
  [height |-> height,
   width |-> IF cam.width > 0 /\ cam.height > 0 /\ height > 0
               THEN EvenPixels((cam.width * height) \div cam.height) ELSE 0,
   codec |-> IF s.codec = "auto" THEN cam.codec ELSE s.codec]

(* camsettings.go 173-175: SecuritySpy recompresses only below half the     *)
(* native height, and "forces even pixels".  A camera of a few pixels is    *)
(* asked for its native height.  Line 213: "even dimensions derived from    *)
(* the camera aspect ratio", with less than two pixels of the width lost.   *)
Recompressed(cam, s) ==
  LET ops == VideoClipOps(cam, s) IN
  /\ ops.height % 2 = 0 /\ ops.width % 2 = 0
  /\ cam.width > 0 /\ ops.height > 0 =>
       /\ ops.width * cam.height <= cam.width * ops.height
       /\ cam.width * ops.height < (ops.width + 2) * cam.height
  /\ IF s.scale = "full" THEN ops.height = 0
     ELSE /\ cam.height >= 8 => 2 * ops.height < cam.height /\ ops.height >= 2
          /\ cam.height < 6 => ops.height = 0

=============================================================================
