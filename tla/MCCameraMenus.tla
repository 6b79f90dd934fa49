---------------------------- MODULE MCCameraMenus ----------------------------
(* A small instance of CameraMenus for TLC. *)
EXTENDS CameraMenus, TLC

CONSTANTS Gate, Pool

\* A camera whose exact half would not be recompressed, and one of a few pixels.
MCNative ==
  Gate :> [width |-> 2560, height |-> 1440, codec |-> "h265"] @@
  Pool :> [width |-> 8, height |-> 5, codec |-> "h264"]

\* Refresh may drop the first camera, or bring it back.
MCLists == {<<Gate, Pool>>, <<Pool>>}

MCOffered == [k \in Kind |-> IF k = "length" THEN {15} ELSE {}]

\* A state file without entries, or with one that was edited by hand.
Edited == [scale |-> "third", length |-> 1499, size |-> 9000000, codec |-> "auto"]
MCFound == {[c \in Camera |-> NoEntry], [c \in Camera |-> IF c = Pool THEN Edited ELSE NoEntry]}

MCLegacy == {<<Pool, AnyClass>>, <<Pool, "motion">>}

Symmetry == Permutations(Press)

=============================================================================
