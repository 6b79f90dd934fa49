--------------------------- MODULE MCRenamePrompt ----------------------------
(* A small instance of RenamePrompt for TLC. *)
EXTENDS RenamePrompt

CONSTANTS Boss, Own, Torres

MCReported == [u \in User |-> IF u = Boss THEN {Own} ELSE {Own, Blank}]

=============================================================================
