--------------------------- MODULE MCEventCatalog ----------------------------
(* Small instances of EventCatalog for TLC. *)
EXTENDS EventCatalog, TLC

CONSTANT e1

(* All names are e1 but for their case: a client may register an event that *)
(* differs from a system event only in case.                                *)
MCFold == [e \in Event |-> e1]

Symmetry == Permutations(Request) \cup Permutations(Handler)

=============================================================================
