---------------------------- MODULE MCAdminRoles -----------------------------
(* Small instances of AdminRoles for TLC. *)
EXTENDS AdminRoles, TLC

Symmetry == Permutations(Press)

(* A record that is neither in the database nor held by a handler is never  *)
(* read again: states that differ in one are the same state.                *)
(* (The equality makes TLC tabulate the function before it stores a state.) *)
View ==
  <<[r \in Record |-> IF RecordOf(ID(r)) = r \/ Held(r) THEN record[r] ELSE NewFlags],
    record = record, current, disk, proc, unsaved, disturbed>>

=============================================================================
