---------------------------- MODULE EventRegistry ----------------------------
(****************************************************************************)
(* What the event catalog promises the users of its HTTP API, with no       *)
(* handler, lock, memory or file in sight.                                  *)
(*                                                                          *)
(* A client that was told "registered", "updated" or "got notify" for an    *)
(* event may rely on it (known) until a removal of the event begins; a      *)
(* client that was told "removed" may rely on its absence (gone) until a    *)
(* registration of the event begins.  Whatever else the program writes to   *)
(* its state file, and wherever it crashes, what a restart would find       *)
(* (stored) never contradicts either promise.                               *)
(****************************************************************************)
CONSTANT Event

VARIABLES known,    \* events some client was told are registered
          gone,     \* events some client was told are removed
          stored    \* events a restart would bring back

regVars == <<known, gone, stored>>

TypeOK ==
  /\ known \subseteq Event
  /\ gone \subseteq Event
  /\ stored \subseteq Event

(* The two promises, as a relation between the clients and the disk. *)
Kept(k, g, s) == k \subseteq s /\ g \cap s = {}

Init ==
  /\ known = {}
  /\ gone = {}
  /\ stored \in SUBSET Event

(* Every write of the state file keeps every promise made so far. *)
Write == stored' \in SUBSET Event /\ Kept(known', gone', stored')

(* The reply 200 to a registration of e, or to a notification of it. *)
Register(e) ==
  /\ known' = known \cup {e}
  /\ UNCHANGED gone
  /\ Write

(* The reply 200 to a removal of e. *)
Unregister(e) ==
  /\ e \notin known
  /\ gone' = gone \cup {e}
  /\ UNCHANGED known
  /\ Write

(* A removal of e begins: nobody may rely on e any more. *)
Retract(e) ==
  /\ known' = known \ {e}
  /\ UNCHANGED <<gone, stored>>

(* A registration of e begins: nobody may rely on its absence any more. *)
Reopen(e) ==
  /\ gone' = gone \ {e}
  /\ UNCHANGED <<known, stored>>

(* Any other write of the state file, by any part of the program. *)
Flush ==
  /\ UNCHANGED <<known, gone>>
  /\ Write

Next ==
  \/ \E e \in Event : Register(e) \/ Unregister(e) \/ Retract(e) \/ Reopen(e)
  \/ Flush

Spec == Init /\ [][Next]_regVars

=============================================================================
