----------------------------- MODULE Deliveries ------------------------------
(****************************************************************************)
(* What whoever asks for pictures, clips or texts may rely on, with no      *)
(* camera, handler or message in sight.                                     *)
(*                                                                          *)
(* A request owes each of its recipients one message.  Once it is settled   *)
(* what that is, it is the same for all: the file, whole and there until    *)
(* the last has it, or a text, with no file around.  A request that is not  *)
(* firm may be called off, but only before anyone was served; any other     *)
(* ends when nobody is left.  A tour (all cameras) visits each once and     *)
(* hands over and removes what it got there before it goes on.  A crash     *)
(* ends everything.                                                         *)
(****************************************************************************)
CONSTANTS
  Worker,      \* who serves a request
  Recipient    \* who, or which stop of a tour, may be owed something

VARIABLES
  deal,        \* the request each worker serves, or None
  disk         \* what is at the path of the file of each

dealVars == <<deal, disk>>

None == [what |-> "none"]
Contents == {"none", "partial", "whole"}
Requests ==
  [what: {"open", "text", "file", "tour", "handed"}, owed: SUBSET Recipient, firm: BOOLEAN]

TypeOK ==
  /\ deal \in [Worker -> {None} \cup Requests]
  /\ disk \in [Worker -> Contents]

Is(w, what) == deal[w].what = what
Put(w, contents) == disk' = [disk EXCEPT ![w] = contents]
Settle(w, what) == deal' = [deal EXCEPT ![w].what = what]
Close(w) == deal' = [deal EXCEPT ![w] = None] /\ Put(w, "none")
Owes(w, owed) == deal' = [deal EXCEPT ![w].owed = owed] /\ UNCHANGED disk

Accept(w) ==
  /\ deal[w] = None
  /\ \E q \in Requests :
       q.what \in {"open", "text", "tour"} /\ deal' = [deal EXCEPT ![w] = q]
  /\ UNCHANGED disk

(* What the recipients will get is settled, whatever else is on the disk;   *)
(* who was promised nothing firm gets the file or nothing.                  *)
SettleFile(w) == Is(w, "open") /\ Settle(w, "file") /\ Put(w, "whole")
SettleText(w) ==
  /\ Is(w, "open") /\ deal[w].firm /\ Settle(w, "text")
  /\ \E contents \in {"none", "partial"} : Put(w, contents)
CallOff(w) == Is(w, "open") /\ ~deal[w].firm /\ Close(w)
Discard(w) == Is(w, "text") /\ Put(w, "none") /\ UNCHANGED deal

(* One recipient is served; the request of the last one may end with it. *)
Ready(w) ==
  \/ Is(w, "text") /\ disk[w] = "none"
  \/ Is(w, "file") /\ disk[w] = "whole"
Serve(w) ==
  /\ Ready(w)
  /\ \E r \in deal[w].owed :
       Owes(w, deal[w].owed \ {r}) \/ (deal[w].owed = {r} /\ Close(w))

(* The stops of a tour, one file at a time *)
Visit(w) ==
  /\ Is(w, "tour") /\ disk[w] = "none"
  /\ \E r \in deal[w].owed : Owes(w, deal[w].owed \ {r})
Fetch(w) == Is(w, "tour") /\ disk[w] = "none" /\ Put(w, "whole") /\ UNCHANGED deal
HandOver(w) == Is(w, "tour") /\ disk[w] = "whole" /\ Settle(w, "handed") /\ UNCHANGED disk
GoOn(w) == Is(w, "handed") /\ Settle(w, "tour") /\ Put(w, "none")

End(w) ==
  /\ deal[w] # None /\ deal[w].owed = {} /\ (Is(w, "tour") => disk[w] = "none")
  /\ deal[w].what \in {"text", "file", "tour"}
  /\ Close(w)

Crash == deal' = [w \in Worker |-> None] /\ disk' = [w \in Worker |-> "none"]

Init == deal = [w \in Worker |-> None] /\ disk = [w \in Worker |-> "none"]

Next ==
  \/ \E w \in Worker :
       \/ Accept(w) \/ SettleFile(w) \/ SettleText(w) \/ CallOff(w) \/ Discard(w) \/ Serve(w)
       \/ Visit(w) \/ Fetch(w) \/ HandOver(w) \/ GoOn(w) \/ End(w)
  \/ Crash

Spec == Init /\ [][Next]_dealVars

=============================================================================
