------------------------------ MODULE BlobStatus -----------------------------
(***************************************************************************)
(* What the HTTP bridge promises about each blob id: a blob is handed to    *)
(* the pipeline at most once, while its status is Pending; from then on the *)
(* id is never forgotten, and nothing else makes it Finalized.  An id that  *)
(* was only asked for, or whose upload came to nothing, may be forgotten    *)
(* and start anew.  Module Bridge implements it.                            *)
(***************************************************************************)
EXTENDS Sequences, Functions

CONSTANT Ids

VARIABLES
  status,  (* id -> "Absent", "Pending" or "Finalized", as GET /status shows it *)
  handed   (* ids of the blobs handed to the pipeline, one for each hand-over *)

vars == <<status, handed>>

Init ==
  /\ status = [id \in Ids |-> "Absent"]
  /\ handed = <<>>

Becomes(id, from, to) ==
  /\ status[id] = from
  /\ status' = [status EXCEPT ![id] = to]
  /\ UNCHANGED handed

Claim(id) == Becomes(id, "Absent", "Pending")

Forget(id) == id \notin Range(handed) /\ Becomes(id, "Pending", "Absent")

Finalize(id) == id \in Range(handed) /\ Becomes(id, "Pending", "Finalized")

HandOver(id) ==
  /\ status[id] = "Pending"
  /\ id \notin Range(handed)
  /\ handed' = Append(handed, id)
  /\ UNCHANGED status

Next == \E id \in Ids : Claim(id) \/ Forget(id) \/ Finalize(id) \/ HandOver(id)

Spec == Init /\ [][Next]_vars
=============================================================================
