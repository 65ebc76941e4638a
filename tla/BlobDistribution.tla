-------------------------- MODULE BlobDistribution -------------------------
(***************************************************************************)
(* What the distribution pipeline promises to whoever hands it blobs: they *)
(* are distributed one at a time in the order they came, and a blob counts *)
(* as done only when every one of its chunks is stored by some provider.   *)
(* Once the pipeline is going down it may give up the blob at the front.   *)
(***************************************************************************)
EXTENDS Sequences, Functions

CONSTANTS Blobs, Hashes, Content

VARIABLES
  queue,   (* blobs accepted and not done, oldest first *)
  stored,  (* chunk hashes held by some provider        *)
  done,    (* blobs declared done, in order             *)
  down     (* the pipeline is going down                *)

vars == <<queue, stored, done, down>>

Init ==
  /\ queue = <<>>
  /\ stored = {}
  /\ done = <<>>
  /\ down = FALSE

Submit(id) ==
  /\ id \notin Range(queue) \cup Range(done)
  /\ queue' = Append(queue, id)
  /\ UNCHANGED <<stored, done, down>>

Store(h) ==
  /\ stored' = stored \cup {h}
  /\ UNCHANGED <<queue, done, down>>

Finish ==
  /\ queue # <<>>
  /\ Range(Content[Head(queue)]) \subseteq stored
  /\ done' = Append(done, Head(queue))
  /\ queue' = Tail(queue)
  /\ UNCHANGED <<stored, down>>

GiveUp ==
  /\ down
  /\ queue # <<>>
  /\ queue' = Tail(queue)
  /\ UNCHANGED <<stored, done, down>>

GoDown ==
  /\ down' = TRUE
  /\ UNCHANGED <<queue, stored, done>>

Next ==
  \/ \E id \in Blobs : Submit(id)
  \/ \E h \in Hashes : Store(h)
  \/ Finish
  \/ GiveUp
  \/ GoDown

Spec == Init /\ [][Next]_vars
=============================================================================
