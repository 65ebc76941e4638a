--------------------------- MODULE MCCoordinator ---------------------------
(* Small instances of Coordinator for TLC. *)
EXTENDS Coordinator, TLC
CONSTANTS b1, b2, h1, h2

(* Two blobs that share a chunk; the second repeats it. *)
SharedContent == b1 :> <<h1, h2>> @@ b2 :> <<h2, h2>>

(* Two blobs of one chunk, the same one. *)
SameContent == b1 :> <<h1>> @@ b2 :> <<h1>>

(* Upload permits are interchangeable, and so are providers. *)
PeerPermitSymmetry == Permutations(UploadPermits) \cup Permutations(Peers)
=============================================================================
