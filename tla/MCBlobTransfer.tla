--------------------------- MODULE MCBlobTransfer ----------------------------
(* Small instances of BlobTransfer for TLC. *)
EXTENDS BlobTransfer
CONSTANTS d1, d2, d3

(* Two payloads that fit a frame and one that does not. *)
Payloads == {d1, d2, d3}
LongPayload == {d3}
=============================================================================
