------------------------------ MODULE MCBridge ------------------------------
(* Small instances of Bridge for TLC. *)
EXTENDS Bridge
CONSTANTS i1, i2, badId

(* One id that is written as MagicTypeId prints it. *)
OneValidId == [raw \in {i1} |-> raw]

(* Two such ids, and one that does not parse. *)
ValidAndBadIds == [raw \in {i1, i2, badId} |-> IF raw = badId THEN BadId ELSE raw]
=============================================================================
