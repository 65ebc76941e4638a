--------------------------- MODULE MCPermitWorth ---------------------------
(* Coordinator with a record of what each provider's permits were used for. *)
EXTENDS MCCoordinator
CONSTANTS h3, PERMIT_WORTH
VARIABLES
  granted,  (* provider -> permits it issued                 *)
  begun     (* provider -> chunks whose upload to it began   *)

LongContent == b1 :> <<h1, h2, h3>>

Begins(p) == {u \in UploadPermits :
  uploads[u] = Idle /\ uploads'[u] # Idle /\ uploads'[u].to = p}

RecordedInit ==
  Init /\ granted = [p \in Peers |-> 0] /\ begun = [p \in Peers |-> 0]

RecordedNext ==
  /\ Next
  /\ granted' = [p \in Peers |-> granted[p] +
       IF p \in asked \ asked' /\ storage_permits'[p] > storage_permits[p]
       THEN 1 ELSE 0]
  /\ begun' = [p \in Peers |-> begun[p] + Cardinality(Begins(p))]

RecordedSpec == RecordedInit /\ [][RecordedNext]_<<vars, granted, begun>>

(* "convention: each ACK is worth ~20 chunks(up to 100mb) of storage space"
   (peyk protocol.rs, on IssuedStoragePermit), with PERMIT_WORTH for the 20: no
   provider is sent more than its permits are worth.  Does not hold:
   assign_chunks counts upload permits, never what a storage permit has left. *)
PermitsAreNotOverspent ==
  \A p \in Peers : begun[p] <= PERMIT_WORTH * granted[p]
=============================================================================
