---------------------------- MODULE BodyChunking ----------------------------
(***************************************************************************)
(* How new_blob of bin/client/src/bridge.rs cuts the body of one POST into *)
(* chunks while it streams in: frames of any length, buffered until a      *)
(* chunk is full, against the length the client declared.  Lengths are in  *)
(* bytes and bytes are not told apart; a chunk is its length.              *)
(***************************************************************************)
EXTENDS Integers, Sequences

CONSTANTS
  CHUNK_SIZE,
  Lengths,     (* the lengths a client may declare, none of them 0          *)
  Frames       (* the lengths a frame of the body may have                  *)

VARIABLES
  pc,          (* "reading", "cutting" a frame, "admitted" or "refused"     *)
  declared,    (* declared_blob_len                                         *)
  received,    (* bytes received                                            *)
  data,        (* bytes left of the frame being cut                         *)
  buf,         (* bytes buffered towards the next chunk                     *)
  chunks       (* the lengths of the chunks cut so far                      *)

vars == <<pc, declared, received, data, buf, chunks>>

ASSUME SizeAssumption ==
  /\ CHUNK_SIZE \in Nat \ {0}
  /\ Lengths \subseteq Nat \ {0}
  /\ Frames \subseteq Nat

-----------------------------------------------------------------------------
(* declared_blob_len.div_ceil(CHUNK_SIZE), which is also the number of permits
   of the admission budget the request takes. *)
NumChunks(length) == (length + CHUNK_SIZE - 1) \div CHUNK_SIZE

TakeAll(m, n) == n  (* mutant: the whole frame goes into the buffer *)
Smaller(m, n) == IF m < n THEN m ELSE n

Init ==
  /\ pc = "reading"
  /\ declared \in Lengths
  /\ received = 0
  /\ data = 0
  /\ buf = 0
  /\ chunks = <<>>

ReadFrameUnchecked(length) ==  (* mutant: no bound on what is received *)
  /\ pc = "reading"
  /\ received' = received + length
  /\ pc' = "cutting"
  /\ data' = length
  /\ UNCHANGED <<declared, buf, chunks>>

(* A frame arrives; more bytes than declared refuse the request. *)
ReadFrame(length) ==
  /\ pc = "reading"
  /\ received' = received + length
  /\ IF received' > declared
     THEN pc' = "refused" /\ UNCHANGED data
     ELSE pc' = "cutting" /\ data' = length
  /\ UNCHANGED <<declared, buf, chunks>>

(* One round of the loop that moves the frame into the buffer and hashes the
   chunk when the buffer is full. *)
Cut ==
  /\ pc = "cutting"
  /\ data > 0
  /\ LET take == Smaller(CHUNK_SIZE - buf, data)
     IN /\ data' = data - take
        /\ IF buf + take = CHUNK_SIZE
           THEN chunks' = Append(chunks, CHUNK_SIZE) /\ buf' = 0
           ELSE buf' = buf + take /\ UNCHANGED chunks
  /\ UNCHANGED <<pc, declared, received>>

FrameCut ==
  /\ pc = "cutting"
  /\ data = 0
  /\ pc' = "reading"
  /\ UNCHANGED <<declared, received, data, buf, chunks>>

EndOfShortBody ==  (* mutant: no check that the body is complete *)
  /\ pc = "reading"
  /\ pc' = "admitted"
  /\ buf' = 0
  /\ chunks' = IF buf > 0 THEN Append(chunks, buf) ELSE chunks
  /\ UNCHANGED <<declared, received, data>>

(* The body ends: what is buffered becomes the last chunk, unless the body
   came short. *)
EndOfBody ==
  /\ pc = "reading"
  /\ IF received # declared
     THEN pc' = "refused" /\ UNCHANGED <<buf, chunks>>
     ELSE /\ pc' = "admitted"
          /\ buf' = 0
          /\ chunks' = IF buf > 0 THEN Append(chunks, buf) ELSE chunks
  /\ UNCHANGED <<declared, received, data>>

(* A broken frame, or none within BODY_IDLE_TIMEOUT. *)
BodyFails ==
  /\ pc = "reading"
  /\ pc' = "refused"
  /\ UNCHANGED <<declared, received, data, buf, chunks>>

Answered == pc \in {"admitted", "refused"} /\ UNCHANGED vars

Next ==
  \/ \E length \in Frames : ReadFrame(length)
  \/ Cut
  \/ FrameCut
  \/ EndOfBody
  \/ BodyFails
  \/ Answered

Spec == Init /\ [][Next]_vars

-----------------------------------------------------------------------------
(* Properties. *)

(* Every variable keeps its type; the buffer never holds a full chunk. *)
TypeOK ==
  /\ pc \in {"reading", "cutting", "admitted", "refused"}
  /\ declared \in Nat \ {0}
  /\ received \in Nat
  /\ data \in Nat
  /\ buf \in 0..(CHUNK_SIZE - 1)
  /\ chunks \in Seq(1..CHUNK_SIZE)

(* However the body was framed, an admitted blob has as many chunks as the
   allowance it took, all full but the last, and together they are as long as
   the client declared. *)
ChunksAreAsDeclared ==
  pc = "admitted" =>
    /\ Len(chunks) = NumChunks(declared)
    /\ \A i \in 1..(Len(chunks) - 1) : chunks[i] = CHUNK_SIZE
    /\ chunks[Len(chunks)] = declared - (Len(chunks) - 1) * CHUNK_SIZE

(* At no point of the upload, a refused one included, does the request hold
   more chunks than its allowance pays for. *)
ChunksAreWithinAllowance == Len(chunks) <= NumChunks(declared)

(* The inductive invariant: no byte is lost between the frame, the buffer and
   the chunks. *)
BytesAreConserved ==
  /\ \A i \in DOMAIN chunks : pc # "admitted" => chunks[i] = CHUNK_SIZE
  /\ pc \in {"reading", "cutting"} =>
       /\ received = Len(chunks) * CHUNK_SIZE + buf + data
       /\ received <= declared
  /\ pc = "reading" => data = 0
=============================================================================
