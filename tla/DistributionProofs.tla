------------------------- MODULE DistributionProofs -------------------------
(***************************************************************************)
(* Proofs that Coordinator implements BlobDistribution and loses no blob,  *)
(* for any number of blobs, chunks, providers, permits and ticks.  Every   *)
(* step is one of four kinds of step of the abstract queue (EveryStep);    *)
(* the rest is about queues only.                                          *)
(***************************************************************************)
EXTENDS CoordinatorProofs

USE DEF backlog, work, leases, links, record

-----------------------------------------------------------------------------
(* Ids of sequences of blobs. *)

LEMMA IdsOfBlobs ==
  ASSUME NEW blobs \in Seq(LocalBlob)
  PROVE  /\ IdsOf(blobs) \in Seq(Blobs)
         /\ Len(IdsOf(blobs)) = Len(blobs)
         /\ \A i \in 1 .. Len(blobs) : IdsOf(blobs)[i] = blobs[i].id
<1>1. /\ Len(blobs) \in Nat /\ DOMAIN blobs = 1 .. Len(blobs)
      /\ \A i \in 1 .. Len(blobs) : blobs[i] \in LocalBlob
  BY LenProperties, ElementOfSeq
<1>2. \A i \in 1 .. Len(blobs) : blobs[i].id \in Blobs
  BY <1>1, LocalBlobShape
<1>3. IdsOf(blobs) \in [1 .. Len(blobs) -> Blobs]
  BY <1>1, <1>2 DEF IdsOf
<1>4. IdsOf(blobs) \in Seq(Blobs)
  BY <1>1, <1>3, SeqDef
<1>5. Len(IdsOf(blobs)) = Len(blobs)
  BY <1>1, <1>3, <1>4, LenProperties
<1>6. QED
  BY <1>1, <1>4, <1>5 DEF IdsOf

(* The id of a blob that is appended is appended. *)
LEMMA IdsOfAppend ==
  ASSUME NEW blobs \in Seq(LocalBlob), NEW blob \in LocalBlob
  PROVE  IdsOf(Append(blobs, blob)) = Append(IdsOf(blobs), blob.id)
<1> DEFINE longer == Append(blobs, blob)
<1>1. /\ longer \in Seq(LocalBlob) /\ Len(longer) = Len(blobs) + 1 /\ Len(blobs) \in Nat
      /\ \A i \in 1 .. Len(blobs) : longer[i] = blobs[i]
      /\ longer[Len(blobs) + 1] = blob
  BY AppendProperties, LenProperties
<1>2. /\ IdsOf(longer) \in Seq(Blobs) /\ Len(IdsOf(longer)) = Len(blobs) + 1
      /\ \A i \in 1 .. Len(blobs) + 1 : IdsOf(longer)[i] = longer[i].id
  <2> HIDE DEF longer
  <2>1. QED
    BY <1>1, IdsOfBlobs
<1>3. /\ IdsOf(blobs) \in Seq(Blobs) /\ Len(IdsOf(blobs)) = Len(blobs)
      /\ \A i \in 1 .. Len(blobs) : IdsOf(blobs)[i] = blobs[i].id
      /\ blob.id \in Blobs
  BY IdsOfBlobs, LocalBlobShape
<1>4. /\ Append(IdsOf(blobs), blob.id) \in Seq(Blobs)
      /\ Len(Append(IdsOf(blobs), blob.id)) = Len(blobs) + 1
      /\ \A i \in 1 .. Len(blobs) : Append(IdsOf(blobs), blob.id)[i] = blobs[i].id
      /\ Append(IdsOf(blobs), blob.id)[Len(blobs) + 1] = blob.id
  BY <1>3, AppendProperties
<1>5. \A i \in 1 .. Len(blobs) + 1 : i \in 1 .. Len(blobs) \/ i = Len(blobs) + 1
  BY <1>1
<1>6. \A i \in 1 .. Len(blobs) + 1 : IdsOf(longer)[i] = Append(IdsOf(blobs), blob.id)[i]
  <2> HIDE DEF longer
  <2>1. QED
    BY <1>1, <1>2, <1>4, <1>5
<1>7. QED
  <2> HIDE DEF longer
  <2>1. IdsOf(longer) = Append(IdsOf(blobs), blob.id)
    BY <1>2, <1>4, <1>6, SeqEqual
  <2>2. QED
    BY <2>1 DEF longer

(* The ids of a queue are the id of its head and the ids of its tail. *)
LEMMA IdsOfHead ==
  ASSUME NEW blobs \in Seq(LocalBlob), blobs # <<>>
  PROVE  /\ Head(blobs) \in LocalBlob /\ Tail(blobs) \in Seq(LocalBlob)
         /\ IdsOf(blobs) = <<Head(blobs).id>> \o IdsOf(Tail(blobs))
<1>1. /\ Head(blobs) \in LocalBlob /\ Tail(blobs) \in Seq(LocalBlob)
      /\ Len(blobs) \in Nat \ {0} /\ Len(Tail(blobs)) = Len(blobs) - 1
      /\ \A i \in 1 .. Len(Tail(blobs)) : Tail(blobs)[i] = blobs[i + 1]
      /\ Head(blobs) = blobs[1]
  <2>1. /\ Head(blobs) \in LocalBlob /\ Tail(blobs) \in Seq(LocalBlob)
        /\ Len(Tail(blobs)) = Len(blobs) - 1
        /\ \A i \in 1 .. Len(Tail(blobs)) : Tail(blobs)[i] = blobs[i + 1]
    BY HeadTailProperties
  <2>2. Len(blobs) \in Nat \ {0}
    BY EmptySeq
  <2>3. Head(blobs) = blobs[1]
    OBVIOUS
  <2>4. QED
    BY <2>1, <2>2, <2>3
<1>2. /\ IdsOf(Tail(blobs)) \in Seq(Blobs) /\ Len(IdsOf(Tail(blobs))) = Len(blobs) - 1
      /\ \A i \in 1 .. Len(blobs) - 1 : IdsOf(Tail(blobs))[i] = blobs[i + 1].id
  <2> DEFINE rest == Tail(blobs)
  <2>1. rest \in Seq(LocalBlob) /\ Len(rest) = Len(blobs) - 1
    BY <1>1
  <2>2. \A i \in 1 .. Len(blobs) - 1 : rest[i] = blobs[i + 1]
    BY <1>1
  <2> HIDE DEF rest
  <2>3. /\ IdsOf(rest) \in Seq(Blobs) /\ Len(IdsOf(rest)) = Len(rest)
        /\ \A i \in 1 .. Len(rest) : IdsOf(rest)[i] = rest[i].id
    BY <2>1, IdsOfBlobs
  <2>4. QED
    BY <2>1, <2>2, <2>3 DEF rest
<1>3. /\ IdsOf(blobs) \in Seq(Blobs) /\ Len(IdsOf(blobs)) = Len(blobs)
      /\ \A i \in 1 .. Len(blobs) : IdsOf(blobs)[i] = blobs[i].id
  BY IdsOfBlobs
<1>4. Head(blobs).id \in Blobs
  BY <1>1, LocalBlobShape
<1> DEFINE first == <<Head(blobs).id>>
           whole == first \o IdsOf(Tail(blobs))
<1>5. first \in Seq(Blobs) /\ Len(first) = 1 /\ first[1] = Head(blobs).id
  BY <1>4
<1> HIDE DEF first
<1>6. /\ whole \in Seq(Blobs) /\ Len(whole) = Len(blobs)
      /\ \A i \in 1 .. Len(blobs) :
           whole[i] = IF i <= 1 THEN first[i] ELSE IdsOf(Tail(blobs))[i - 1]
  <2>1. /\ whole \in Seq(Blobs) /\ Len(whole) = Len(first) + Len(IdsOf(Tail(blobs)))
        /\ \A i \in 1 .. Len(first) + Len(IdsOf(Tail(blobs))) :
             whole[i] = IF i <= Len(first) THEN first[i] ELSE IdsOf(Tail(blobs))[i - Len(first)]
    BY <1>2, <1>5, ConcatProperties
  <2>2. Len(first) + Len(IdsOf(Tail(blobs))) = Len(blobs)
    <3>1. 1 + (Len(blobs) - 1) = Len(blobs)
      BY <1>1
    <3>2. QED
      BY <1>2, <1>5, <3>1
  <2> HIDE DEF whole
  <2>3. QED
    BY <1>5, <2>1, <2>2
<1> HIDE DEF whole
<1>7. \A i \in 1 .. Len(blobs) : IdsOf(blobs)[i] = whole[i]
  <2> TAKE i \in 1 .. Len(blobs)
  <2>1. CASE i = 1
    <3>1. whole[1] = first[1] /\ IdsOf(blobs)[1] = blobs[1].id
      <4>1. 1 \in 1 .. Len(blobs) /\ 1 <= 1
        BY <1>1
      <4>2. QED
        BY <1>3, <1>6, <4>1
    <3>2. QED
      BY <1>1, <1>5, <2>1, <3>1
  <2>2. CASE i # 1
    <3>1. i - 1 \in 1 .. Len(blobs) - 1 /\ (i - 1) + 1 = i /\ ~(i <= 1)
      BY <1>1, <2>2
    <3>2. whole[i] = IdsOf(Tail(blobs))[i - 1] /\ IdsOf(Tail(blobs))[i - 1] = blobs[i].id
      BY <1>2, <1>6, <3>1
    <3>3. QED
      BY <1>3, <3>2
  <2>3. QED
    BY <2>1, <2>2
<1>8. IdsOf(blobs) = whole
  BY <1>3, <1>6, <1>7, SeqEqual
<1>9. QED
  BY <1>1, <1>8 DEF whole, first

(* The head of a queue is in it, and so is all of its tail. *)
LEMMA RangeOfTail ==
  ASSUME NEW seq \in Seq(Blobs), seq # <<>>
  PROVE  /\ Head(seq) \in Range(seq) /\ Range(Tail(seq)) \subseteq Range(seq)
         /\ seq = <<Head(seq)>> \o Tail(seq)
<1>1. /\ Len(seq) \in Nat \ {0} /\ DOMAIN seq = 1 .. Len(seq)
      /\ Tail(seq) \in Seq(Blobs) /\ Len(Tail(seq)) = Len(seq) - 1
      /\ \A i \in 1 .. Len(Tail(seq)) : Tail(seq)[i] = seq[i + 1]
      /\ Head(seq) = seq[1]
  BY HeadTailProperties, EmptySeq, LenProperties
<1>2. Head(seq) \in Range(seq)
  BY <1>1 DEF Range
<1>3. \A i \in DOMAIN Tail(seq) : i + 1 \in DOMAIN seq /\ Tail(seq)[i] = seq[i + 1]
  <2>1. DOMAIN Tail(seq) = 1 .. Len(Tail(seq))
    BY <1>1, LenProperties
  <2>2. QED
    BY <1>1, <2>1
<1>4. Range(Tail(seq)) \subseteq Range(seq)
  BY <1>3 DEF Range
<1>5. seq = <<seq[1]>> \o SubSeq(seq, 1 + 1, Len(seq))
  <2>1. 1 \in 1 .. Len(seq) /\ Len(seq) \in 1 .. Len(seq)
    BY <1>1
  <2>2. SubSeq(seq, 1, Len(seq)) = <<seq[1]>> \o SubSeq(seq, 1 + 1, Len(seq))
    BY <2>1, SubSeqRecursiveFirst
  <2>3. QED
    BY <2>2, SubSeqFull
<1>6. Tail(seq) = SubSeq(seq, 2, Len(seq))
  BY TailIsSubSeq
<1>7. QED
  BY <1>1, <1>2, <1>4, <1>5, <1>6

-----------------------------------------------------------------------------
(* The abstract queue. *)

Queue == InPipeline
Done == reported \o tx_bridge

(* The four kinds of steps. *)
Stays ==
  /\ Queue' = Queue /\ Done' = Done /\ submitted' = submitted
  /\ \/ UNCHANGED <<closing, acked>>
     \/ closing' = TRUE /\ UNCHANGED acked
     \/ /\ UNCHANGED closing
        /\ \E p \in Peers, h \in Hashes : acked' = acked \cup {<<p, h>>}

Accepts ==
  \E id \in Blobs :
    /\ id \notin Range(submitted) /\ submitted' = Append(submitted, id)
    /\ Queue' = Append(Queue, id) /\ Done' = Done
    /\ UNCHANGED <<closing, acked>>

Finishes ==
  /\ Queue # <<>> /\ Queue' = Tail(Queue) /\ Done' = Append(Done, Head(Queue))
  /\ \A h \in Range(Content[Head(Queue)]) : h \in Hashes /\ IsStored(h)
  /\ UNCHANGED <<closing, acked, submitted>>

GivesUp ==
  /\ closing
  /\ Queue # <<>> /\ Queue' = Tail(Queue) /\ Done' = Done
  /\ UNCHANGED <<closing, acked, submitted>>

LEMMA QueueTypes ==
  ASSUME TypeOK
  PROVE  /\ Queue \in Seq(Blobs) /\ Done \in Seq(Blobs) /\ submitted \in Seq(Blobs)
         /\ IdsOf(pending_local_blobs) \in Seq(Blobs)
<1>1. /\ pending_local_blobs \in Seq(LocalBlob) /\ current_blob \in LocalBlob \cup {NoBlob}
      /\ reported \in Seq(Blobs) /\ tx_bridge \in Seq(Blobs) /\ submitted \in Seq(Blobs)
  BY DEF TypeOK
<1>2. IdsOf(pending_local_blobs) \in Seq(Blobs)
  BY <1>1, IdsOfBlobs
<1>3. (IF current_blob = NoBlob THEN <<>> ELSE <<current_blob.id>>) \in Seq(Blobs)
  <2>1. CASE current_blob = NoBlob
    BY <2>1, EmptySeq
  <2>2. CASE current_blob # NoBlob
    <3>1. current_blob.id \in Blobs
      BY <1>1, <2>2, LocalBlobShape
    <3>2. <<current_blob.id>> \in Seq(Blobs)
      BY <3>1
    <3>3. QED
      BY <2>2, <3>2
  <2>3. QED
    BY <2>1, <2>2
<1>4. QED
  BY <1>1, <1>2, <1>3, ConcatProperties DEF Queue, InPipeline, Done

(* A step that keeps the current blob and the blobs behind it. *)
KeepsBlob ==
  /\ current_blob' = NoBlob <=> current_blob = NoBlob
  /\ current_blob # NoBlob => current_blob'.id = current_blob.id

LEMMA QueueKept ==
  ASSUME KeepsBlob, pending_local_blobs' = pending_local_blobs
  PROVE  Queue' = Queue
BY DEF KeepsBlob, Queue, InPipeline, IdsOf

(* assign_chunks keeps the blob it is given. *)
LEMMA AssignChunksKeepsBlob ==
  ASSUME TypeOK, NEW blob \in LocalBlob \cup {NoBlob}, NEW permits,
         AssignChunks(blob, permits)
  PROVE  /\ current_blob' = NoBlob <=> blob = NoBlob
         /\ blob # NoBlob => current_blob'.id = blob.id
BY AssignChunksKeepsTypes DEF TypeOK, AssignmentOf

LEMMA HandleUpdateKeepsBlob ==
  ASSUME TypeOK, NEW msg \in UpdateChunkStatus, HandleUpdate(msg)
  PROVE  KeepsBlob
<1>1. CASE current_blob = NoBlob \/ msg.hash \notin DOMAIN current_blob.chunks
  BY <1>1 DEF HandleUpdate, KeepsBlob
<1>2. CASE ~(current_blob = NoBlob \/ msg.hash \notin DOMAIN current_blob.chunks)
  <2> DEFINE blob == [current_blob EXCEPT !.chunks[msg.hash] = msg.status]
  <2>1. blob \in LocalBlob /\ blob.id = current_blob.id /\ blob # NoBlob
    <3>1. /\ current_blob \in LocalBlob /\ msg.hash \in DOMAIN current_blob.chunks
          /\ msg.status \in ChunkUploadStatus
      BY <1>2 DEF TypeOK, UpdateChunkStatus
    <3>2. blob \in LocalBlob /\ blob.id = current_blob.id
      BY <3>1, UpdatedBlob
    <3>3. QED
      BY <3>2, MarkerAssumption
  <2>2. current_blob' = blob \/ AssignChunks(blob, storage_permits)
    BY <1>2 DEF HandleUpdate, WithResult
  <2> HIDE DEF blob
  <2>3. QED
    BY <1>2, <2>1, <2>2, AssignChunksKeepsBlob DEF KeepsBlob
<1>3. QED
  BY <1>1, <1>2

LEMMA TickKeepsBlob ==
  ASSUME TypeOK, Tick
  PROVE  KeepsBlob
<1>1. CASE current_blob = NoBlob
  BY <1>1 DEF Tick, KeepsBlob
<1>2. CASE current_blob # NoBlob
  <2>1. current_blob \in LocalBlob /\ current_blob' = AgedBlob(current_blob)
    BY <1>2 DEF Tick, TypeOK, AgedBlob
  <2>2. QED
    BY <1>2, <2>1, AgedBlobIsBlob, MarkerAssumption DEF KeepsBlob
<1>3. QED
  BY <1>1, <1>2

(* What the bridge has not been told yet it will be told in order. *)
LEMMA BridgeUpdatesKeepsDone ==
  ASSUME TypeOK, BridgeUpdates
  PROVE  Done' = Done
<1>1. /\ reported \in Seq(Blobs) /\ tx_bridge \in Seq(Blobs) /\ tx_bridge # <<>>
      /\ reported' = Append(reported, Head(tx_bridge)) /\ tx_bridge' = Tail(tx_bridge)
  BY DEF BridgeUpdates, TypeOK
<1>2. Head(tx_bridge) \in Blobs /\ Tail(tx_bridge) \in Seq(Blobs)
  BY <1>1, HeadTailProperties
<1>3. tx_bridge = <<Head(tx_bridge)>> \o Tail(tx_bridge)
  BY <1>1, RangeOfTail
<1>4. <<Head(tx_bridge)>> \in Seq(Blobs)
  BY <1>2
<1>5. Append(reported, Head(tx_bridge)) = reported \o <<Head(tx_bridge)>>
  BY <1>1, <1>2, AppendIsConcat
<1>6. (reported \o <<Head(tx_bridge)>>) \o Tail(tx_bridge)
        = reported \o (<<Head(tx_bridge)>> \o Tail(tx_bridge))
  BY <1>1, <1>2, <1>4, ConcatAssociative
<1>7. QED
  BY <1>1, <1>3, <1>5, <1>6 DEF Done

(* A blob that comes in is last in the queue. *)
LEMMA RecvNewBlobAccepts ==
  ASSUME PipelineInvariant, NEW id \in Blobs, RecvNewBlob(id)
  PROVE  Accepts
<1>0. TypeOK /\ NoStalledBacklog
  BY DEF PipelineInvariant
<1> DEFINE new == NewLocalBlob(id)
           waiting == IdsOf(pending_local_blobs)
<1>1. /\ new \in LocalBlob /\ new.id = id /\ new # NoBlob
      /\ pending_local_blobs \in Seq(LocalBlob) /\ waiting \in Seq(Blobs)
      /\ IdsOf(Append(pending_local_blobs, new)) = Append(waiting, id)
  BY <1>0, NewLocalBlobIsLocalBlob, QueueTypes, IdsOfAppend, MarkerAssumption DEF TypeOK
<1>2. Queue' = Append(Queue, id)
  <2>1. CASE current_blob = NoBlob
    <3>1. pending_local_blobs = <<>>
      BY <1>0, <2>1 DEF NoStalledBacklog
    <3>2. /\ Append(pending_local_blobs, new) = <<new>>
          /\ current_blob' = new /\ pending_local_blobs' = <<>>
      <4>1. Append(<<>>, new) = <<new>> /\ Head(<<new>>) = new /\ Tail(<<new>>) = <<>>
        OBVIOUS
      <4>2. QED
        BY <2>1, <3>1, <4>1 DEF RecvNewBlob
    <3>3. IdsOf(<<>>) = <<>>
      BY DEF IdsOf
    <3> HIDE DEF new
    <3>4. Queue = <<>> \o <<>> /\ Queue' = <<id>> \o <<>>
      BY <1>1, <2>1, <3>1, <3>2, <3>3 DEF Queue, InPipeline
    <3>5. <<>> \o <<>> = <<>> /\ <<id>> \o <<>> = <<id>> /\ Append(<<>>, id) = <<id>>
      <4>1. <<>> \in Seq(Blobs) /\ <<id>> \in Seq(Blobs)
        OBVIOUS
      <4>2. <<>> \o <<>> = <<>> /\ <<id>> \o <<>> = <<id>>
        BY <4>1, ConcatEmptySeq
      <4>3. Append(<<>>, id) = <<id>>
        OBVIOUS
      <4>4. QED
        BY <4>2, <4>3
    <3>6. QED
      BY <3>4, <3>5
  <2>2. CASE current_blob # NoBlob
    <3>1. /\ current_blob' = current_blob
          /\ pending_local_blobs' = Append(pending_local_blobs, new)
      BY <2>2 DEF RecvNewBlob
    <3> DEFINE front == <<current_blob.id>>
    <3>2. front \in Seq(Blobs)
      <4>1. current_blob.id \in Blobs
        BY <1>0, <2>2, LocalBlobShape DEF TypeOK
      <4>2. QED
        BY <4>1
    <3>3. <<id>> \in Seq(Blobs)
      OBVIOUS
    <3>4. Queue = front \o waiting /\ Queue' = front \o Append(waiting, id)
      <4>1. IdsOf(pending_local_blobs)' = IdsOf(pending_local_blobs')
        BY DEF IdsOf
      <4>2. QED
        BY <1>1, <2>2, <3>1, <4>1 DEF Queue, InPipeline
    <3> HIDE DEF front, waiting
    <3>5. Append(waiting, id) = waiting \o <<id>>
      BY <1>1, AppendIsConcat
    <3>6. (front \o waiting) \o <<id>> = front \o (waiting \o <<id>>)
      BY <1>1, <3>2, <3>3, ConcatAssociative
    <3>7. Append(front \o waiting, id) = (front \o waiting) \o <<id>>
      BY <1>1, <3>2, ConcatProperties, AppendIsConcat
    <3>8. QED
      BY <3>4, <3>5, <3>6, <3>7
  <2>3. QED
    BY <2>1, <2>2
<1>3. Done' = Done
  BY DEF RecvNewBlob, Done
<1>4. QED
  BY <1>2, <1>3 DEF RecvNewBlob, Accepts

(* The finalizing arm takes the front of the queue, all of it stored. *)
LEMMA SendFinalizedFinishes ==
  ASSUME PipelineInvariant, SendFinalized
  PROVE  Finishes \/ GivesUp
<1>0. TypeOK /\ NotifiesOfStoredBlob /\ OwnersHoldTheirChunks
  BY DEF PipelineInvariant
<1> DEFINE waiting == IdsOf(pending_local_blobs)
           id == current_blob.id
<1>1. /\ current_blob \in LocalBlob /\ current_blob # NoBlob /\ id \in Blobs
      /\ AllFinalized(current_blob.chunks)
      /\ pending_local_blobs \in Seq(LocalBlob) /\ waiting \in Seq(Blobs)
  BY <1>0, LocalBlobShape, QueueTypes DEF SendFinalized, NotifiesOfStoredBlob, TypeOK
<1>2. Queue = <<id>> \o waiting
  BY <1>1 DEF Queue, InPipeline
<1>3. Queue # <<>> /\ Head(Queue) = id /\ Tail(Queue) = waiting
  <2> DEFINE whole == <<id>> \o waiting
  <2>1. Len(<<id>>) = 1 /\ <<id>>[1] = id /\ <<id>> \in Seq(Blobs)
    BY <1>1
  <2> HIDE DEF waiting, id
  <2>2. /\ whole \in Seq(Blobs) /\ Len(whole) = 1 + Len(waiting) /\ Len(waiting) \in Nat
        /\ \A i \in 1 .. 1 + Len(waiting) :
             whole[i] = IF i <= 1 THEN <<id>>[i] ELSE waiting[i - 1]
    <3>1. /\ whole \in Seq(Blobs) /\ Len(whole) = Len(<<id>>) + Len(waiting)
          /\ \A i \in 1 .. Len(<<id>>) + Len(waiting) :
               whole[i] = IF i <= Len(<<id>>) THEN <<id>>[i] ELSE waiting[i - Len(<<id>>)]
      BY <1>1, <2>1, ConcatProperties
    <3>2. Len(waiting) \in Nat
      BY <1>1, LenProperties
    <3> HIDE DEF whole
    <3>3. QED
      BY <2>1, <3>1, <3>2
  <2> HIDE DEF whole
  <2>3. whole # <<>> /\ Head(whole) = id
    <3>1. 1 \in 1 .. 1 + Len(waiting) /\ 1 <= 1
      BY <2>2
    <3>2. whole[1] = id
      BY <2>1, <2>2, <3>1
    <3>3. QED
      BY <2>2, <3>2, EmptySeq
  <2>4. /\ Tail(whole) \in Seq(Blobs) /\ Len(Tail(whole)) = Len(waiting)
        /\ \A i \in 1 .. Len(waiting) : Tail(whole)[i] = whole[i + 1]
    <3>1. /\ Tail(whole) \in Seq(Blobs) /\ Len(Tail(whole)) = Len(whole) - 1
          /\ \A i \in 1 .. Len(Tail(whole)) : Tail(whole)[i] = whole[i + 1]
      BY <2>2, <2>3, HeadTailProperties
    <3>2. QED
      BY <2>2, <3>1
  <2>5. \A i \in 1 .. Len(waiting) : Tail(whole)[i] = waiting[i]
    <3> TAKE i \in 1 .. Len(waiting)
    <3>1. i + 1 \in 1 .. 1 + Len(waiting) /\ ~(i + 1 <= 1) /\ (i + 1) - 1 = i
      BY <2>2
    <3>2. whole[i + 1] = waiting[i]
      BY <2>2, <3>1
    <3>3. QED
      BY <2>4, <3>2
  <2>6. Tail(whole) = waiting
    BY <1>1, <2>4, <2>5, SeqEqual
  <2>7. QED
    BY <1>2, <2>3, <2>6 DEF whole
<1>4. Queue' = waiting
  <2>1. pending_local_blobs' = RestOf(pending_local_blobs)
    BY DEF SendFinalized
  <2>2. IdsOf(pending_local_blobs)' = IdsOf(pending_local_blobs')
    BY DEF IdsOf
  <2> DEFINE next == FirstOf(pending_local_blobs)
  <2>3. next \in LocalBlob \cup {NoBlob}
    BY <1>1, IdsOfHead DEF FirstOf
  <2>4. current_blob' = next \/ AssignChunks(next, storage_permits)
    BY DEF SendFinalized
  <2>5. /\ current_blob' = NoBlob <=> next = NoBlob
        /\ next # NoBlob => current_blob'.id = next.id
    <3> HIDE DEF next
    <3>1. QED
      BY <1>0, <2>3, <2>4, AssignChunksKeepsBlob
  <2>6. CASE pending_local_blobs = <<>>
    <3>1. current_blob' = NoBlob /\ pending_local_blobs' = <<>>
      BY <2>1, <2>5, <2>6 DEF FirstOf, RestOf
    <3>2. IdsOf(<<>>) = <<>> /\ <<>> \o <<>> = <<>>
      <4>1. <<>> \in Seq(Blobs)
        OBVIOUS
      <4>2. QED
        BY <4>1, ConcatEmptySeq DEF IdsOf
    <3>3. QED
      BY <2>2, <2>6, <3>1, <3>2 DEF Queue, InPipeline
  <2>7. CASE pending_local_blobs # <<>>
    <3>1. /\ next = Head(pending_local_blobs) /\ next # NoBlob
          /\ pending_local_blobs' = Tail(pending_local_blobs)
          /\ waiting = <<Head(pending_local_blobs).id>> \o IdsOf(Tail(pending_local_blobs))
      BY <1>1, <2>1, <2>7, IdsOfHead, MarkerAssumption DEF FirstOf, RestOf
    <3> HIDE DEF next, waiting
    <3>2. QED
      BY <2>2, <2>5, <3>1 DEF Queue, InPipeline
  <2>8. QED
    BY <2>6, <2>7
<1>5. \A h \in Range(Content[id]) : h \in Hashes /\ IsStored(h)
  <2> TAKE h \in Range(Content[id])
  <2>1. /\ h \in DOMAIN current_blob.chunks
        /\ current_blob.chunks[h] \in ChunkUploadStatus
    BY <1>1, LocalBlobShape
  <2>2. /\ current_blob.chunks[h].tag = "Finalized"
        /\ current_blob.chunks[h].owner \in Peers
    BY <1>1, <2>1 DEF AllFinalized, ChunkUploadStatus
  <2>3. <<current_blob.chunks[h].owner, h>> \in acked
    BY <1>0, <1>1, <2>1, <2>2 DEF OwnersHoldTheirChunks
  <2>4. QED
    BY <1>1, <2>2, <2>3, ContentHashes DEF IsStored
<1>6. CASE tx_bridge' = Append(tx_bridge, id)
  <2>1. Done' = Append(Done, id)
    <3>1. reported \in Seq(Blobs) /\ tx_bridge \in Seq(Blobs) /\ <<id>> \in Seq(Blobs)
      BY <1>0, <1>1 DEF TypeOK
    <3> HIDE DEF id
    <3>2. Append(tx_bridge, id) = tx_bridge \o <<id>>
      BY <1>1, <3>1, AppendIsConcat
    <3>3. (reported \o tx_bridge) \o <<id>> = reported \o (tx_bridge \o <<id>>)
      BY <3>1, ConcatAssociative
    <3>4. Append(reported \o tx_bridge, id) = (reported \o tx_bridge) \o <<id>>
      BY <1>1, <3>1, ConcatProperties, AppendIsConcat
    <3>5. reported' = reported
      BY DEF SendFinalized
    <3>6. QED
      BY <1>6, <3>2, <3>3, <3>4, <3>5 DEF Done
  <2>2. QED
    BY <1>3, <1>4, <1>5, <2>1 DEF Finishes, SendFinalized
<1>7. CASE closing /\ tx_bridge' = tx_bridge
  <2>1. Done' = Done
    BY <1>7 DEF Done, SendFinalized
  <2>2. QED
    BY <1>3, <1>4, <1>7, <2>1 DEF GivesUp, SendFinalized
<1>8. QED
  BY <1>6, <1>7 DEF SendFinalized, SendToBridge

(* Every step of the pipeline is of one of the four kinds. *)
LEMMA EveryStep ==
  ASSUME PipelineInvariant, [Next]_vars
  PROVE  Stays \/ Accepts \/ Finishes \/ GivesUp
<1>0. TypeOK
  BY DEF PipelineInvariant
<1>1. ASSUME KeepsBlob,
             UNCHANGED <<pending_local_blobs, reported, tx_bridge, submitted, closing>>,
             \/ UNCHANGED acked
             \/ \E p \in Peers, h \in Hashes : acked' = acked \cup {<<p, h>>}
      PROVE  Stays
  <2>1. Queue' = Queue
    BY <1>1, QueueKept
  <2>2. Done' = Done
    BY <1>1 DEF Done
  <2>3. QED
    BY <1>1, <2>1, <2>2 DEF Stays
<1>2. ASSUME UNCHANGED current_blob PROVE KeepsBlob
  BY <1>2 DEF KeepsBlob
<1>3. CASE TimerAssign
  <2>1. KeepsBlob
    BY <1>0, <1>3, AssignChunksKeepsBlob DEF TimerAssign, KeepsBlob, TypeOK
  <2>2. QED
    BY <1>1, <1>3, <2>1 DEF TimerAssign
<1>4. ASSUME NEW p \in Peers, NEW v \in ValidFor, RecvStoragePermit(p, v) PROVE Stays
  <2>1. AssignChunks(current_blob, storage_permits') /\ current_blob \in LocalBlob \cup {NoBlob}
    BY <1>0, <1>4 DEF RecvStoragePermit, TypeOK
  <2>2. KeepsBlob
    BY <1>0, <2>1, AssignChunksKeepsBlob DEF KeepsBlob
  <2>3. QED
    BY <1>1, <1>4, <2>2 DEF RecvStoragePermit
<1>5. ASSUME NEW msg \in UpdateChunkStatus, HandleUpdate(msg) PROVE Stays
  BY <1>0, <1>1, <1>5, HandleUpdateKeepsBlob DEF HandleUpdate
<1>6. CASE SendPermitRequest
  <2>1. KeepsBlob
    <3>1. CASE pc = "request_then_assign"
      BY <1>0, <1>6, <3>1, AssignChunksKeepsBlob DEF SendPermitRequest, KeepsBlob, TypeOK
    <3>2. CASE pc # "request_then_assign"
      BY <1>2, <1>6, <3>2 DEF SendPermitRequest
    <3>3. QED
      BY <3>1, <3>2
  <2>2. QED
    BY <1>1, <1>6, <2>1 DEF SendPermitRequest
<1>7. CASE Tick
  BY <1>0, <1>1, <1>7, TickKeepsBlob DEF Tick
<1>8. ASSUME NEW u \in UploadPermits, UploadEnds(u) PROVE Stays
  <2>1. CASE UploadSucceeds(u)
    <3>1. uploads[u].hash \in Hashes /\ uploads[u].to \in Peers
      BY <1>0, <2>1, UploadShape DEF UploadSucceeds, Holds
    <3>2. QED
      BY <1>1, <1>2, <2>1, <3>1 DEF UploadSucceeds, Reports
  <2>2. CASE UploadFails(u)
    BY <1>1, <1>2, <2>2 DEF UploadFails, Reports
  <2>3. CASE UploadTimesOut(u)
    BY <1>1, <1>2, <2>3 DEF UploadTimesOut
  <2>4. QED
    BY <1>8, <2>1, <2>2, <2>3 DEF UploadEnds
<1>9. CASE BridgeUpdates
  <2>1. Queue' = Queue
    BY <1>2, <1>9, QueueKept DEF BridgeUpdates
  <2>2. QED
    BY <1>0, <1>9, <2>1, BridgeUpdatesKeepsDone DEF BridgeUpdates, Stays
<1>10. CASE RequestShutdown
  <2>1. Queue' = Queue
    BY <1>2, <1>10, QueueKept DEF RequestShutdown
  <2>2. QED
    BY <1>10, <2>1 DEF RequestShutdown, Stays, Done
<1>11. ASSUME NEW id \in Blobs, RecvNewBlob(id) PROVE Accepts
  BY <1>11, RecvNewBlobAccepts
<1>12. CASE SendFinalized
  BY <1>12, SendFinalizedFinishes
<1>13. CASE UNCHANGED vars
  BY <1>1, <1>2, <1>13 DEF vars
<1>14. CASE TimerStale \/ Stop \/ SwarmRequests
  BY <1>1, <1>2, <1>14 DEF TimerStale, Stop, SwarmRequests
<1>15. ASSUME NEW p \in Peers, RecvWouldStore(p) \/ RequestFails(p) PROVE Stays
  BY <1>1, <1>2, <1>15 DEF RecvWouldStore, RequestFails
<1>16. ASSUME NEW id \in RemoteIds, RecvGetBlob(id) PROVE Stays
  BY <1>1, <1>2, <1>16 DEF RecvGetBlob
<1>17. QED
  BY <1>3, <1>4, <1>5, <1>6, <1>7, <1>8, <1>9, <1>10, <1>11, <1>12, <1>13, <1>14,
     <1>15, <1>16
     DEF Next, CoordinatorStep, UploadStep, EnvironmentStep, Halted

-----------------------------------------------------------------------------
(* What holds of queues: nothing is lost, and what was taken is remembered. *)

KnownIds == \A id \in Range(Queue) \cup Range(Done) : id \in Range(submitted)

DistributionInvariant == PipelineInvariant /\ NoBlobLost /\ KnownIds

LEMMA KnownIdsStay ==
  ASSUME DistributionInvariant, Stays \/ Accepts \/ Finishes \/ GivesUp
  PROVE  KnownIds'
<1>0. KnownIds /\ Queue \in Seq(Blobs) /\ Done \in Seq(Blobs) /\ submitted \in Seq(Blobs)
  BY QueueTypes DEF DistributionInvariant, PipelineInvariant
<1>1. CASE Stays
  BY <1>0, <1>1 DEF Stays, KnownIds
<1>2. CASE Accepts
  <2>1. PICK id \in Blobs : submitted' = Append(submitted, id) /\ Queue' = Append(Queue, id)
                            /\ Done' = Done
    BY <1>2 DEF Accepts
  <2>2. /\ Range(Append(Queue, id)) = Range(Queue) \cup {id}
        /\ Range(Append(submitted, id)) = Range(submitted) \cup {id}
    BY <1>0, RangeAppend
  <2>3. QED
    BY <1>0, <2>1, <2>2 DEF KnownIds
<1>3. CASE Finishes
  <2>1. Head(Queue) \in Blobs /\ Head(Queue) \in Range(Queue)
        /\ Range(Tail(Queue)) \subseteq Range(Queue)
    BY <1>0, <1>3, RangeOfTail, HeadTailProperties DEF Finishes
  <2>2. Range(Append(Done, Head(Queue))) = Range(Done) \cup {Head(Queue)}
    BY <1>0, <2>1, RangeAppend
  <2>3. QED
    BY <1>0, <1>3, <2>1, <2>2 DEF Finishes, KnownIds
<1>4. CASE GivesUp
  BY <1>0, <1>4, RangeOfTail DEF GivesUp, KnownIds
<1>5. QED
  BY <1>1, <1>2, <1>3, <1>4

LEMMA NoBlobGetsLost ==
  ASSUME DistributionInvariant, Stays \/ Accepts \/ Finishes \/ GivesUp
  PROVE  NoBlobLost'
<1>0. /\ ~closing => submitted = Done \o Queue
      /\ Queue \in Seq(Blobs) /\ Done \in Seq(Blobs)
  BY QueueTypes DEF DistributionInvariant, PipelineInvariant, NoBlobLost, Done, Queue
<1> SUFFICES ASSUME ~closing' PROVE submitted' = Done' \o Queue'
  BY DEF NoBlobLost, Done, Queue
<1>1. CASE Stays
  BY <1>0, <1>1 DEF Stays
<1>2. CASE Accepts
  <2>1. PICK id \in Blobs : /\ submitted' = Append(submitted, id)
                            /\ Queue' = Append(Queue, id) /\ Done' = Done /\ ~closing
    BY <1>2 DEF Accepts
  <2>2. <<id>> \in Seq(Blobs)
    OBVIOUS
  <2>3. /\ Append(Done \o Queue, id) = (Done \o Queue) \o <<id>>
        /\ Append(Queue, id) = Queue \o <<id>>
    BY <1>0, ConcatProperties, AppendIsConcat
  <2>4. (Done \o Queue) \o <<id>> = Done \o (Queue \o <<id>>)
    BY <1>0, <2>2, ConcatAssociative
  <2>5. QED
    BY <1>0, <2>1, <2>3, <2>4
<1>3. CASE Finishes
  <2>1. Queue = <<Head(Queue)>> \o Tail(Queue) /\ Head(Queue) \in Blobs
        /\ Tail(Queue) \in Seq(Blobs)
    BY <1>0, <1>3, RangeOfTail, HeadTailProperties DEF Finishes
  <2>2. <<Head(Queue)>> \in Seq(Blobs)
    BY <2>1
  <2>3. Append(Done, Head(Queue)) = Done \o <<Head(Queue)>>
    BY <1>0, <2>1, AppendIsConcat
  <2>4. (Done \o <<Head(Queue)>>) \o Tail(Queue) = Done \o (<<Head(Queue)>> \o Tail(Queue))
    BY <1>0, <2>1, <2>2, ConcatAssociative
  <2>5. QED
    BY <1>0, <1>3, <2>1, <2>3, <2>4 DEF Finishes
<1>4. CASE GivesUp
  BY <1>4 DEF GivesUp
<1>5. QED
  BY <1>1, <1>2, <1>3, <1>4

-----------------------------------------------------------------------------
(* The refinement. *)

LEMMA NextDistributes ==
  ASSUME DistributionInvariant, Stays \/ Accepts \/ Finishes \/ GivesUp
  PROVE  [Distribution!Next]_(Distribution!vars)
<1>0. KnownIds
  BY DEF DistributionInvariant
<1> DEFINE stored == {h \in Hashes : IsStored(h)}
<1>1. UNCHANGED acked => stored' = stored
  BY DEF IsStored
<1>2. CASE Stays
  <2>1. CASE UNCHANGED <<closing, acked>>
    BY <1>1, <1>2, <2>1 DEF Stays, Queue, Done, Distribution!vars
  <2>2. CASE closing' = TRUE /\ UNCHANGED acked
    <3>1. Distribution!GoDown
      BY <1>1, <1>2, <2>2 DEF Stays, Queue, Done, Distribution!GoDown
    <3>2. QED
      BY <3>1 DEF Distribution!Next
  <2>3. ASSUME NEW p \in Peers, NEW h \in Hashes, acked' = acked \cup {<<p, h>>},
               UNCHANGED closing
        PROVE  Distribution!Next
    <3>1. stored' = stored \cup {h}
      BY <2>3 DEF IsStored
    <3>2. Distribution!Store(h)
      BY <1>2, <2>3, <3>1 DEF Stays, Queue, Done, Distribution!Store
    <3>3. QED
      BY <3>2 DEF Distribution!Next
  <2>4. QED
    BY <1>2, <2>1, <2>2, <2>3 DEF Stays
<1>3. CASE Accepts
  <2>1. PICK id \in Blobs : /\ id \notin Range(submitted)
                            /\ Queue' = Append(Queue, id) /\ Done' = Done
                            /\ UNCHANGED <<closing, acked>>
    BY <1>3 DEF Accepts
  <2>2. id \notin Range(Queue) \cup Range(Done)
    BY <1>0, <2>1 DEF KnownIds
  <2>3. Distribution!Submit(id)
    BY <1>1, <2>1, <2>2 DEF Queue, Done, Range, Distribution!Range, Distribution!Submit
  <2>4. QED
    BY <2>3 DEF Distribution!Next
<1>4. CASE Finishes
  <2>1. Range(Content[Head(Queue)]) \subseteq stored
    BY <1>4 DEF Finishes
  <2>2. Distribution!Finish
    BY <1>1, <1>4, <2>1 DEF Finishes, Queue, Done, Range, Distribution!Range,
         Distribution!Finish
  <2>3. QED
    BY <2>2 DEF Distribution!Next
<1>5. CASE GivesUp
  <2>1. Distribution!GiveUp
    BY <1>1, <1>5 DEF GivesUp, Queue, Done, Distribution!GiveUp
  <2>2. QED
    BY <2>1 DEF Distribution!Next
<1>6. QED
  BY <1>2, <1>3, <1>4, <1>5

LEMMA InitDistributes ==
  ASSUME Init
  PROVE  DistributionInvariant /\ Distribution!Init
<1>1. IdsOf(<<>>) = <<>> /\ <<>> \o <<>> = <<>> /\ Range(<<>>) = {}
  <2>1. <<>> \in Seq(Blobs)
    OBVIOUS
  <2>2. QED
    BY <2>1, ConcatEmptySeq DEF IdsOf, Range
<1>2. Queue = <<>> /\ Done = <<>>
  BY <1>1 DEF Init, Queue, Done, InPipeline
<1>3. NoBlobLost /\ KnownIds
  BY <1>1, <1>2 DEF Init, NoBlobLost, KnownIds, Queue, Done
<1>4. {h \in Hashes : IsStored(h)} = {}
  BY DEF Init, IsStored
<1>5. Distribution!Init
  BY <1>2, <1>4 DEF Init, Queue, Done, Distribution!Init
<1>6. QED
  BY <1>3, <1>5, InitPipelineInvariant DEF DistributionInvariant

LEMMA NextDistributionInvariant ==
  ASSUME DistributionInvariant, [Next]_vars
  PROVE  DistributionInvariant' /\ [Distribution!Next]_(Distribution!vars)
<1>1. PipelineInvariant
  BY DEF DistributionInvariant
<1>2. Stays \/ Accepts \/ Finishes \/ GivesUp
  BY <1>1, EveryStep
<1>3. QED
  BY <1>1, <1>2, KnownIdsStay, NoBlobGetsLost, NextDistributes, NextPipelineInvariant
     DEF DistributionInvariant

-----------------------------------------------------------------------------
(* The theorems. *)

THEOREM DistributionIsInvariant == Spec => []DistributionInvariant
BY InitDistributes, NextDistributionInvariant, PTL DEF Spec

(* Until shutdown every blob handed over is reported, about to be reported, or
   in the pipeline, once and in the order it came. *)
THEOREM BlobsAreNeverLost == Spec => []NoBlobLost
<1>1. DistributionInvariant => NoBlobLost
  BY DEF DistributionInvariant
<1>2. QED
  BY <1>1, DistributionIsInvariant, PTL

(* The pipeline implements the abstract service: first come, first served, and
   done only when stored. *)
THEOREM CoordinatorImplementsDistribution == Spec => ImplementsDistribution
BY InitDistributes, NextDistributionInvariant, DistributionIsInvariant, PTL
DEF Spec, ImplementsDistribution, Distribution!Spec
=============================================================================
