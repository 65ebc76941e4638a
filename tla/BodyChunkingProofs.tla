------------------------- MODULE BodyChunkingProofs -------------------------
(***************************************************************************)
(* Proofs about BodyChunking, for any chunk size, length and framing.      *)
(***************************************************************************)
EXTENDS BodyChunking, TLAPS, SequenceTheorems

-----------------------------------------------------------------------------
(* div_ceil. *)

(* What \div is, with its remainder. *)
LEMMA Division ==
  ASSUME NEW m \in Nat, NEW n \in Nat \ {0}
  PROVE  /\ m \div n \in Nat
         /\ (m \div n) * n <= m
         /\ m < ((m \div n) + 1) * n
BY SMT

(* Multiples of a chunk size keep the order of their factors. *)
LEMMA Multiples ==
  ASSUME NEW j \in Nat, NEW k \in Nat, NEW n \in Nat \ {0}, j * n < k * n
  PROVE  j < k
BY SMT

(* As many whole chunks as fit into a length are no more than NumChunks. *)
LEMMA NumChunksIsUpperBound ==
  ASSUME NEW length \in Nat, NEW k \in Nat, k * CHUNK_SIZE <= length
  PROVE  k <= NumChunks(length)
<1> DEFINE q == NumChunks(length)
<1>1. /\ q \in Nat
      /\ length + CHUNK_SIZE - 1 < (q + 1) * CHUNK_SIZE
  BY SizeAssumption, Division DEF NumChunks
<1>2. (q + 1) * CHUNK_SIZE = q * CHUNK_SIZE + CHUNK_SIZE /\ q * CHUNK_SIZE \in Nat
  BY <1>1, SizeAssumption
<1>3. k * CHUNK_SIZE < (q + 1) * CHUNK_SIZE
  BY <1>1, SizeAssumption
<1>4. k < q + 1
  BY <1>1, <1>3, Multiples, SizeAssumption
<1>5. QED
  BY <1>1, <1>4

(* k chunks of which only the last may be short make NumChunks. *)
LEMMA NumChunksIsExact ==
  ASSUME NEW length \in Nat \ {0}, NEW k \in Nat,
         k * CHUNK_SIZE < length + CHUNK_SIZE, length <= k * CHUNK_SIZE
  PROVE  NumChunks(length) = k
<1> DEFINE q == NumChunks(length)
<1>1. /\ q \in Nat
      /\ q * CHUNK_SIZE <= length + CHUNK_SIZE - 1
      /\ length + CHUNK_SIZE - 1 < (q + 1) * CHUNK_SIZE
  BY SizeAssumption, Division DEF NumChunks
<1>2. /\ (q + 1) * CHUNK_SIZE = q * CHUNK_SIZE + CHUNK_SIZE
      /\ (k + 1) * CHUNK_SIZE = k * CHUNK_SIZE + CHUNK_SIZE
      /\ q * CHUNK_SIZE \in Nat /\ k * CHUNK_SIZE \in Nat
  BY <1>1, SizeAssumption
<1>3. q * CHUNK_SIZE < (k + 1) * CHUNK_SIZE
  BY <1>1, <1>2, SizeAssumption
<1>4. k * CHUNK_SIZE < (q + 1) * CHUNK_SIZE
  BY <1>1, <1>2, SizeAssumption
<1>5. q < k + 1 /\ k < q + 1
  BY <1>1, <1>3, <1>4, Multiples, SizeAssumption
<1>6. QED
  BY <1>1, <1>5

-----------------------------------------------------------------------------
(* The invariant. *)

BodyInvariant ==
  /\ TypeOK
  /\ BytesAreConserved
  /\ ChunksAreWithinAllowance
  /\ ChunksAreAsDeclared

LEMMA InitBodyInvariant == Init => BodyInvariant
<1> SUFFICES ASSUME Init PROVE BodyInvariant
  OBVIOUS
<1>1. TypeOK
  BY SizeAssumption, EmptySeq DEF Init, TypeOK
<1>2. Len(chunks) = 0 /\ DOMAIN chunks = {}
  BY DEF Init
<1>3. 0 <= NumChunks(declared)
  BY <1>1, SizeAssumption, NumChunksIsUpperBound DEF TypeOK
<1>4. QED
  BY <1>1, <1>2, <1>3, SizeAssumption
     DEF Init, BodyInvariant, BytesAreConserved, ChunksAreWithinAllowance, ChunksAreAsDeclared

(* Appending a chunk to the chunks cut so far. *)
LEMMA AppendChunk ==
  ASSUME TypeOK, NEW size \in 1..CHUNK_SIZE
  PROVE  /\ Append(chunks, size) \in Seq(1..CHUNK_SIZE)
         /\ Len(chunks) \in Nat
         /\ DOMAIN chunks = 1..Len(chunks)
         /\ Len(Append(chunks, size)) = Len(chunks) + 1
         /\ DOMAIN Append(chunks, size) = 1..(Len(chunks) + 1)
         /\ \A i \in 1..Len(chunks) : Append(chunks, size)[i] = chunks[i]
         /\ Append(chunks, size)[Len(chunks) + 1] = size
         /\ (Len(chunks) + 1) * CHUNK_SIZE = Len(chunks) * CHUNK_SIZE + CHUNK_SIZE
         /\ Len(chunks) * CHUNK_SIZE \in Nat
<1>1. chunks \in Seq(1..CHUNK_SIZE)
  BY DEF TypeOK
<1>2. Len(chunks) \in Nat /\ DOMAIN chunks = 1..Len(chunks)
  BY <1>1, LenProperties
<1>3. /\ (Len(chunks) + 1) * CHUNK_SIZE = Len(chunks) * CHUNK_SIZE + CHUNK_SIZE
      /\ Len(chunks) * CHUNK_SIZE \in Nat
  BY <1>2, SizeAssumption
<1>4. QED
  BY <1>1, <1>2, <1>3, AppendProperties, LenProperties

LEMMA NextBodyInvariant == BodyInvariant /\ [Next]_vars => BodyInvariant'
<1> SUFFICES ASSUME BodyInvariant, [Next]_vars PROVE BodyInvariant'
  OBVIOUS
<1>0. /\ TypeOK /\ BytesAreConserved /\ ChunksAreWithinAllowance /\ ChunksAreAsDeclared
      /\ Len(chunks) \in Nat /\ DOMAIN chunks = 1..Len(chunks)
      /\ Len(chunks) * CHUNK_SIZE \in Nat
  BY AppendChunk, LenProperties, SizeAssumption DEF BodyInvariant, TypeOK
<1>1. ASSUME NEW length \in Frames, ReadFrame(length)
      PROVE  BodyInvariant'
  BY <1>0, <1>1, SizeAssumption
     DEF ReadFrame, BodyInvariant, TypeOK, BytesAreConserved, ChunksAreWithinAllowance,
     ChunksAreAsDeclared
<1>2. CASE Cut
  <2> DEFINE take == Smaller(CHUNK_SIZE - buf, data)
  <2>1. take \in 1..data /\ buf + take \in 1..CHUNK_SIZE
    BY <1>0, <1>2, SizeAssumption DEF Cut, Smaller, TypeOK
  <2>2. pc = "cutting" /\ pc' = pc /\ declared' = declared /\ received' = received
        /\ data' = data - take
    BY <1>2 DEF Cut
  <2>3. CASE buf + take = CHUNK_SIZE
    <3>1. chunks' = Append(chunks, CHUNK_SIZE) /\ buf' = 0
      BY <1>2, <2>3 DEF Cut
    <3>2. CHUNK_SIZE \in 1..CHUNK_SIZE
      BY SizeAssumption
    <3>3. /\ chunks' \in Seq(1..CHUNK_SIZE)
          /\ Len(chunks') = Len(chunks) + 1
          /\ DOMAIN chunks' = 1..(Len(chunks) + 1)
          /\ \A i \in 1..Len(chunks) : chunks'[i] = chunks[i]
          /\ chunks'[Len(chunks) + 1] = CHUNK_SIZE
          /\ Len(chunks') * CHUNK_SIZE = Len(chunks) * CHUNK_SIZE + CHUNK_SIZE
      BY <1>0, <3>1, <3>2, AppendChunk
    <3>4. TypeOK'
      BY <1>0, <2>1, <2>2, <3>1, <3>3, SizeAssumption DEF TypeOK
    <3>5. \A i \in DOMAIN chunks' : chunks'[i] = CHUNK_SIZE
      BY <1>0, <2>2, <3>3 DEF BytesAreConserved
    <3>6. /\ received = Len(chunks) * CHUNK_SIZE + buf + data /\ received <= declared
          /\ data \in Nat /\ buf \in Nat /\ take \in Nat /\ received \in Nat
      BY <1>0, <2>1, <2>2, SizeAssumption DEF BytesAreConserved, TypeOK
    <3>7. received = Len(chunks') * CHUNK_SIZE + 0 + (data - take)
      <4> DEFINE old == Len(chunks) * CHUNK_SIZE
                 new == Len(chunks') * CHUNK_SIZE
      <4>1. old \in Nat /\ new = old + CHUNK_SIZE /\ CHUNK_SIZE \in Nat
        BY <1>0, <3>3, SizeAssumption
      <4>2. received = old + buf + data
        BY <3>6
      <4> HIDE DEF take, old, new
      <4>3. received = new + 0 + (data - take)
        BY <2>3, <3>6, <4>1, <4>2
      <4>4. QED
        BY <4>3 DEF new
    <3>8. /\ TypeOK' /\ BytesAreConserved'
      <4>1. received' = Len(chunks') * CHUNK_SIZE + buf' + data' /\ received' <= declared'
        BY <2>2, <3>1, <3>6, <3>7
      <4>2. QED
        BY <2>2, <3>4, <3>5, <4>1 DEF BytesAreConserved
    <3>9. Len(chunks') * CHUNK_SIZE <= declared
      BY <1>0, <2>1, <2>2, <2>3, <3>1, <3>2, AppendChunk, SizeAssumption
         DEF TypeOK, BytesAreConserved
    <3>10. Len(chunks') \in Nat
      BY <3>1, <3>2, <1>0, AppendChunk
    <3>11. ChunksAreWithinAllowance'
      BY <1>0, <2>2, <3>9, <3>10, NumChunksIsUpperBound DEF ChunksAreWithinAllowance, TypeOK,
         NumChunks
    <3>12. QED
      BY <2>2, <3>8, <3>11 DEF BodyInvariant, ChunksAreAsDeclared
  <2>4. CASE buf + take # CHUNK_SIZE
    <3>1. chunks' = chunks /\ buf' = buf + take
      BY <1>2, <2>4 DEF Cut
    <3>2. /\ take \in Int /\ buf \in Nat /\ data \in Nat /\ received \in Nat
          /\ CHUNK_SIZE \in Nat /\ buf < CHUNK_SIZE
      BY <1>0, <2>1, SizeAssumption DEF TypeOK
    <3>3. data' \in Nat /\ buf' \in 0..(CHUNK_SIZE - 1)
      BY <2>1, <2>2, <2>4, <3>1, <3>2
    <3>4. TypeOK'
      BY <1>0, <2>2, <3>1, <3>3 DEF TypeOK
    <3>5. \A i \in DOMAIN chunks' : chunks'[i] = CHUNK_SIZE
      BY <1>0, <2>2, <3>1 DEF BytesAreConserved
    <3>6. received' = Len(chunks') * CHUNK_SIZE + buf' + data' /\ received' <= declared'
      <4> DEFINE old == Len(chunks) * CHUNK_SIZE
      <4>1. received = old + buf + data /\ received <= declared
        BY <1>0, <2>2 DEF BytesAreConserved
      <4>2. old \in Nat
        BY <1>0, SizeAssumption DEF TypeOK
      <4> HIDE DEF take, old
      <4>3. received = old + (buf + take) + (data - take)
        BY <3>2, <4>1, <4>2
      <4>4. received' = old + buf' + data' /\ received' <= declared'
        BY <2>2, <3>1, <4>1, <4>3
      <4>5. QED
        BY <3>1, <4>4 DEF old
    <3>7. BytesAreConserved'
      BY <2>2, <3>5, <3>6 DEF BytesAreConserved
    <3>8. ChunksAreWithinAllowance'
      BY <1>0, <2>2, <3>1 DEF ChunksAreWithinAllowance
    <3>9. ChunksAreAsDeclared'
      BY <2>2 DEF ChunksAreAsDeclared
    <3>10. QED
      BY <3>4, <3>7, <3>8, <3>9 DEF BodyInvariant
  <2>5. QED
    BY <2>3, <2>4
<1>3. CASE FrameCut
  BY <1>0, <1>3 DEF FrameCut, BodyInvariant, TypeOK, BytesAreConserved,
     ChunksAreWithinAllowance, ChunksAreAsDeclared
<1>4. CASE EndOfBody
  <2>0. pc = "reading" /\ declared' = declared /\ received' = received /\ data' = data
    BY <1>4 DEF EndOfBody
  <2>1. CASE received # declared
    BY <1>0, <1>4, <2>1 DEF EndOfBody, BodyInvariant, TypeOK, BytesAreConserved,
       ChunksAreWithinAllowance, ChunksAreAsDeclared
  <2>2. CASE received = declared
    <3>1. /\ pc' = "admitted" /\ buf' = 0
          /\ chunks' = IF buf > 0 THEN Append(chunks, buf) ELSE chunks
      BY <1>4, <2>2 DEF EndOfBody
    <3>2. /\ declared = Len(chunks) * CHUNK_SIZE + buf
          /\ \A i \in 1..Len(chunks) : chunks[i] = CHUNK_SIZE
      BY <1>0, <2>0, <2>2 DEF BytesAreConserved, TypeOK
    <3>3. CASE buf > 0
      <4>1. buf \in 1..CHUNK_SIZE
        BY <1>0, <3>3, SizeAssumption DEF TypeOK
      <4>2. /\ Len(chunks') = Len(chunks) + 1
            /\ chunks' \in Seq(1..CHUNK_SIZE)
            /\ \A i \in 1..Len(chunks) : chunks'[i] = CHUNK_SIZE
            /\ chunks'[Len(chunks) + 1] = declared - Len(chunks) * CHUNK_SIZE
        BY <1>0, <3>1, <3>2, <3>3, <4>1, AppendChunk
      <4>3. NumChunks(declared) = Len(chunks) + 1
        BY <1>0, <3>2, <4>1, AppendChunk, NumChunksIsExact, SizeAssumption DEF TypeOK
      <4>4. QED
        BY <1>0, <2>0, <3>1, <4>2, <4>3, SizeAssumption
           DEF BodyInvariant, TypeOK, BytesAreConserved, ChunksAreWithinAllowance,
           ChunksAreAsDeclared, NumChunks
    <3>4. CASE buf = 0
      <4>1. chunks' = chunks
        BY <3>1, <3>4
      <4>2. /\ declared \in Nat \ {0} /\ declared = Len(chunks) * CHUNK_SIZE
        BY <1>0, <3>2, <3>4 DEF TypeOK
      <4>3. NumChunks(declared) = Len(chunks)
        BY <1>0, <4>2, NumChunksIsExact, SizeAssumption
      <4>4. Len(chunks) # 0
        BY <4>2, SizeAssumption
      <4>5. (Len(chunks) - 1) * CHUNK_SIZE = Len(chunks) * CHUNK_SIZE - CHUNK_SIZE
        BY <1>0, SizeAssumption
      <4>6. /\ chunks[Len(chunks)] = declared - (Len(chunks) - 1) * CHUNK_SIZE
            /\ \A i \in 1..(Len(chunks) - 1) : chunks[i] = CHUNK_SIZE
        BY <1>0, <3>2, <4>2, <4>4, <4>5, SizeAssumption
      <4>7. QED
        <5>0. 0 \in 0..(CHUNK_SIZE - 1)
          BY SizeAssumption
        <5>1. TypeOK'
          BY <1>0, <2>0, <3>1, <4>1, <5>0 DEF TypeOK
        <5>2. Len(chunks') = NumChunks(declared)'
          BY <2>0, <4>1, <4>3 DEF NumChunks
        <5>3. ChunksAreAsDeclared'
          BY <2>0, <4>1, <4>6, <5>2 DEF ChunksAreAsDeclared
        <5>4. QED
          BY <1>0, <3>1, <5>1, <5>2, <5>3
             DEF BodyInvariant, BytesAreConserved, ChunksAreWithinAllowance
    <3>5. QED
      BY <1>0, <3>3, <3>4 DEF TypeOK
  <2>3. QED
    BY <2>1, <2>2
<1>5. CASE BodyFails
  BY <1>0, <1>5 DEF BodyFails, BodyInvariant, TypeOK, BytesAreConserved,
     ChunksAreWithinAllowance, ChunksAreAsDeclared
<1>6. CASE UNCHANGED vars
  BY <1>0, <1>6 DEF vars, BodyInvariant, TypeOK, BytesAreConserved,
     ChunksAreWithinAllowance, ChunksAreAsDeclared
<1>7. QED
  BY <1>1, <1>2, <1>3, <1>4, <1>5, <1>6 DEF Next, Answered

(* The invariant holds throughout every upload. *)
THEOREM BodyIsCut == Spec => []BodyInvariant
BY InitBodyInvariant, NextBodyInvariant, PTL DEF Spec

(* An admitted blob has exactly the chunks its client declared and paid for,
   for every chunk size, declared length and framing of the body. *)
THEOREM AdmittedChunksAreAsDeclared == Spec => []ChunksAreAsDeclared
<1>1. BodyInvariant => ChunksAreAsDeclared
  BY DEF BodyInvariant
<1>2. QED
  BY <1>1, BodyIsCut, PTL

(* An upload never holds more chunks than its allowance. *)
THEOREM UploadsStayWithinAllowance == Spec => []ChunksAreWithinAllowance
<1>1. BodyInvariant => ChunksAreWithinAllowance
  BY DEF BodyInvariant
<1>2. QED
  BY <1>1, BodyIsCut, PTL

(* Every variable keeps its type; the sizes stay within the declared length. *)
THEOREM BodyTypeCorrectness == Spec => []TypeOK
<1>1. BodyInvariant => TypeOK
  BY DEF BodyInvariant
<1>2. QED
  BY <1>1, BodyIsCut, PTL

(* No byte of the body is lost or counted twice while frames are cut. *)
THEOREM NoByteIsLost == Spec => []BytesAreConserved
<1>1. BodyInvariant => BytesAreConserved
  BY DEF BodyInvariant
<1>2. QED
  BY <1>1, BodyIsCut, PTL
=============================================================================
