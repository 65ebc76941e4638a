-------------------------- MODULE BlobTransferProofs --------------------------
(***************************************************************************)
(* Proofs about BlobTransfer, for any transfers and payloads, with streams  *)
(* that break, callers that give up, a consumer that stops and a peer that  *)
(* dies: TransferInvariant is inductive, and implies what an Ok of push and *)
(* of pull means; with what each end was told it makes the protocol         *)
(* implement ChunkTransfer.                                                 *)
(***************************************************************************)
EXTENDS BlobTransfer, SequenceTheorems, TLAPS

-----------------------------------------------------------------------------
(* The inductive invariant: what is on the wire at each point of a transfer. *)

Hash(t) == job[t].hash
Load(t) == job[t].data

Begun(t) ==
  caller[t] # "idle" => Hash(t) \in Data /\ (t \in Pushes => Load(t) \in Data)

(* Nothing happened yet. *)
Untouched(t) ==
  callee[t] \in {"hash", "gone"} /\ held[t] = <<>> /\ up[t] = <<>> /\ down[t] = <<>>

(* The callee of a push acknowledged it, and hands it over unless it dies or
   its consumer has stopped. *)
Acked(t) ==
  \/ callee[t] = "handover"
  \/ callee[t] = "done" /\ (t \in handed \/ crashed \/ ~listening)
  \/ callee[t] = "gone" /\ crashed

PushSafe(t) ==
  /\ caller[t] \in {"idle", "hash", "data", "ack", "reason", "Ok", "Err", "TimedOut"}
  /\ callee[t] \in {"hash", "data", "ack", "handover", "refuse", "done", "failed", "gone"}
  /\ caller[t] = "idle" => Untouched(t)
  /\ callee[t] = "hash" =>
       /\ held[t] = <<>>
       /\ up[t] \in {<<>>, <<Hash(t)>>, <<Hash(t), Load(t)>>}
       /\ caller[t] = "hash" => up[t] = <<>>
       /\ caller[t] = "data" => up[t] = <<Hash(t)>>
  /\ callee[t] = "data" =>
       /\ held[t] = <<Hash(t)>>
       /\ up[t] \in {<<>>, <<Load(t)>>}
       /\ caller[t] # "hash"
       /\ caller[t] = "data" => up[t] = <<>>
  /\ callee[t] \in {"ack", "refuse", "handover", "done"} =>
       held[t] = <<Hash(t), Load(t)>>
  /\ callee[t] \in {"ack", "handover", "done"} => Load(t) = Hash(t)
  /\ callee[t] = "done" => Acked(t)
  /\ callee[t] \in {"hash", "data", "ack", "refuse"} => down[t] = <<>>
  /\ down[t] \in {<<>>, <<Yes>>, <<No, Reason>>, <<Reason>>}
  /\ down[t] = <<Yes>> \/ caller[t] = "Ok" =>
       Acked(t) /\ held[t] = <<Hash(t), Load(t)>> /\ Load(t) = Hash(t)

PullSafe(t) ==
  /\ caller[t] \in {"idle", "hash", "tag", "payload", "Ok", "None", "Err"}
  /\ callee[t] \in {"hash", "reply", "found", "missing", "done", "failed", "gone"}
  /\ caller[t] = "idle" => Untouched(t)
  /\ caller[t] = "hash" => callee[t] \in {"hash", "failed", "gone"} /\ down[t] = <<>>
  /\ callee[t] = "hash" =>
       /\ held[t] = <<>>
       /\ up[t] \in {<<>>, <<Hash(t)>>}
       /\ caller[t] = "hash" => up[t] = <<>>
  /\ callee[t] \in {"reply", "missing"} => held[t] = <<Hash(t)>>
  /\ callee[t] = "found" => \E x \in Data : held[t] = <<Hash(t), x>>
  /\ callee[t] \in {"hash", "reply", "found", "missing"} =>
       down[t] = <<>> /\ caller[t] \notin {"payload", "Ok"}
  /\ caller[t] = "tag" =>
       \/ down[t] \in {<<>>, <<No>>}
       \/ \E x \in Data : down[t] = <<Yes, x>> /\ held[t] = <<Hash(t), x>>
  /\ caller[t] = "payload" =>
       \E x \in Data : down[t] = <<x>> /\ held[t] = <<Hash(t), x>>
  /\ caller[t] = "Ok" => Load(t) = Hash(t) /\ held[t] = <<Hash(t), Load(t)>>

TransferInvariant ==
  /\ TypeOK
  /\ \A t \in Transfers : Begun(t)
  /\ \A t \in Pushes : PushSafe(t)
  /\ \A t \in Pulls : PullSafe(t)

-----------------------------------------------------------------------------
(* Short sequences. *)
LEMMA Frames ==
  ASSUME NEW x, NEW y
  PROVE  /\ <<x>> # <<>> /\ <<x, y>> # <<>> /\ <<x>> # <<x, y>>
         /\ Append(<<>>, x) = <<x>> /\ Append(<<x>>, y) = <<x, y>>
         /\ <<>> \o <<x>> = <<x>> /\ <<>> \o <<x, y>> = <<x, y>>
         /\ Head(<<x>>) = x /\ Head(<<x, y>>) = x
         /\ Tail(<<x>>) = <<>> /\ Tail(<<x, y>>) = <<y>>
         /\ <<x, y>>[1] = x /\ <<x, y>>[2] = y /\ <<x>>[1] = x
<1> DEFINE S == {x, y}
<1>1. /\ <<x>> # <<>> /\ <<x, y>> # <<>> /\ <<x>> # <<x, y>>
      /\ <<x, y>>[1] = x /\ <<x, y>>[2] = y /\ <<x>>[1] = x
  OBVIOUS
<1>2. /\ <<x>> \in Seq(S) /\ <<x, y>> \in Seq(S) /\ y \in S
      /\ Len(<<x>>) = 1 /\ Len(<<x, y>>) = 2
  OBVIOUS
<1>3. Append(<<>>, x) = <<x>>
  OBVIOUS
<1>4. Append(<<x>>, y) = <<x, y>>
  <2> HIDE DEF S
  <2>1. /\ Append(<<x>>, y) \in Seq(S) /\ Len(Append(<<x>>, y)) = 2
        /\ Append(<<x>>, y)[1] = x /\ Append(<<x>>, y)[2] = y
    BY <1>1, <1>2
  <2>2. \A i \in 1 .. 2 : Append(<<x>>, y)[i] = <<x, y>>[i]
    BY <1>1, <2>1
  <2>3. QED
    BY <1>2, <2>1, <2>2, SeqEqual
<1>5. <<>> \o <<x>> = <<x>> /\ <<>> \o <<x, y>> = <<x, y>>
  BY <1>2, ConcatEmptySeq
<1>6. Head(<<x>>) = x /\ Head(<<x, y>>) = x
  OBVIOUS
<1>7. Tail(<<x>>) = <<>> /\ Tail(<<x, y>>) = <<y>>
  OBVIOUS
<1>8. QED
  BY <1>1, <1>3, <1>4, <1>5, <1>6, <1>7

(* The tags and the reason are different strings. *)
LEMMA Tags ==
  /\ Yes # No /\ Yes # Reason /\ No # Reason
  /\ <<Yes>> # <<>> /\ <<Yes>> # <<No, Reason>> /\ <<Yes>> # <<Reason>>
<1>1. Yes # No /\ Yes # Reason /\ No # Reason
  BY DEF Yes, No, Reason
<1>2. QED
  BY <1>1

-----------------------------------------------------------------------------
(* What a step of one transfer leaves alone. *)
Same(s) ==
  /\ job'[s] = job[s] /\ caller'[s] = caller[s] /\ callee'[s] = callee[s]
  /\ held'[s] = held[s] /\ up'[s] = up[s] /\ down'[s] = down[s]
  /\ (s \in handed') <=> (s \in handed)
  /\ crashed' = crashed /\ listening' = listening

Safe(t) == Begun(t) /\ (t \in Pushes => PushSafe(t)) /\ (t \in Pulls => PullSafe(t))

LEMMA SameIsSafe ==
  ASSUME NEW s \in Transfers, Safe(s), Same(s)
  PROVE  Safe(s)'
BY DEF Safe, Same, Begun, PushSafe, PullSafe, Untouched, Acked, Hash, Load

LEMMA OneStep ==
  ASSUME NEW t \in Transfers, TransferInvariant,
         TypeOK', Safe(t)', \A s \in Transfers \ {t} : Same(s)
  PROVE  TransferInvariant'
<1>1. \A s \in Transfers : Safe(s)
  BY DEF TransferInvariant, Safe
<1>2. \A s \in Transfers : Safe(s)'
  BY <1>1, SameIsSafe
<1>3. QED
  BY <1>2 DEF TransferInvariant, Safe, Transfers

(* The invariant of one transfer, and what the types say of it. *)
LEMMA OneTransfer ==
  ASSUME NEW t \in Transfers, TransferInvariant
  PROVE  /\ TypeOK /\ Safe(t)
         /\ job[t] = [hash |-> Hash(t), data |-> Load(t)]
         /\ Hash(t) \in Data \cup {NoData} /\ Load(t) \in Data \cup {NoData}
         /\ t \in Pushes <=> t \notin Pulls
<1>1. job[t] \in [hash : Data \cup {NoData}, data : Data \cup {NoData}]
  BY DEF TransferInvariant, TypeOK
<1>2. QED
  BY <1>1, TransferAssumption DEF TransferInvariant, Safe, Hash, Load, Transfers

-----------------------------------------------------------------------------
(* Steps of the caller. *)

LEMMA BeginIsSafe ==
  ASSUME TransferInvariant, NEW t \in Transfers, Begins(t)
  PROVE  TransferInvariant'
<1>1. PICK hash \in Data, data \in Data \cup {NoData} :
        Begin(t, hash, data) /\ (t \in Pushes => data \in Data)
  BY TransferAssumption DEF Begins
<1>2. TypeOK /\ Safe(t)
  BY OneTransfer
<1>3. /\ job' = [job EXCEPT ![t] = [hash |-> hash, data |-> data]]
      /\ caller[t] = "idle"
      /\ \E at \in {"hash", "Err"} : caller' = [caller EXCEPT ![t] = at]
      /\ UNCHANGED <<callee, held, handed, up, down, broken, crashed, listening>>
  BY <1>1 DEF Begin, Goes, callees, wire
<1>4. TypeOK'
  BY <1>2, <1>3 DEF TypeOK, Calling, Results
<1>5. \A s \in Transfers \ {t} : Same(s)
  BY <1>2, <1>3 DEF TypeOK, Same
<1>6. /\ job'[t] = [hash |-> hash, data |-> data]
      /\ caller'[t] \in {"hash", "Err"}
      /\ callee'[t] = callee[t] /\ held'[t] = held[t] /\ up'[t] = up[t] /\ down'[t] = down[t]
  BY <1>2, <1>3 DEF TypeOK
<1>7. Hash(t)' = hash /\ Load(t)' = data
  BY <1>6 DEF Hash, Load
<1>8. Untouched(t)
  BY <1>2, <1>3 DEF Safe, PushSafe, PullSafe, Transfers
<1>9. Begun(t)'
  BY <1>1, <1>6, <1>7 DEF Begun
<1>10. t \in Pushes => PushSafe(t)'
  BY <1>6, <1>7, <1>8, Frames DEF PushSafe, Untouched
<1>11. t \in Pulls => PullSafe(t)'
  BY <1>6, <1>7, <1>8, Frames DEF PullSafe, Untouched
<1>12. QED
  BY <1>4, <1>5, <1>9, <1>10, <1>11, OneStep DEF Safe

LEMMA WriteHashIsSafe ==
  ASSUME TransferInvariant, NEW t \in Transfers, WriteHash(t)
  PROVE  TransferInvariant'
<1>1. TypeOK /\ Safe(t) /\ (t \in Pushes <=> t \notin Pulls)
  BY OneTransfer
<1>2. /\ caller[t] = "hash"
      /\ up' = [up EXCEPT ![t] = Append(@, Hash(t))]
      /\ caller' = [caller EXCEPT ![t] = IF t \in Pushes THEN "data" ELSE "tag"]
      /\ UNCHANGED <<job, callee, held, handed, down, broken, crashed, listening>>
  BY DEF WriteHash, Sends, Goes, callees, Hash
<1>3. Hash(t) \in Data
  BY <1>1, <1>2 DEF Safe, Begun
<1>4. TypeOK'
  BY <1>1, <1>2, <1>3 DEF TypeOK, Calling
<1>5. \A s \in Transfers \ {t} : Same(s)
  BY <1>1, <1>2 DEF TypeOK, Same
<1>6. /\ up'[t] = Append(up[t], Hash(t))
      /\ caller'[t] = IF t \in Pushes THEN "data" ELSE "tag"
      /\ job'[t] = job[t] /\ callee'[t] = callee[t] /\ held'[t] = held[t] /\ down'[t] = down[t]
      /\ handed' = handed /\ crashed' = crashed /\ listening' = listening
  BY <1>1, <1>2 DEF TypeOK
<1>7. Hash(t)' = Hash(t) /\ Load(t)' = Load(t)
  BY <1>6 DEF Hash, Load
<1>8. Begun(t)'
  BY <1>1, <1>2, <1>6, <1>7 DEF Safe, Begun
<1>9. ASSUME t \in Pushes PROVE PushSafe(t)'
  <2>1. PushSafe(t)
    BY <1>1, <1>9 DEF Safe
  <2>2. callee[t] = "hash" => up'[t] = <<Hash(t)>>
    <3>1. callee[t] = "hash" => up[t] = <<>>
      BY <1>2, <2>1 DEF PushSafe
    <3>2. QED
      BY <1>6, <3>1, Frames
  <2>3. caller'[t] = "data" /\ callee[t] # "data"
    BY <1>2, <1>6, <1>9, <2>1 DEF PushSafe
  <2>4. QED
    BY <1>2, <1>6, <1>7, <2>1, <2>2, <2>3 DEF PushSafe, Acked
<1>10. ASSUME t \in Pulls PROVE PullSafe(t)'
  <2>1. PullSafe(t)
    BY <1>1, <1>10 DEF Safe
  <2>2. callee[t] = "hash" => up'[t] = <<Hash(t)>>
    <3>1. callee[t] = "hash" => up[t] = <<>>
      BY <1>2, <2>1 DEF PullSafe
    <3>2. QED
      BY <1>6, <3>1, Frames
  <2>3. caller'[t] = "tag" /\ down[t] = <<>>
    BY <1>1, <1>2, <1>6, <1>10, <2>1 DEF PullSafe
  <2>4. QED
    BY <1>2, <1>6, <1>7, <2>1, <2>2, <2>3 DEF PullSafe
<1>11. QED
  BY <1>4, <1>5, <1>8, <1>9, <1>10, OneStep DEF Safe

LEMMA WriteDataIsSafe ==
  ASSUME TransferInvariant, NEW t \in Transfers, WriteData(t)
  PROVE  TransferInvariant'
<1>1. TypeOK /\ Safe(t) /\ (t \in Pushes <=> t \notin Pulls)
  BY OneTransfer
<1>2. /\ caller[t] = "data"
      /\ up' = [up EXCEPT ![t] = Append(@, Load(t))]
      /\ caller' = [caller EXCEPT ![t] = "ack"]
      /\ UNCHANGED <<job, callee, held, handed, down, broken, crashed, listening>>
  BY DEF WriteData, Sends, Goes, callees, Load
<1>3. t \in Pushes
  BY <1>1, <1>2 DEF Safe, PullSafe, Transfers
<1>4. PushSafe(t) /\ Hash(t) \in Data /\ Load(t) \in Data
  BY <1>1, <1>2, <1>3 DEF Safe, Begun
<1>5. TypeOK'
  BY <1>1, <1>2, <1>4 DEF TypeOK, Calling
<1>6. \A s \in Transfers \ {t} : Same(s)
  BY <1>1, <1>2 DEF TypeOK, Same
<1>7. /\ up'[t] = Append(up[t], Load(t)) /\ caller'[t] = "ack"
      /\ job'[t] = job[t] /\ callee'[t] = callee[t] /\ held'[t] = held[t] /\ down'[t] = down[t]
      /\ handed' = handed /\ crashed' = crashed /\ listening' = listening
  BY <1>1, <1>2 DEF TypeOK
<1>8. Hash(t)' = Hash(t) /\ Load(t)' = Load(t)
  BY <1>7 DEF Hash, Load
<1>9. /\ callee[t] = "hash" => up'[t] = <<Hash(t), Load(t)>>
      /\ callee[t] = "data" => up'[t] = <<Load(t)>>
  <2>1. /\ callee[t] = "hash" => up[t] = <<Hash(t)>>
        /\ callee[t] = "data" => up[t] = <<>>
    BY <1>2, <1>4 DEF PushSafe
  <2>2. /\ Append(<<Hash(t)>>, Load(t)) = <<Hash(t), Load(t)>>
        /\ Append(<<>>, Load(t)) = <<Load(t)>>
    BY Frames
  <2>3. QED
    BY <1>7, <2>1, <2>2
<1>10. Begun(t)' /\ PushSafe(t)'
  BY <1>2, <1>4, <1>7, <1>8, <1>9 DEF PushSafe, Acked, Begun
<1>11. QED
  BY <1>1, <1>3, <1>5, <1>6, <1>10, OneStep DEF Safe

LEMMA ReadAckIsSafe ==
  ASSUME TransferInvariant, NEW t \in Transfers, ReadAck(t)
  PROVE  TransferInvariant'
<1>1. TypeOK /\ Safe(t) /\ (t \in Pushes <=> t \notin Pulls)
  BY OneTransfer
<1>2. /\ caller[t] = "ack" /\ down[t] # <<>>
      /\ down' = [down EXCEPT ![t] = Tail(@)]
      /\ caller' = [caller EXCEPT ![t] = IF Head(down[t]) = Yes THEN "Ok" ELSE "reason"]
      /\ UNCHANGED <<job, callee, held, handed, up, broken, crashed, listening>>
  BY DEF ReadAck, Reads, Goes, callees
<1>3. t \in Pushes
  BY <1>1, <1>2 DEF Safe, PullSafe, Transfers
<1>4. PushSafe(t) /\ Hash(t) \in Data /\ Load(t) \in Data
  BY <1>1, <1>2, <1>3 DEF Safe, Begun
<1>5. TypeOK'
  BY <1>1, <1>2 DEF TypeOK, Calling, Results
<1>6. \A s \in Transfers \ {t} : Same(s)
  BY <1>1, <1>2 DEF TypeOK, Same
<1>7. /\ down'[t] = Tail(down[t])
      /\ caller'[t] = IF Head(down[t]) = Yes THEN "Ok" ELSE "reason"
      /\ job'[t] = job[t] /\ callee'[t] = callee[t] /\ held'[t] = held[t] /\ up'[t] = up[t]
      /\ handed' = handed /\ crashed' = crashed /\ listening' = listening
  BY <1>1, <1>2 DEF TypeOK
<1>8. Hash(t)' = Hash(t) /\ Load(t)' = Load(t)
  BY <1>7 DEF Hash, Load
<1>9. \/ down[t] = <<Yes>> /\ caller'[t] = "Ok" /\ down'[t] = <<>>
      \/ down[t] # <<Yes>> /\ caller'[t] = "reason" /\ down'[t] \in {<<>>, <<Reason>>}
  <2>1. down[t] \in {<<Yes>>, <<No, Reason>>, <<Reason>>}
    BY <1>2, <1>4 DEF PushSafe
  <2>2. CASE down[t] = <<Yes>>
    BY <1>7, <2>2, Frames
  <2>3. CASE down[t] = <<No, Reason>>
    BY <1>7, <2>3, Frames, Tags
  <2>4. CASE down[t] = <<Reason>>
    BY <1>7, <2>4, Frames, Tags
  <2>5. QED
    BY <2>1, <2>2, <2>3, <2>4
<1>10. callee[t] \notin {"hash", "data", "ack", "refuse"}
  BY <1>2, <1>4 DEF PushSafe
<1>11. Begun(t)' /\ PushSafe(t)'
  BY <1>2, <1>4, <1>7, <1>8, <1>9, <1>10, Tags DEF PushSafe, Acked, Begun
<1>12. QED
  BY <1>1, <1>3, <1>5, <1>6, <1>11, OneStep DEF Safe

LEMMA ReadReasonIsSafe ==
  ASSUME TransferInvariant, NEW t \in Transfers, ReadReason(t)
  PROVE  TransferInvariant'
<1>1. TypeOK /\ Safe(t) /\ (t \in Pushes <=> t \notin Pulls)
  BY OneTransfer
<1>2. /\ caller[t] = "reason" /\ down[t] # <<>>
      /\ down' = [down EXCEPT ![t] = Tail(@)]
      /\ caller' = [caller EXCEPT ![t] = "Err"]
      /\ UNCHANGED <<job, callee, held, handed, up, broken, crashed, listening>>
  BY DEF ReadReason, Reads, Goes, callees
<1>3. t \in Pushes
  BY <1>1, <1>2 DEF Safe, PullSafe, Transfers
<1>4. PushSafe(t) /\ Hash(t) \in Data /\ Load(t) \in Data
  BY <1>1, <1>2, <1>3 DEF Safe, Begun
<1>5. TypeOK'
  BY <1>1, <1>2 DEF TypeOK, Calling, Results
<1>6. \A s \in Transfers \ {t} : Same(s)
  BY <1>1, <1>2 DEF TypeOK, Same
<1>7. /\ down'[t] = Tail(down[t]) /\ caller'[t] = "Err"
      /\ job'[t] = job[t] /\ callee'[t] = callee[t] /\ held'[t] = held[t] /\ up'[t] = up[t]
      /\ handed' = handed /\ crashed' = crashed /\ listening' = listening
  BY <1>1, <1>2 DEF TypeOK
<1>8. Hash(t)' = Hash(t) /\ Load(t)' = Load(t)
  BY <1>7 DEF Hash, Load
<1>9. down'[t] \in {<<>>, <<Reason>>}
  <2>1. down[t] \in {<<Yes>>, <<No, Reason>>, <<Reason>>}
    BY <1>2, <1>4 DEF PushSafe
  <2>2. Tail(<<Yes>>) = <<>> /\ Tail(<<No, Reason>>) = <<Reason>> /\ Tail(<<Reason>>) = <<>>
    BY Frames
  <2>3. QED
    BY <1>7, <2>1, <2>2
<1>10. callee[t] \notin {"hash", "data", "ack", "refuse"}
  BY <1>2, <1>4 DEF PushSafe
<1>11. Begun(t)' /\ PushSafe(t)'
  BY <1>2, <1>4, <1>7, <1>8, <1>9, <1>10, Tags DEF PushSafe, Acked, Begun
<1>12. QED
  BY <1>1, <1>3, <1>5, <1>6, <1>11, OneStep DEF Safe

LEMMA ReadTagIsSafe ==
  ASSUME TransferInvariant, NEW t \in Transfers, ReadTag(t)
  PROVE  TransferInvariant'
<1>1. TypeOK /\ Safe(t) /\ (t \in Pushes <=> t \notin Pulls)
  BY OneTransfer
<1>2. /\ caller[t] = "tag" /\ down[t] # <<>>
      /\ down' = [down EXCEPT ![t] = Tail(@)]
      /\ caller' = [caller EXCEPT ![t] = IF Head(down[t]) = No THEN "None" ELSE "payload"]
      /\ UNCHANGED <<job, callee, held, handed, up, broken, crashed, listening>>
  BY DEF ReadTag, Reads, Goes, callees
<1>3. t \in Pulls
  BY <1>1, <1>2 DEF Safe, PushSafe, Transfers
<1>4. PullSafe(t) /\ Hash(t) \in Data
  BY <1>1, <1>2, <1>3 DEF Safe, Begun
<1>5. TypeOK'
  BY <1>1, <1>2 DEF TypeOK, Calling, Results
<1>6. \A s \in Transfers \ {t} : Same(s)
  BY <1>1, <1>2 DEF TypeOK, Same
<1>7. /\ down'[t] = Tail(down[t])
      /\ caller'[t] = IF Head(down[t]) = No THEN "None" ELSE "payload"
      /\ job'[t] = job[t] /\ callee'[t] = callee[t] /\ held'[t] = held[t] /\ up'[t] = up[t]
      /\ handed' = handed /\ crashed' = crashed /\ listening' = listening
  BY <1>1, <1>2 DEF TypeOK
<1>8. Hash(t)' = Hash(t) /\ Load(t)' = Load(t)
  BY <1>7 DEF Hash, Load
<1>9. \/ caller'[t] = "None"
      \/ /\ caller'[t] = "payload"
         /\ \E x \in Data : down'[t] = <<x>> /\ held[t] = <<Hash(t), x>>
  <2>1. CASE down[t] = <<No>>
    BY <1>7, <2>1, Frames
  <2>2. ASSUME NEW x \in Data, down[t] = <<Yes, x>>, held[t] = <<Hash(t), x>>
        PROVE  caller'[t] = "payload" /\ down'[t] = <<x>>
    BY <1>7, <2>2, Frames, Tags
  <2>3. QED
    BY <1>2, <1>4, <2>1, <2>2 DEF PullSafe
<1>10. callee[t] \notin {"hash", "reply", "found", "missing"}
  BY <1>2, <1>4 DEF PullSafe
<1>11. Begun(t)' /\ PullSafe(t)'
  BY <1>1, <1>2, <1>3, <1>4, <1>7, <1>8, <1>9, <1>10 DEF PullSafe, Begun
<1>12. QED
  BY <1>1, <1>3, <1>5, <1>6, <1>11, OneStep DEF Safe

LEMMA ReadPayloadIsSafe ==
  ASSUME TransferInvariant, NEW t \in Transfers, ReadPayload(t)
  PROVE  TransferInvariant'
<1>1. TypeOK /\ Safe(t) /\ (t \in Pushes <=> t \notin Pulls)
  BY OneTransfer
<1>2. caller[t] = "payload"
  BY DEF ReadPayload
<1>3. t \in Pulls
  BY <1>1, <1>2 DEF Safe, PushSafe, Transfers
<1>4. PullSafe(t) /\ Hash(t) \in Data
  BY <1>1, <1>2, <1>3 DEF Safe, Begun
<1>5. PICK x \in Data : down[t] = <<x>> /\ held[t] = <<Hash(t), x>>
  BY <1>2, <1>4 DEF PullSafe
<1>6. Head(down[t]) = x /\ Tail(down[t]) = <<>>
  BY <1>5, Frames
<1>7. /\ job' = [job EXCEPT ![t].data = x]
      /\ down' = [down EXCEPT ![t] = Tail(@)]
      /\ \/ caller' = [caller EXCEPT ![t] = "Ok"] /\ x = Hash(t)
         \/ caller' = [caller EXCEPT ![t] = "Err"]
      /\ UNCHANGED <<callee, held, handed, up, broken, crashed, listening>>
  BY <1>6 DEF ReadPayload, Reads, Goes, Matches, callees, Hash
<1>8. TypeOK'
  <2> DEFINE Jobs == [hash : Data \cup {NoData}, data : Data \cup {NoData}]
  <2>1. job' \in [Transfers -> Jobs]
    <3>1. job \in [Transfers -> Jobs] /\ job[t] \in Jobs
      BY <1>1 DEF TypeOK
    <3>2. [job[t] EXCEPT !.data = x] \in Jobs
      BY <3>1
    <3>3. job' = [job EXCEPT ![t] = [job[t] EXCEPT !.data = x]]
      BY <1>7
    <3> HIDE DEF Jobs
    <3>4. QED
      BY <3>1, <3>2, <3>3
  <2>2. caller' \in [Transfers -> {"idle"} \cup Calling \cup Results]
    BY <1>1, <1>7 DEF TypeOK, Results
  <2>3. down' \in [Transfers -> Seq(Data \cup {Yes, No, Reason})]
    BY <1>1, <1>5, <1>7 DEF TypeOK
  <2>4. QED
    BY <1>1, <1>7, <2>1, <2>2, <2>3 DEF TypeOK
<1>9. \A s \in Transfers \ {t} : Same(s)
  BY <1>1, <1>7 DEF TypeOK, Same
<1>10. /\ Hash(t)' = Hash(t) /\ Load(t)' = x
       /\ (caller'[t] = "Ok" /\ x = Hash(t)) \/ caller'[t] = "Err"
       /\ callee'[t] = callee[t] /\ held'[t] = held[t]
  BY <1>1, <1>7 DEF TypeOK, Hash, Load
<1>11. callee[t] \notin {"hash", "reply", "found", "missing"}
  BY <1>2, <1>4 DEF PullSafe
<1>12. Begun(t)' /\ PullSafe(t)'
  BY <1>1, <1>3, <1>4, <1>5, <1>10, <1>11 DEF PullSafe, Begun
<1>13. QED
  BY <1>1, <1>3, <1>8, <1>9, <1>12, OneStep DEF Safe

(* A failed read or write, and the timeout of a push: the caller is done. *)
LEMMA EndIsSafe ==
  ASSUME TransferInvariant, NEW t \in Transfers, CallerFails(t) \/ TimesOut(t)
  PROVE  TransferInvariant'
<1>1. TypeOK /\ Safe(t) /\ (t \in Pushes <=> t \notin Pulls)
  BY OneTransfer
<1>2. PICK end \in {"Err", "TimedOut"} :
        /\ caller[t] \in Calling /\ (end = "TimedOut" => t \in Pushes)
        /\ caller' = [caller EXCEPT ![t] = end]
        /\ broken' \subseteq broken \cup {t}
        /\ UNCHANGED <<job, callee, held, handed, up, down, crashed, listening>>
  BY DEF CallerFails, AfterBreak, TimesOut, Underway, Goes, callees, wire
<1>3. TypeOK'
  BY <1>1, <1>2 DEF TypeOK, Results
<1>4. \A s \in Transfers \ {t} : Same(s)
  BY <1>1, <1>2 DEF TypeOK, Same
<1>5. /\ caller'[t] = end /\ Hash(t)' = Hash(t) /\ Load(t)' = Load(t)
      /\ callee'[t] = callee[t] /\ held'[t] = held[t] /\ up'[t] = up[t] /\ down'[t] = down[t]
      /\ handed' = handed /\ crashed' = crashed /\ listening' = listening
  BY <1>1, <1>2 DEF TypeOK, Hash, Load
<1>6. Begun(t)'
  BY <1>1, <1>2, <1>5 DEF Safe, Begun, Calling
<1>7. t \in Pushes => PushSafe(t)'
  BY <1>1, <1>2, <1>5 DEF Safe, PushSafe, Acked, Calling
<1>8. t \in Pulls => PullSafe(t)'
  BY <1>1, <1>2, <1>5 DEF Safe, PullSafe, Calling
<1>9. QED
  BY <1>3, <1>4, <1>6, <1>7, <1>8, OneStep DEF Safe

-----------------------------------------------------------------------------
(* Steps of the callee and of its consumer. *)

LEMMA TakeHashIsSafe ==
  ASSUME TransferInvariant, NEW t \in Transfers, TakeHash(t)
  PROVE  TransferInvariant'
<1>1. TypeOK /\ Safe(t) /\ (t \in Pushes <=> t \notin Pulls)
  BY OneTransfer
<1>2. /\ callee[t] = "hash" /\ up[t] # <<>>
      /\ up' = [up EXCEPT ![t] = Tail(@)]
      /\ held' = [held EXCEPT ![t] = Append(@, Head(up[t]))]
      /\ callee' = [callee EXCEPT ![t] = IF t \in Pushes THEN "data" ELSE "reply"]
      /\ UNCHANGED <<job, caller, handed, down, broken, crashed, listening>>
  BY DEF TakeHash, Takes, Steps
<1>3. TypeOK'
  <2>1. up' \in [Transfers -> Seq(Data)]
    BY <1>1, <1>2 DEF TypeOK
  <2>2. Head(up[t]) \in Data
    BY <1>1, <1>2 DEF TypeOK
  <2>3. held' \in [Transfers -> Seq(Data)]
    BY <1>1, <1>2, <2>2 DEF TypeOK
  <2>4. callee' \in [Transfers -> Serving \cup {"done", "failed", "gone"}]
    BY <1>1, <1>2 DEF TypeOK, Serving
  <2>5. QED
    BY <1>1, <1>2, <2>1, <2>3, <2>4 DEF TypeOK
<1>4. \A s \in Transfers \ {t} : Same(s)
  BY <1>1, <1>2 DEF TypeOK, Same
<1>5. /\ up'[t] = Tail(up[t]) /\ held'[t] = Append(held[t], Head(up[t]))
      /\ callee'[t] = (IF t \in Pushes THEN "data" ELSE "reply")
      /\ Hash(t)' = Hash(t) /\ Load(t)' = Load(t)
      /\ caller'[t] = caller[t] /\ down'[t] = down[t]
  BY <1>1, <1>2 DEF TypeOK, Hash, Load
<1>6. Begun(t)'
  BY <1>1, <1>5 DEF Safe, Begun
<1>7. ASSUME t \in Pushes PROVE PushSafe(t)'
  <2>1. PushSafe(t)
    BY <1>1, <1>7 DEF Safe
  <2>2. /\ held[t] = <<>> /\ down[t] = <<>> /\ caller[t] \notin {"idle", "hash", "Ok"}
        /\ \/ up[t] = <<Hash(t)>>
           \/ up[t] = <<Hash(t), Load(t)>> /\ caller[t] # "data"
    <3>1. <<Hash(t)>> # <<Hash(t), Load(t)>>
      BY Frames
    <3>2. QED
      BY <1>2, <2>1, <3>1 DEF PushSafe, Untouched, Acked
  <2>3. /\ held'[t] = <<Hash(t)>>
        /\ \/ up'[t] = <<>>
           \/ up'[t] = <<Load(t)>> /\ caller[t] # "data"
    <3>1. /\ Append(<<>>, Hash(t)) = <<Hash(t)>>
          /\ Head(<<Hash(t)>>) = Hash(t) /\ Head(<<Hash(t), Load(t)>>) = Hash(t)
          /\ Tail(<<Hash(t)>>) = <<>> /\ Tail(<<Hash(t), Load(t)>>) = <<Load(t)>>
      BY Frames
    <3>2. QED
      BY <1>5, <2>2, <3>1
  <2>4. QED
    BY <1>5, <1>7, <2>1, <2>2, <2>3, Tags DEF PushSafe
<1>8. ASSUME t \in Pulls PROVE PullSafe(t)'
  <2>1. PullSafe(t)
    BY <1>1, <1>8 DEF Safe
  <2>2. /\ held[t] = <<>> /\ down[t] = <<>> /\ up[t] = <<Hash(t)>>
        /\ caller[t] \notin {"idle", "hash", "payload", "Ok"}
    BY <1>2, <2>1 DEF PullSafe, Untouched
  <2>3. held'[t] = <<Hash(t)>>
    <3>1. Append(<<>>, Hash(t)) = <<Hash(t)>> /\ Head(<<Hash(t)>>) = Hash(t)
      BY Frames
    <3>2. QED
      BY <1>5, <2>2, <3>1
  <2>4. QED
    BY <1>1, <1>5, <1>8, <2>1, <2>2, <2>3 DEF PullSafe
<1>9. QED
  BY <1>3, <1>4, <1>6, <1>7, <1>8, OneStep DEF Safe

LEMMA TakeDataIsSafe ==
  ASSUME TransferInvariant, NEW t \in Transfers, TakeData(t)
  PROVE  TransferInvariant'
<1>1. TypeOK /\ Safe(t) /\ (t \in Pushes <=> t \notin Pulls)
  BY OneTransfer
<1>2. callee[t] = "data" /\ up[t] # <<>>
  BY DEF TakeData, Takes
<1>3. t \in Pushes
  BY <1>1, <1>2 DEF Safe, PullSafe, Transfers
<1>4. PushSafe(t)
  BY <1>1, <1>3 DEF Safe
<1>5. /\ up[t] = <<Load(t)>> /\ held[t] = <<Hash(t)>> /\ down[t] = <<>>
      /\ caller[t] \notin {"idle", "Ok"}
  BY <1>2, <1>4 DEF PushSafe, Untouched, Acked
<1>6. Head(up[t]) = Load(t) /\ Tail(up[t]) = <<>> /\ held[t][1] = Hash(t)
  BY <1>5, Frames
<1>7. /\ up' = [up EXCEPT ![t] = Tail(@)]
      /\ held' = [held EXCEPT ![t] = Append(@, Load(t))]
      /\ \E at \in {"failed", "ack", "refuse"} :
           /\ callee' = [callee EXCEPT ![t] = at]
           /\ at = "ack" => Load(t) = Hash(t)
      /\ broken' \subseteq broken \cup {t}
      /\ UNCHANGED <<job, caller, handed, down, crashed, listening>>
  BY <1>6 DEF TakeData, Takes, Steps, Matches
<1>8. Load(t) \in Data
  BY <1>1, <1>3, <1>5 DEF Safe, Begun
<1>9. TypeOK'
  BY <1>1, <1>2, <1>7, <1>8 DEF TypeOK, Serving
<1>10. \A s \in Transfers \ {t} : Same(s)
  BY <1>1, <1>7 DEF TypeOK, Same
<1>11. /\ up'[t] = <<>> /\ held'[t] = Append(held[t], Load(t))
       /\ callee'[t] \in {"failed", "ack", "refuse"}
       /\ callee'[t] = "ack" => Load(t) = Hash(t)
       /\ Hash(t)' = Hash(t) /\ Load(t)' = Load(t)
       /\ caller'[t] = caller[t] /\ down'[t] = down[t]
  BY <1>1, <1>6, <1>7 DEF TypeOK, Hash, Load
<1>12. held'[t] = <<Hash(t), Load(t)>>
  <2>1. Append(<<Hash(t)>>, Load(t)) = <<Hash(t), Load(t)>>
    BY Frames
  <2>2. QED
    BY <1>5, <1>11, <2>1
<1>13. Begun(t)' /\ PushSafe(t)'
  BY <1>1, <1>3, <1>4, <1>5, <1>11, <1>12, Tags DEF Safe, Begun, PushSafe
<1>14. QED
  BY <1>1, <1>3, <1>9, <1>10, <1>13, OneStep DEF Safe

LEMMA WriteAckIsSafe ==
  ASSUME TransferInvariant, NEW t \in Transfers, WriteAck(t)
  PROVE  TransferInvariant'
<1>1. TypeOK /\ Safe(t) /\ (t \in Pushes <=> t \notin Pulls)
  BY OneTransfer
<1>2. callee[t] = "ack"
  BY DEF WriteAck
<1>3. t \in Pushes
  BY <1>1, <1>2 DEF Safe, PullSafe, Transfers
<1>4. PushSafe(t)
  BY <1>1, <1>3 DEF Safe
<1>5. down[t] = <<>> /\ caller[t] \notin {"idle", "Ok"}
  BY <1>2, <1>4 DEF PushSafe, Untouched, Acked
<1>6. <<>> \o <<Yes>> = <<Yes>>
  BY Frames
<1>7. /\ down' = [down EXCEPT ![t] = <<Yes>>]
      /\ callee' = [callee EXCEPT ![t] = "handover"]
      /\ UNCHANGED <<job, caller, held, handed, up, broken, crashed, listening>>
  BY <1>1, <1>5, <1>6 DEF WriteAck, Answers, Steps, TypeOK
<1>8. TypeOK'
  BY <1>1, <1>7 DEF TypeOK, Serving
<1>9. \A s \in Transfers \ {t} : Same(s)
  BY <1>1, <1>7 DEF TypeOK, Same
<1>10. /\ down'[t] = <<Yes>> /\ callee'[t] = "handover"
       /\ Hash(t)' = Hash(t) /\ Load(t)' = Load(t)
       /\ caller'[t] = caller[t] /\ held'[t] = held[t] /\ up'[t] = up[t]
       /\ handed' = handed /\ crashed' = crashed /\ listening' = listening
  BY <1>1, <1>7 DEF TypeOK, Hash, Load
<1>11. Begun(t)' /\ PushSafe(t)'
  BY <1>1, <1>2, <1>3, <1>4, <1>5, <1>10, Tags DEF Safe, Begun, PushSafe, Acked
<1>12. QED
  BY <1>1, <1>3, <1>8, <1>9, <1>11, OneStep DEF Safe

LEMMA RefuseIsSafe ==
  ASSUME TransferInvariant, NEW t \in Transfers, Refuse(t)
  PROVE  TransferInvariant'
<1>1. TypeOK /\ Safe(t) /\ (t \in Pushes <=> t \notin Pulls)
  BY OneTransfer
<1>2. callee[t] = "refuse"
  BY DEF Refuse
<1>3. t \in Pushes
  BY <1>1, <1>2 DEF Safe, PullSafe, Transfers
<1>4. PushSafe(t)
  BY <1>1, <1>3 DEF Safe
<1>5. down[t] = <<>> /\ caller[t] \notin {"idle", "Ok"}
  BY <1>2, <1>4 DEF PushSafe, Untouched, Acked
<1>6. <<>> \o <<No, Reason>> = <<No, Reason>>
  BY Frames
<1>7. /\ down' = [down EXCEPT ![t] = <<No, Reason>>]
      /\ callee' = [callee EXCEPT ![t] = "failed"]
      /\ UNCHANGED <<job, caller, held, handed, up, broken, crashed, listening>>
  BY <1>1, <1>5, <1>6 DEF Refuse, Answers, Steps, TypeOK
<1>8. TypeOK'
  BY <1>1, <1>7 DEF TypeOK, Serving
<1>9. \A s \in Transfers \ {t} : Same(s)
  BY <1>1, <1>7 DEF TypeOK, Same
<1>10. /\ down'[t] = <<No, Reason>> /\ callee'[t] = "failed"
       /\ Hash(t)' = Hash(t) /\ Load(t)' = Load(t)
       /\ caller'[t] = caller[t] /\ held'[t] = held[t] /\ up'[t] = up[t]
       /\ handed' = handed /\ crashed' = crashed /\ listening' = listening
  BY <1>1, <1>7 DEF TypeOK, Hash, Load
<1>11. Begun(t)' /\ PushSafe(t)'
  BY <1>1, <1>2, <1>3, <1>4, <1>5, <1>10, Tags DEF Safe, Begun, PushSafe, Acked
<1>12. QED
  BY <1>1, <1>3, <1>8, <1>9, <1>11, OneStep DEF Safe

LEMMA HandOverIsSafe ==
  ASSUME TransferInvariant, NEW t \in Transfers, HandOver(t)
  PROVE  TransferInvariant'
<1>1. TypeOK /\ Safe(t) /\ (t \in Pushes <=> t \notin Pulls)
  BY OneTransfer
<1>2. /\ callee[t] = "handover"
      /\ callee' = [callee EXCEPT ![t] = "done"]
      /\ handed' = IF listening THEN handed \cup {t} ELSE handed
      /\ UNCHANGED <<job, caller, held, up, down, broken, crashed, listening>>
  BY DEF HandOver, Steps, HandsOver, wire
<1>3. t \in Pushes
  BY <1>1, <1>2 DEF Safe, PullSafe, Transfers
<1>4. TypeOK'
  BY <1>1, <1>2, <1>3 DEF TypeOK
<1>5. \A s \in Transfers \ {t} : Same(s)
  BY <1>1, <1>2 DEF TypeOK, Same
<1>6. /\ callee'[t] = "done" /\ (t \in handed' \/ ~listening')
      /\ Hash(t)' = Hash(t) /\ Load(t)' = Load(t)
      /\ caller'[t] = caller[t] /\ held'[t] = held[t] /\ up'[t] = up[t] /\ down'[t] = down[t]
  BY <1>1, <1>2 DEF TypeOK, Hash, Load
<1>7. Begun(t)' /\ PushSafe(t)'
  BY <1>1, <1>2, <1>3, <1>6 DEF Safe, Begun, PushSafe, Acked, Untouched
<1>8. QED
  BY <1>1, <1>3, <1>4, <1>5, <1>7, OneStep DEF Safe

(* The consumer responds with data, or with nothing. *)
LEMMA ConsumerIsSafe ==
  ASSUME TransferInvariant, NEW t \in Transfers, ConsumerSteps(t)
  PROVE  TransferInvariant'
<1>1. TypeOK /\ Safe(t) /\ (t \in Pushes <=> t \notin Pulls)
  BY OneTransfer
<1>2. callee[t] = "reply"
  BY DEF ConsumerSteps, DropPull, Respond
<1>3. t \in Pulls
  BY <1>1, <1>2 DEF Safe, PushSafe, Transfers
<1>4. PullSafe(t)
  BY <1>1, <1>3 DEF Safe
<1>5. /\ held[t] = <<Hash(t)>> /\ down[t] = <<>>
      /\ caller[t] \notin {"idle", "hash", "payload", "Ok"}
  BY <1>2, <1>4 DEF PullSafe, Untouched
<1>6. /\ \/ /\ callee' = [callee EXCEPT ![t] = "missing"]
            /\ held' = held
         \/ /\ callee' = [callee EXCEPT ![t] = "found"]
            /\ \E x \in Data : held' = [held EXCEPT ![t] = Append(@, x)]
      /\ UNCHANGED <<job, caller, handed, up, down, broken, crashed, listening>>
  BY DEF ConsumerSteps, DropPull, Respond, Steps, wire, AfterDrop
<1>7. TypeOK'
  <2>1. held' \in [Transfers -> Seq(Data)]
    <3>1. held \in [Transfers -> Seq(Data)] /\ held[t] \in Seq(Data)
      BY <1>1 DEF TypeOK
    <3>2. \A x \in Data : Append(held[t], x) \in Seq(Data)
      BY <3>1
    <3>3. QED
      BY <1>6, <3>1, <3>2
  <2>2. callee' \in [Transfers -> Serving \cup {"done", "failed", "gone"}]
    BY <1>1, <1>6 DEF TypeOK, Serving
  <2>3. QED
    BY <1>1, <1>6, <2>1, <2>2 DEF TypeOK
<1>8. \A s \in Transfers \ {t} : Same(s)
  BY <1>1, <1>6 DEF TypeOK, Same
<1>9. /\ Hash(t)' = Hash(t) /\ Load(t)' = Load(t)
      /\ caller'[t] = caller[t] /\ down'[t] = down[t]
      /\ \/ callee'[t] = "missing" /\ held'[t] = held[t]
         \/ callee'[t] = "found" /\ \E x \in Data : held'[t] = Append(held[t], x)
  BY <1>1, <1>6 DEF TypeOK, Hash, Load
<1>10. callee'[t] = "found" => \E x \in Data : held'[t] = <<Hash(t), x>>
  <2>1. \A x \in Data : Append(<<Hash(t)>>, x) = <<Hash(t), x>>
    BY Frames
  <2>2. QED
    BY <1>5, <1>9, <2>1
<1>11. Begun(t)' /\ PullSafe(t)'
  BY <1>1, <1>3, <1>4, <1>5, <1>9, <1>10 DEF Safe, Begun, PullSafe
<1>12. QED
  BY <1>1, <1>3, <1>7, <1>8, <1>11, OneStep DEF Safe

LEMMA WriteReplyIsSafe ==
  ASSUME TransferInvariant, NEW t \in Transfers, WriteReply(t)
  PROVE  TransferInvariant'
<1>1. TypeOK /\ Safe(t) /\ (t \in Pushes <=> t \notin Pulls)
  BY OneTransfer
<1>2. callee[t] \in {"found", "missing"}
  BY DEF WriteReply
<1>3. t \in Pulls
  BY <1>1, <1>2 DEF Safe, PushSafe, Transfers
<1>4. PullSafe(t)
  BY <1>1, <1>3 DEF Safe
<1>5. down[t] = <<>> /\ caller[t] \notin {"idle", "hash", "payload", "Ok"}
  BY <1>2, <1>4 DEF PullSafe, Untouched
<1>6. PICK frames : /\ \/ frames = <<No>>
                       \/ \E x \in Data : frames = <<Yes, x>> /\ held[t] = <<Hash(t), x>>
                    /\ frames = IF callee[t] = "found" THEN <<Yes, held[t][2]>> ELSE <<No>>
  <2>1. CASE callee[t] = "missing"
    BY <2>1
  <2>2. CASE callee[t] = "found"
    <3>1. PICK x \in Data : held[t] = <<Hash(t), x>>
      BY <1>4, <2>2 DEF PullSafe
    <3>2. held[t][2] = x
      BY <3>1, Frames
    <3>3. QED
      BY <2>2, <3>1, <3>2
  <2>3. QED
    BY <1>2, <2>1, <2>2
<1>7. <<>> \o frames = frames /\ frames \in Seq(Data \cup {Yes, No, Reason})
  <2>1. frames \in Seq(Data \cup {Yes, No, Reason})
    <3>1. CASE frames = <<No>>
      BY <3>1
    <3>2. CASE \E x \in Data : frames = <<Yes, x>>
      <4>1. PICK x \in Data : frames = <<Yes, x>>
        BY <3>2
      <4>2. <<Yes, x>> \in Seq(Data \cup {Yes, No, Reason})
        OBVIOUS
      <4>3. QED
        BY <4>1, <4>2
    <3>3. QED
      BY <1>6, <3>1, <3>2
  <2>2. QED
    BY <2>1, ConcatEmptySeq
<1>8. /\ down' = [down EXCEPT ![t] = frames]
      /\ callee' = [callee EXCEPT ![t] = "done"]
      /\ UNCHANGED <<job, caller, held, handed, up, broken, crashed, listening>>
  BY <1>1, <1>5, <1>6, <1>7 DEF WriteReply, Answers, Steps, TypeOK
<1>9. TypeOK'
  BY <1>1, <1>7, <1>8 DEF TypeOK, Serving
<1>10. \A s \in Transfers \ {t} : Same(s)
  BY <1>1, <1>8 DEF TypeOK, Same
<1>11. /\ Hash(t)' = Hash(t) /\ Load(t)' = Load(t) /\ caller'[t] = caller[t]
       /\ down'[t] = frames /\ callee'[t] = "done" /\ held'[t] = held[t]
  BY <1>1, <1>8 DEF TypeOK, Hash, Load
<1>12. Begun(t)' /\ PullSafe(t)'
  BY <1>1, <1>3, <1>4, <1>5, <1>6, <1>11 DEF Safe, Begun, PullSafe
<1>13. QED
  BY <1>1, <1>3, <1>9, <1>10, <1>12, OneStep DEF Safe

LEMMA CalleeFailsIsSafe ==
  ASSUME TransferInvariant, NEW t \in Transfers, CalleeFails(t)
  PROVE  TransferInvariant'
<1>1. TypeOK /\ Safe(t) /\ (t \in Pushes <=> t \notin Pulls)
  BY OneTransfer
<1>2. /\ caller[t] # "idle" /\ callee[t] \in Serving \ {"handover", "reply"}
      /\ callee' = [callee EXCEPT ![t] = "failed"]
      /\ UNCHANGED <<job, caller, held, handed, up, down, broken, crashed, listening>>
  BY DEF CalleeFails, Open, Steps, wire
<1>3. TypeOK'
  BY <1>1, <1>2 DEF TypeOK
<1>4. \A s \in Transfers \ {t} : Same(s)
  BY <1>1, <1>2 DEF TypeOK, Same
<1>5. /\ callee'[t] = "failed"
      /\ Hash(t)' = Hash(t) /\ Load(t)' = Load(t) /\ caller'[t] = caller[t]
      /\ held'[t] = held[t] /\ up'[t] = up[t] /\ down'[t] = down[t]
  BY <1>1, <1>2 DEF TypeOK, Hash, Load
<1>6. Begun(t)'
  BY <1>1, <1>5 DEF Safe, Begun
<1>7. t \in Pushes => PushSafe(t)'
  BY <1>1, <1>2, <1>5 DEF Safe, PushSafe, Acked, Serving
<1>8. t \in Pulls => PullSafe(t)'
  BY <1>1, <1>2, <1>5 DEF Safe, PullSafe, Serving
<1>9. QED
  BY <1>3, <1>4, <1>6, <1>7, <1>8, OneStep DEF Safe

-----------------------------------------------------------------------------
(* The streams and the process. *)

LEMMA UntouchedIsSafe ==
  ASSUME TransferInvariant, broken' \subseteq Transfers,
         UNCHANGED <<job, caller, callee, held, handed, up, down, crashed, listening>>
  PROVE  TransferInvariant'
<1>1. TypeOK'
  BY DEF TransferInvariant, TypeOK
<1>2. \A s \in Transfers : Safe(s) /\ Same(s)
  BY DEF TransferInvariant, Safe, Same
<1>3. \A s \in Transfers : Safe(s)'
  BY <1>2, SameIsSafe
<1>4. QED
  BY <1>1, <1>3 DEF TransferInvariant, Safe, Transfers

LEMMA CrashIsSafe ==
  ASSUME TransferInvariant, Crash
  PROVE  TransferInvariant'
<1>1. TypeOK /\ \A t \in Transfers : Safe(t)
  BY DEF TransferInvariant, Safe
<1>2. /\ crashed' = TRUE /\ broken' = Transfers /\ handed' = {}
      /\ callee' = [t \in Transfers |-> IF callee[t] \in Serving THEN "gone" ELSE callee[t]]
      /\ UNCHANGED <<job, caller, held, up, down, listening>>
  BY DEF Crash, wire
<1>3. TypeOK'
  BY <1>1, <1>2 DEF TypeOK
<1>4. ASSUME NEW t \in Transfers PROVE Safe(t)'
  <2>1. Safe(t)
    BY <1>1
  <2>2. callee'[t] = (IF callee[t] \in Serving THEN "gone" ELSE callee[t])
    BY <1>2
  <2>3. /\ Hash(t)' = Hash(t) /\ Load(t)' = Load(t) /\ caller'[t] = caller[t]
        /\ held'[t] = held[t] /\ up'[t] = up[t] /\ down'[t] = down[t] /\ crashed'
    BY <1>2 DEF Hash, Load
  <2>4. Begun(t)'
    BY <2>1, <2>3 DEF Safe, Begun
  <2>5. t \in Pushes => PushSafe(t)'
    BY <2>1, <2>2, <2>3 DEF Safe, PushSafe, Acked, Untouched, Serving
  <2>6. t \in Pulls => PullSafe(t)'
    BY <2>1, <2>2, <2>3 DEF Safe, PullSafe, Untouched, Serving
  <2>7. QED
    BY <2>4, <2>5, <2>6 DEF Safe
<1>5. QED
  BY <1>3, <1>4 DEF TransferInvariant, Safe, Transfers

LEMMA ConsumerStopsIsSafe ==
  ASSUME TransferInvariant, ConsumerStops
  PROVE  TransferInvariant'
<1>1. TypeOK /\ \A t \in Transfers : Safe(t)
  BY DEF TransferInvariant, Safe
<1>2. /\ listening' = FALSE /\ handed' = {}
      /\ UNCHANGED <<job, caller, callee, held, up, down, broken, crashed>>
  BY DEF ConsumerStops, wire
<1>3. TypeOK'
  BY <1>1, <1>2 DEF TypeOK
<1>4. ASSUME NEW t \in Transfers PROVE Safe(t)'
  <2>1. Safe(t)
    BY <1>1
  <2>2. QED
    BY <1>2, <2>1 DEF Safe, Begun, PushSafe, PullSafe, Acked, Untouched, Hash, Load
<1>5. QED
  BY <1>3, <1>4 DEF TransferInvariant, Safe, Transfers

-----------------------------------------------------------------------------
(* The invariant, and what follows from it. *)

LEMMA InitIsSafe == Init => TransferInvariant
<1> SUFFICES ASSUME Init PROVE TransferInvariant
  OBVIOUS
<1>1. TypeOK
  <2>1. \A S : <<>> \in Seq(S)
    OBVIOUS
  <2>2. /\ held \in [Transfers -> Seq(Data)] /\ up \in [Transfers -> Seq(Data)]
        /\ down \in [Transfers -> Seq(Data \cup {Yes, No, Reason})]
    BY <2>1 DEF Init
  <2>3. /\ job \in [Transfers -> [hash : Data \cup {NoData}, data : Data \cup {NoData}]]
        /\ caller \in [Transfers -> {"idle"} \cup Calling \cup Results]
        /\ callee \in [Transfers -> Serving \cup {"done", "failed", "gone"}]
    BY DEF Init, Serving
  <2>4. QED
    BY <2>2, <2>3 DEF Init, TypeOK
<1>2. \A t \in Transfers : caller[t] = "idle" /\ callee[t] = "hash" /\ Untouched(t)
  BY DEF Init, Untouched
<1>3. ASSUME NEW t \in Transfers PROVE Begun(t) /\ PushSafe(t) /\ PullSafe(t)
  BY <1>2, <1>3, Tags DEF Begun, PushSafe, PullSafe, Untouched
<1>4. QED
  BY <1>1, <1>3 DEF TransferInvariant, Transfers

LEMMA StepIsSafe == TransferInvariant /\ [Next]_vars => TransferInvariant'
<1> SUFFICES ASSUME TransferInvariant, [Next]_vars PROVE TransferInvariant'
  OBVIOUS
<1>1. ASSUME NEW t \in Transfers, Begins(t) PROVE TransferInvariant'
  BY <1>1, BeginIsSafe
<1>2. ASSUME NEW t \in Transfers, CallerSteps(t) \/ TimesOut(t) PROVE TransferInvariant'
  BY <1>2, WriteHashIsSafe, WriteDataIsSafe, ReadAckIsSafe, ReadReasonIsSafe,
     ReadTagIsSafe, ReadPayloadIsSafe, EndIsSafe DEF CallerSteps
<1>3. ASSUME NEW t \in Transfers, CalleeSteps(t) PROVE TransferInvariant'
  BY <1>3, TakeHashIsSafe, TakeDataIsSafe, WriteAckIsSafe, HandOverIsSafe,
     RefuseIsSafe, WriteReplyIsSafe, CalleeFailsIsSafe DEF CalleeSteps
<1>4. ASSUME NEW t \in Transfers, ConsumerSteps(t) PROVE TransferInvariant'
  BY <1>4, ConsumerIsSafe
<1>5. ASSUME NEW t \in Transfers, Break(t) PROVE TransferInvariant'
  <2>1. broken' \subseteq Transfers
    BY <1>5 DEF Break, TransferInvariant, TypeOK
  <2>2. QED
    BY <1>5, <2>1, UntouchedIsSafe DEF Break, callees, wire
<1>6. CASE Crash
  BY <1>6, CrashIsSafe
<1>7. CASE ConsumerStops
  BY <1>7, ConsumerStopsIsSafe
<1>8. CASE UNCHANGED vars
  <2>1. broken' \subseteq Transfers
    BY <1>8 DEF vars, TransferInvariant, TypeOK
  <2>2. QED
    BY <1>8, <2>1, UntouchedIsSafe DEF vars, callees, wire
<1>9. QED
  BY <1>1, <1>2, <1>3, <1>4, <1>5, <1>6, <1>7, <1>8 DEF Next, Quiet

(* TransferInvariant holds in every reachable state, for any transfers and
   payloads. *)
THEOREM TransfersAreSafe == Spec => []TransferInvariant
<1>1. Init => TransferInvariant
  BY InitIsSafe
<1>2. TransferInvariant /\ [Next]_vars => TransferInvariant'
  BY StepIsSafe
<1>3. QED
  BY <1>1, <1>2, PTL DEF Spec

(* Every variable of the transfers keeps its type. *)
THEOREM TransferTypeCorrectness == Spec => []TypeOK
<1>1. TransferInvariant => TypeOK
  BY DEF TransferInvariant
<1>2. QED
  BY <1>1, TransfersAreSafe, PTL

(* An Ok of push means that the other end read the whole chunk and found that
   it has the hash it goes by. *)
THEOREM AckedPushesAreVerified == Spec => []OkMeansVerified
<1>1. TransferInvariant => OkMeansVerified
  BY DEF TransferInvariant, PushSafe, OkMeansVerified, Hash, Load
<1>2. QED
  BY <1>1, TransfersAreSafe, PTL

(* An Ok of pull means that the data is what was asked for, and what the peer
   served. *)
THEOREM PullsReturnWhatWasAsked == Spec => []PulledDataIsAsked
<1>1. TransferInvariant => PulledDataIsAsked
  BY DEF TransferInvariant, PullSafe, PulledDataIsAsked, Hash, Load
<1>2. QED
  BY <1>1, TransfersAreSafe, PTL

(* While a node lives and its consumer listens, a chunk whose push returned Ok
   is handed over or about to be, whatever happens to the stream and to the
   caller after the acknowledgement was written; the acknowledgement itself
   promises nothing beyond the end of that consumer. *)
THEOREM AckedPushesAreHandedOver == Spec => []OkMeansHandedOver
<1>1. TransferInvariant => OkMeansHandedOver
  BY DEF TransferInvariant, PushSafe, Acked, OkMeansHandedOver
<1>2. QED
  BY <1>1, TransfersAreSafe, PTL

-----------------------------------------------------------------------------
(* The refinement of ChunkTransfer. *)

(* What else each end has been told: a chunk is handed over only after its
   acknowledgement was written, a refusal is followed by its reason, and a pull
   is answered by a callee that is done. *)
PushTold(t) ==
  /\ callee[t] = "handover" => Acks(t)
  /\ caller[t] = "reason" => down[t] = <<Reason>>
  /\ down[t] = <<Reason>> => caller[t] \in {"reason", "Err", "TimedOut"}

PullTold(t) ==
  /\ down[t] # <<>> \/ caller[t] = "payload" => callee[t] = "done"
  /\ caller[t] = "tag" /\ down[t] = <<No>> => held[t] = <<Hash(t)>>

Told(t) ==
  /\ t \in Pushes => PushTold(t)
  /\ t \in Pulls => PullTold(t)
  /\ crashed => callee[t] \notin Serving

TransferRefinement == TransferInvariant /\ \A t \in Transfers : Told(t)

LEMMA SameIsTold ==
  ASSUME NEW s \in Transfers, Told(s), Same(s)
  PROVE  Told(s)'
BY DEF Told, PushTold, PullTold, Same, Acks, Hash

(* The abstract state, one transfer at a time. *)
LEMMA Abstraction ==
  ASSUME NEW t \in Transfers
  PROVE  /\ requests[t] = RequestOf(t) /\ results[t] = ResultOf(t)
         /\ t \in Pulls => replies[t] = RepliesTo(t)
         /\ t \in Pushes => (t \in acknowledged <=> Acks(t))
BY DEF requests, results, replies, acknowledged

(* A step of one transfer changes the abstract state of that one alone. *)
LEMMA Elsewhere ==
  ASSUME NEW t \in Transfers, \A s \in Transfers \ {t} : Same(s)
  PROVE  /\ requests' = [requests EXCEPT ![t] = RequestOf(t)']
         /\ results' = [results EXCEPT ![t] = ResultOf(t)']
         /\ replies' = IF t \in Pulls THEN [replies EXCEPT ![t] = RepliesTo(t)'] ELSE replies
         /\ acknowledged' = IF t \in Pushes /\ Acks(t)' THEN acknowledged \cup {t}
                            ELSE acknowledged \ {t}
<1>1. \A s \in Transfers \ {t} :
        /\ RequestOf(s)' = RequestOf(s) /\ ResultOf(s)' = ResultOf(s)
        /\ RepliesTo(s)' = RepliesTo(s) /\ (Acks(s)' <=> Acks(s))
  BY DEF Same, RequestOf, ResultOf, Underway, RepliesTo, Acks
<1>2. requests' = [requests EXCEPT ![t] = RequestOf(t)']
  BY <1>1 DEF requests
<1>3. results' = [results EXCEPT ![t] = ResultOf(t)']
  BY <1>1 DEF results
<1>4. replies' = IF t \in Pulls THEN [replies EXCEPT ![t] = RepliesTo(t)'] ELSE replies
  BY <1>1 DEF replies, Transfers
<1>5. acknowledged' = IF t \in Pushes /\ Acks(t)' THEN acknowledged \cup {t}
                      ELSE acknowledged \ {t}
  BY <1>1 DEF acknowledged, Transfers
<1>6. QED
  BY <1>2, <1>3, <1>4, <1>5

(* A step that the abstract state does not show. *)
LEMMA Stutters ==
  ASSUME NEW t \in Transfers, \A s \in Transfers \ {t} : Same(s),
         RequestOf(t)' = RequestOf(t), ResultOf(t)' = ResultOf(t),
         t \in Pulls => RepliesTo(t)' = RepliesTo(t),
         t \in Pushes => (Acks(t)' <=> Acks(t)),
         UNCHANGED <<handed, crashed, listening>>
  PROVE  UNCHANGED Service!vars
<1>1. requests' = requests /\ results' = results
  BY Elsewhere, Abstraction DEF requests, results
<1>2. replies' = replies
  BY Elsewhere, Abstraction DEF replies
<1>3. acknowledged' = acknowledged
  BY Elsewhere, Abstraction DEF acknowledged
<1>4. QED
  BY <1>1, <1>2, <1>3 DEF Service!vars

(* A step in which a callee goes on or fails, and writes nothing. *)
LEMMA CalleeMoves ==
  ASSUME NEW t \in Transfers, Told(t), \A s \in Transfers \ {t} : Same(s),
         callee[t] \in Serving \ {"handover"}, callee'[t] \notin {"handover", "done"},
         job'[t] = job[t], caller'[t] = caller[t], down'[t] = down[t],
         UNCHANGED <<handed, crashed, listening>>
  PROVE  Told(t)' /\ UNCHANGED Service!vars
<1>1. callee[t] # "done" /\ ~crashed
  BY DEF Told, Serving
<1>2. Acks(t)' <=> Acks(t)
  BY DEF Acks
<1>3. Told(t)'
  BY <1>1, Frames DEF Told, PushTold, PullTold, Hash
<1>4. RequestOf(t)' = RequestOf(t) /\ ResultOf(t)' = ResultOf(t)
  BY DEF RequestOf, ResultOf, Underway
<1>5. RepliesTo(t)' = RepliesTo(t)
  BY <1>1 DEF RepliesTo
<1>6. QED
  BY <1>2, <1>3, <1>4, <1>5, Stutters

LEMMA BeginSimulates ==
  ASSUME TransferRefinement, NEW t \in Transfers, Begins(t)
  PROVE  Told(t)' /\ (\A s \in Transfers \ {t} : Same(s)) /\ Service!Begin(t)
<1>1. PICK hash \in Data, data \in IF t \in Pushes THEN Data ELSE {NoData} :
        Begin(t, hash, data)
  BY TransferAssumption DEF Begins
<1>2. TypeOK /\ Safe(t) /\ Told(t) /\ (t \in Pushes <=> t \notin Pulls)
  BY OneTransfer DEF TransferRefinement
<1>3. PICK at \in {"hash", "Err"} :
        /\ caller' = [caller EXCEPT ![t] = at]
        /\ job' = [job EXCEPT ![t] = [hash |-> hash, data |-> data]]
        /\ caller[t] = "idle"
        /\ UNCHANGED <<callee, held, handed, up, down, broken, crashed, listening>>
  BY <1>1 DEF Begin, Goes, callees, wire
<1>4. \A s \in Transfers \ {t} : Same(s)
  BY <1>2, <1>3 DEF TypeOK, Same
<1>5. /\ job'[t] = [hash |-> hash, data |-> data] /\ caller'[t] = at
      /\ callee'[t] = callee[t] /\ held'[t] = held[t] /\ down'[t] = down[t]
  BY <1>2, <1>3 DEF TypeOK
<1>6. callee[t] \in {"hash", "gone"} /\ down[t] = <<>>
  BY <1>2, <1>3 DEF Safe, PushSafe, PullSafe, Untouched, Transfers
<1>7. Told(t)'
  BY <1>2, <1>3, <1>5, <1>6, Frames DEF Told, PushTold, PullTold
<1>8. /\ RequestOf(t)' = [hash |-> hash, data |-> data]
      /\ ResultOf(t)' = IF at = "hash" THEN "waiting" ELSE "Err"
      /\ RepliesTo(t)' = RepliesTo(t) /\ ~Acks(t) /\ ~Acks(t)'
  BY <1>2, <1>3, <1>5, <1>6, Frames
  DEF RequestOf, ResultOf, Underway, Calling, RepliesTo, Acks, Transfers
<1>9. results[t] = "idle"
  BY <1>3, Abstraction DEF ResultOf, Underway, Calling
<1>10. replies' = replies /\ acknowledged' = acknowledged
  BY <1>4, <1>8, Elsewhere, Abstraction DEF replies, acknowledged
<1>11. /\ requests' = [requests EXCEPT ![t] = [hash |-> hash, data |-> data]]
       /\ \E outcome \in {"waiting", "Err"} : results' = [results EXCEPT ![t] = outcome]
  BY <1>4, <1>8, Elsewhere
<1>12. Service!Begin(t)
  BY <1>3, <1>9, <1>10, <1>11 DEF Service!Begin
<1>13. QED
  BY <1>4, <1>7, <1>12

(* The caller writes. *)
LEMMA WriteSimulates ==
  ASSUME TransferRefinement, NEW t \in Transfers, WriteHash(t) \/ WriteData(t)
  PROVE  Told(t)' /\ (\A s \in Transfers \ {t} : Same(s)) /\ UNCHANGED Service!vars
<1>1. TypeOK /\ Safe(t) /\ Told(t) /\ (t \in Pushes <=> t \notin Pulls)
  BY OneTransfer DEF TransferRefinement
<1>2. PICK at \in {"data", "tag", "ack"} :
        /\ caller' = [caller EXCEPT ![t] = at]
        /\ caller[t] \in {"hash", "data"}
        /\ at = "tag" => caller[t] = "hash"
        /\ \E frame : up' = [up EXCEPT ![t] = Append(@, frame)]
        /\ UNCHANGED <<job, callee, held, handed, down, broken, crashed, listening>>
  BY DEF WriteHash, WriteData, Goes, Sends, callees
<1>3. \A s \in Transfers \ {t} : Same(s)
  BY <1>1, <1>2 DEF TypeOK, Same
<1>4. /\ caller'[t] = at /\ job'[t] = job[t]
      /\ callee'[t] = callee[t] /\ held'[t] = held[t] /\ down'[t] = down[t]
      /\ handed' = handed /\ crashed' = crashed /\ listening' = listening
  BY <1>1, <1>2 DEF TypeOK
<1>5. t \in Pulls => down[t] = <<>>
  BY <1>1, <1>2 DEF Safe, PullSafe
<1>6. Told(t)'
  BY <1>1, <1>2, <1>4, <1>5, Frames DEF Told, PushTold, PullTold, Acks
<1>7. /\ RequestOf(t)' = RequestOf(t) /\ ResultOf(t)' = ResultOf(t)
      /\ RepliesTo(t)' = RepliesTo(t) /\ (Acks(t)' <=> Acks(t))
  BY <1>2, <1>4 DEF RequestOf, ResultOf, Underway, Calling, RepliesTo, Acks
<1>8. QED
  BY <1>3, <1>4, <1>6, <1>7, Stutters

(* The caller is done with the outcome, which is not an Ok. *)
LEMMA CallerEnds ==
  ASSUME NEW t \in Transfers, \A s \in Transfers \ {t} : Same(s),
         NEW outcome \in {"None", "Err", "TimedOut"},
         caller[t] \in Calling, caller'[t] = outcome,
         job'[t].hash = job[t].hash, t \in Pushes => job'[t] = job[t],
         callee'[t] = callee[t], held'[t] = held[t],
         t \in Pushes => t \notin Pulls,
         t \in Pushes => (down'[t] = <<Yes>> <=> down[t] = <<Yes>>),
         UNCHANGED <<handed, crashed, listening>>
  PROVE  Service!Returns(t, outcome) /\ UNCHANGED requests
<1>1. caller[t] # "Ok" /\ outcome \notin Calling
  BY DEF Calling
<1>2. RequestOf(t)' = RequestOf(t) /\ RepliesTo(t)' = RepliesTo(t)
  BY <1>1 DEF RequestOf, RepliesTo, Transfers
<1>3. t \in Pushes => (Acks(t)' <=> Acks(t))
  BY <1>1 DEF Acks
<1>4. ResultOf(t)' = outcome /\ results[t] = "waiting"
  BY <1>1, Abstraction DEF ResultOf, Underway
<1>5. results' = [results EXCEPT ![t] = outcome]
  BY <1>4, Elsewhere
<1>6. requests' = requests
  BY <1>2, Elsewhere, Abstraction DEF requests
<1>7. replies' = replies
  BY <1>2, Elsewhere, Abstraction DEF replies
<1>8. acknowledged' = acknowledged
  BY <1>3, Elsewhere, Abstraction DEF acknowledged
<1>9. QED
  BY <1>4, <1>5, <1>6, <1>7, <1>8 DEF Service!Returns

LEMMA ReadAckSimulates ==
  ASSUME TransferRefinement, NEW t \in Transfers, ReadAck(t)
  PROVE  /\ Told(t)'
         /\ \A s \in Transfers \ {t} : Same(s)
         /\ (t \in Pushes /\ Service!PushReturns(t)) \/ UNCHANGED Service!vars
<1>1. TypeOK /\ Safe(t) /\ Told(t) /\ (t \in Pushes <=> t \notin Pulls)
  BY OneTransfer DEF TransferRefinement
<1>2. /\ caller[t] = "ack" /\ down[t] # <<>>
      /\ down' = [down EXCEPT ![t] = Tail(@)]
      /\ caller' = [caller EXCEPT ![t] = IF Head(down[t]) = Yes THEN "Ok" ELSE "reason"]
      /\ UNCHANGED <<job, callee, held, handed, up, broken, crashed, listening>>
  BY DEF ReadAck, Reads, Goes, callees
<1>3. t \in Pushes
  BY <1>1, <1>2 DEF Safe, PullSafe, Transfers
<1>4. down[t] = <<Yes>> \/ down[t] = <<No, Reason>>
  BY <1>1, <1>2, <1>3 DEF Safe, PushSafe, Told, PushTold
<1>5. \A s \in Transfers \ {t} : Same(s)
  BY <1>1, <1>2 DEF TypeOK, Same
<1>6. /\ job'[t] = job[t] /\ callee'[t] = callee[t] /\ held'[t] = held[t]
      /\ down'[t] = Tail(down[t])
      /\ handed' = handed /\ crashed' = crashed /\ listening' = listening
      /\ caller'[t] = IF Head(down[t]) = Yes THEN "Ok" ELSE "reason"
  BY <1>1, <1>2 DEF TypeOK
<1>7. CASE down[t] = <<Yes>>
  <2>1. caller'[t] = "Ok" /\ down'[t] = <<>>
    BY <1>6, <1>7, Frames
  <2>2. Told(t)'
    <3>1. Acks(t)' /\ down'[t] # <<Reason>>
      BY <2>1 DEF Acks
    <3>2. QED
      BY <1>1, <1>3, <1>6, <2>1, <3>1 DEF Told, PushTold
  <2>3. Acks(t) /\ Acks(t)'
    BY <1>7, <2>1 DEF Acks
  <2>4. RequestOf(t)' = RequestOf(t) /\ ResultOf(t)' = "Ok" /\ ResultOf(t) = "waiting"
    BY <1>1, <1>2, <1>3, <1>6, <2>1 DEF RequestOf, ResultOf, Underway, Calling
  <2>5. requests' = requests /\ replies' = replies /\ acknowledged' = acknowledged
    BY <1>1, <1>3, <1>5, <2>3, <2>4, Elsewhere, Abstraction
    DEF requests, replies, acknowledged
  <2>6. t \in acknowledged /\ results[t] = "waiting" /\ results' = [results EXCEPT ![t] = "Ok"]
    BY <1>3, <1>5, <2>3, <2>4, Elsewhere, Abstraction
  <2>7. Service!PushReturns(t)
    BY <1>6, <2>5, <2>6 DEF Service!PushReturns, Service!Returns
  <2>8. QED
    BY <1>3, <1>5, <2>2, <2>7
<1>8. CASE down[t] = <<No, Reason>>
  <2>1. caller'[t] = "reason" /\ down'[t] = <<Reason>>
    BY <1>6, <1>8, Frames, Tags
  <2>2. ~Acks(t) /\ ~Acks(t)'
    <3>1. <<Reason>> # <<Yes>> /\ <<No, Reason>> # <<Yes>>
      BY Tags
    <3>2. QED
      BY <1>2, <1>8, <2>1, <3>1 DEF Acks
  <2>3. Told(t)'
    BY <1>1, <1>3, <1>6, <2>1, <2>2 DEF Told, PushTold
  <2>4. RequestOf(t)' = RequestOf(t) /\ ResultOf(t)' = ResultOf(t)
    BY <1>1, <1>2, <1>3, <1>6, <2>1 DEF RequestOf, ResultOf, Underway, Calling
  <2>5. QED
    BY <1>1, <1>3, <1>5, <1>6, <2>2, <2>3, <2>4, Stutters
<1>9. QED
  BY <1>4, <1>7, <1>8

LEMMA ReadReasonSimulates ==
  ASSUME TransferRefinement, NEW t \in Transfers, ReadReason(t)
  PROVE  Told(t)' /\ (\A s \in Transfers \ {t} : Same(s)) /\ Service!Fails(t)
<1>1. TypeOK /\ Safe(t) /\ Told(t) /\ (t \in Pushes <=> t \notin Pulls)
  BY OneTransfer DEF TransferRefinement
<1>2. /\ caller[t] = "reason"
      /\ down' = [down EXCEPT ![t] = Tail(@)]
      /\ caller' = [caller EXCEPT ![t] = "Err"]
      /\ UNCHANGED <<job, callee, held, handed, up, broken, crashed, listening>>
  BY DEF ReadReason, Reads, Goes, callees
<1>3. t \in Pushes
  BY <1>1, <1>2 DEF Safe, PullSafe, Transfers
<1>4. \A s \in Transfers \ {t} : Same(s)
  BY <1>1, <1>2 DEF TypeOK, Same
<1>5. /\ job'[t] = job[t] /\ callee'[t] = callee[t] /\ held'[t] = held[t]
      /\ down'[t] = Tail(down[t])
      /\ handed' = handed /\ crashed' = crashed /\ listening' = listening
      /\ caller'[t] = "Err"
  BY <1>1, <1>2 DEF TypeOK
<1>6. down[t] = <<Reason>> /\ down'[t] = <<>>
  <2>1. down[t] = <<Reason>>
    BY <1>1, <1>2, <1>3 DEF Told, PushTold
  <2>2. QED
    BY <1>5, <2>1, Frames
<1>7. down[t] # <<Yes>> /\ down'[t] # <<Yes>>
  BY <1>6, Tags
<1>8. Told(t)'
  <2>1. callee[t] # "handover"
    BY <1>1, <1>2, <1>3, <1>7 DEF Told, PushTold, Acks
  <2>2. QED
    BY <1>1, <1>3, <1>5, <1>6, <2>1, Tags DEF Told, PushTold
<1>9. Service!Returns(t, "Err") /\ UNCHANGED requests
  <2>1. caller[t] \in Calling
    BY <1>2 DEF Calling
  <2>2. PICK outcome \in {"None", "Err", "TimedOut"} : outcome = "Err"
    OBVIOUS
  <2>3. QED
    BY <1>1, <1>3, <1>4, <1>5, <1>7, <2>1, <2>2, CallerEnds
<1>10. QED
  BY <1>4, <1>8, <1>9 DEF Service!Fails

LEMMA ReadTagSimulates ==
  ASSUME TransferRefinement, NEW t \in Transfers, ReadTag(t)
  PROVE  /\ Told(t)'
         /\ \A s \in Transfers \ {t} : Same(s)
         /\ (t \in Pulls /\ Service!PullReturnsNone(t)) \/ UNCHANGED Service!vars
<1>1. TypeOK /\ Safe(t) /\ Told(t) /\ (t \in Pushes <=> t \notin Pulls)
  BY OneTransfer DEF TransferRefinement
<1>2. /\ caller[t] = "tag" /\ down[t] # <<>>
      /\ down' = [down EXCEPT ![t] = Tail(@)]
      /\ caller' = [caller EXCEPT ![t] = IF Head(down[t]) = No THEN "None" ELSE "payload"]
      /\ UNCHANGED <<job, callee, held, handed, up, broken, crashed, listening>>
  BY DEF ReadTag, Reads, Goes, callees
<1>3. t \in Pulls
  BY <1>1, <1>2 DEF Safe, PushSafe, Transfers
<1>4. callee[t] = "done"
  BY <1>1, <1>2, <1>3 DEF Told, PullTold
<1>5. \A s \in Transfers \ {t} : Same(s)
  BY <1>1, <1>2 DEF TypeOK, Same
<1>6. /\ job'[t] = job[t] /\ callee'[t] = callee[t] /\ held'[t] = held[t]
      /\ down'[t] = Tail(down[t])
      /\ handed' = handed /\ crashed' = crashed /\ listening' = listening
      /\ caller'[t] = IF Head(down[t]) = No THEN "None" ELSE "payload"
  BY <1>1, <1>2 DEF TypeOK
<1>7. Told(t)'
  <2>1. caller'[t] # "tag" /\ callee'[t] = "done"
    BY <1>4, <1>6
  <2>2. QED
    BY <1>1, <1>3, <1>6, <2>1 DEF Told, PullTold
<1>8. CASE down[t] = <<No>>
  <2>1. caller'[t] = "None"
    BY <1>6, <1>8, Frames
  <2>2. held[t] = <<Hash(t)>>
    BY <1>1, <1>2, <1>3, <1>8 DEF Told, PullTold
  <2>3. NoData \in replies[t]
    <3>1. Len(held[t]) = 1
      BY <2>2
    <3>2. RepliesTo(t) = {NoData}
      BY <1>4, <3>1 DEF RepliesTo
    <3>3. replies[t] = RepliesTo(t)
      BY <1>3, Abstraction
    <3>4. QED
      BY <3>2, <3>3
  <2>4. Service!Returns(t, "None") /\ UNCHANGED requests
    <3>1. caller[t] \in Calling
      BY <1>2 DEF Calling
    <3>2. PICK outcome \in {"None", "Err", "TimedOut"} : outcome = "None"
      OBVIOUS
    <3>3. QED
      BY <1>1, <1>3, <1>5, <1>6, <2>1, <3>1, <3>2, CallerEnds
  <2>5. QED
    BY <1>3, <1>5, <1>7, <2>3, <2>4 DEF Service!PullReturnsNone
<1>9. CASE down[t] # <<No>>
  <2>1. PICK x \in Data : down[t] = <<Yes, x>>
    BY <1>1, <1>2, <1>3, <1>9 DEF Safe, PullSafe
  <2>2. caller'[t] = "payload"
    BY <1>6, <2>1, Frames, Tags
  <2>3. /\ RequestOf(t)' = RequestOf(t) /\ ResultOf(t)' = ResultOf(t)
        /\ RepliesTo(t)' = RepliesTo(t)
    BY <1>2, <1>6, <2>2 DEF RequestOf, ResultOf, Underway, Calling, RepliesTo
  <2>4. QED
    BY <1>1, <1>3, <1>5, <1>6, <1>7, <2>3, Stutters
<1>10. QED
  BY <1>8, <1>9

LEMMA ReadPayloadSimulates ==
  ASSUME TransferRefinement, NEW t \in Transfers, ReadPayload(t)
  PROVE  /\ Told(t)'
         /\ \A s \in Transfers \ {t} : Same(s)
         /\ (t \in Pulls /\ Service!PullReturns(t)) \/ Service!Fails(t)
<1>1. TypeOK /\ Safe(t) /\ Told(t) /\ (t \in Pushes <=> t \notin Pulls)
  BY OneTransfer DEF TransferRefinement
<1>2. caller[t] = "payload"
  BY DEF ReadPayload
<1>3. t \in Pulls
  BY <1>1, <1>2 DEF Safe, PushSafe, Transfers
<1>4. PICK x \in Data : down[t] = <<x>> /\ held[t] = <<Hash(t), x>>
  BY <1>1, <1>2, <1>3 DEF Safe, PullSafe
<1>5. callee[t] = "done"
  BY <1>1, <1>2, <1>3 DEF Told, PullTold
<1>6. /\ Head(down[t]) = x /\ Tail(down[t]) = <<>>
      /\ Len(held[t]) = 2 /\ held[t][2] = x
  <2>1. Len(<<Hash(t), x>>) = 2
    OBVIOUS
  <2>2. QED
    BY <1>4, <2>1, Frames
<1>7. PICK at \in {"Ok", "Err"} :
        /\ at = "Ok" => x = Hash(t)
        /\ job' = [job EXCEPT ![t].data = x]
        /\ caller' = [caller EXCEPT ![t] = at]
        /\ down' = [down EXCEPT ![t] = <<>>]
        /\ UNCHANGED <<callee, held, handed, up, broken, crashed, listening>>
  BY <1>1, <1>6 DEF ReadPayload, Reads, Goes, Matches, Hash, callees, TypeOK
<1>8. \A s \in Transfers \ {t} : Same(s)
  BY <1>1, <1>7 DEF TypeOK, Same
<1>9. /\ job'[t] = [hash |-> Hash(t), data |-> x] /\ caller'[t] = at /\ down'[t] = <<>>
      /\ callee'[t] = callee[t] /\ held'[t] = held[t]
      /\ handed' = handed /\ crashed' = crashed /\ listening' = listening
  <2>1. job[t] = [hash |-> Hash(t), data |-> Load(t)]
    BY OneTransfer DEF TransferRefinement
  <2>2. job'[t] = [job[t] EXCEPT !.data = x]
    BY <1>1, <1>7 DEF TypeOK
  <2>3. job'[t] = [hash |-> Hash(t), data |-> x]
    BY <2>1, <2>2
  <2>4. QED
    BY <1>1, <1>7, <2>3 DEF TypeOK
<1>10. Told(t)'
  BY <1>1, <1>3, <1>5, <1>9, Frames DEF Told, PullTold
<1>11. CASE at = "Ok"
  <2>1. RequestOf(t) = [hash |-> Hash(t), data |-> NoData]
    BY <1>2, <1>3 DEF RequestOf, Hash
  <2>2. RequestOf(t)' = [hash |-> Hash(t), data |-> Hash(t)]
    BY <1>7, <1>9, <1>11 DEF RequestOf
  <2>3. RequestOf(t)' = [RequestOf(t) EXCEPT !.data = RequestOf(t).hash]
    BY <2>1, <2>2
  <2>4. RepliesTo(t) = {x} /\ RepliesTo(t)' = {x}
    BY <1>5, <1>6, <1>9 DEF RepliesTo
  <2>5. ResultOf(t) = "waiting" /\ ResultOf(t)' = "Ok"
    BY <1>2, <1>9, <1>11 DEF ResultOf, Underway, Calling
  <2>6. requests[t] = RequestOf(t) /\ replies[t] = RepliesTo(t) /\ results[t] = ResultOf(t)
    BY <1>3, Abstraction
  <2>7. requests[t].hash \in replies[t]
    BY <1>7, <1>11, <2>1, <2>4, <2>6
  <2>8. requests' = [requests EXCEPT ![t].data = requests[t].hash]
    <3>1. requests' = [requests EXCEPT ![t] = RequestOf(t)']
      BY <1>8, Elsewhere
    <3>2. QED
      BY <2>3, <2>6, <3>1
  <2>9. results' = [results EXCEPT ![t] = "Ok"]
    BY <1>8, <2>5, Elsewhere
  <2>10. replies' = replies
    <3>1. replies' = [replies EXCEPT ![t] = RepliesTo(t)]
      BY <1>3, <1>8, <2>4, Elsewhere
    <3>2. QED
      BY <2>6, <3>1 DEF replies
  <2>11. acknowledged' = acknowledged
    BY <1>1, <1>3, <1>8, Elsewhere DEF acknowledged
  <2>12. Service!PullReturns(t)
    BY <1>9, <2>5, <2>6, <2>7, <2>8, <2>9, <2>10, <2>11
    DEF Service!PullReturns, Service!Returns
  <2>13. QED
    BY <1>3, <1>8, <1>10, <2>12
<1>12. CASE at = "Err"
  <2>1. caller[t] \in Calling
    BY <1>2 DEF Calling
  <2>2. job'[t].hash = job[t].hash
    BY <1>9 DEF Hash
  <2>3. PICK outcome \in {"None", "Err", "TimedOut"} : outcome = "Err"
    OBVIOUS
  <2>4. Service!Returns(t, "Err") /\ UNCHANGED requests
    BY <1>1, <1>3, <1>8, <1>9, <1>12, <2>1, <2>2, <2>3, CallerEnds
  <2>5. QED
    BY <1>8, <1>10, <2>4 DEF Service!Fails
<1>13. QED
  BY <1>11, <1>12

(* A failed read or write, or the timeout. *)
LEMMA EndSimulates ==
  ASSUME TransferRefinement, NEW t \in Transfers, CallerFails(t) \/ TimesOut(t)
  PROVE  Told(t)' /\ (\A s \in Transfers \ {t} : Same(s)) /\ Service!Fails(t)
<1>1. TypeOK /\ Told(t) /\ (t \in Pushes <=> t \notin Pulls)
  BY OneTransfer DEF TransferRefinement
<1>2. PICK outcome \in {"Err", "TimedOut"} :
        /\ caller[t] \in Calling
        /\ caller' = [caller EXCEPT ![t] = outcome]
        /\ UNCHANGED <<job, callee, held, handed, up, down, crashed, listening>>
  BY DEF CallerFails, AfterBreak, TimesOut, Underway, Goes, callees, wire
<1>3. \A s \in Transfers \ {t} : Same(s)
  BY <1>1, <1>2 DEF TypeOK, Same
<1>4. /\ job'[t] = job[t] /\ callee'[t] = callee[t] /\ held'[t] = held[t]
      /\ down'[t] = down[t] /\ caller'[t] = outcome
  BY <1>1, <1>2 DEF TypeOK
<1>5. Acks(t)' <=> Acks(t)
  BY <1>2, <1>4 DEF Acks, Calling
<1>6. Told(t)'
  BY <1>1, <1>2, <1>4, <1>5 DEF Told, PushTold, PullTold
<1>7. Service!Returns(t, outcome) /\ UNCHANGED requests
  BY <1>1, <1>2, <1>3, <1>4, CallerEnds
<1>8. QED
  BY <1>3, <1>6, <1>7 DEF Service!Fails

(* The callee reads, or its consumer responds, or a read or write of it fails. *)
LEMMA CalleeSimulates ==
  ASSUME TransferRefinement, NEW t \in Transfers,
         TakeHash(t) \/ TakeData(t) \/ ConsumerSteps(t) \/ CalleeFails(t)
  PROVE  Told(t)' /\ (\A s \in Transfers \ {t} : Same(s)) /\ UNCHANGED Service!vars
<1>1. TypeOK /\ Told(t)
  BY OneTransfer DEF TransferRefinement
<1>2. PICK at \in {"data", "reply", "failed", "ack", "refuse", "found", "missing"} :
        /\ callee' = [callee EXCEPT ![t] = at]
        /\ callee[t] \in Serving \ {"handover"}
        /\ held' = held \/ \E frame : held' = [held EXCEPT ![t] = Append(@, frame)]
        /\ up' = up \/ up' = [up EXCEPT ![t] = Tail(@)]
        /\ UNCHANGED <<job, caller, handed, down, crashed, listening>>
  <2>1. CASE TakeHash(t) \/ TakeData(t)
    BY <2>1 DEF TakeHash, TakeData, Takes, Steps, Serving
  <2>2. CASE ConsumerSteps(t) \/ CalleeFails(t)
    BY <2>2 DEF ConsumerSteps, Respond, DropPull, AfterDrop, CalleeFails, Steps, Serving, wire
  <2>3. QED
    BY <2>1, <2>2
<1>3. \A s \in Transfers \ {t} : Same(s)
  BY <1>1, <1>2 DEF TypeOK, Same
<1>4. /\ job'[t] = job[t] /\ caller'[t] = caller[t] /\ down'[t] = down[t]
      /\ callee'[t] = at
  BY <1>1, <1>2 DEF TypeOK
<1>5. QED
  BY <1>1, <1>2, <1>3, <1>4, CalleeMoves

LEMMA RefuseSimulates ==
  ASSUME TransferRefinement, NEW t \in Transfers, Refuse(t)
  PROVE  Told(t)' /\ (\A s \in Transfers \ {t} : Same(s)) /\ UNCHANGED Service!vars
<1>1. TypeOK /\ Safe(t) /\ Told(t) /\ (t \in Pushes <=> t \notin Pulls)
  BY OneTransfer DEF TransferRefinement
<1>2. callee[t] = "refuse"
  BY DEF Refuse
<1>3. t \in Pushes
  BY <1>1, <1>2 DEF Safe, PullSafe, Transfers
<1>4. down[t] = <<>>
  BY <1>1, <1>2, <1>3 DEF Safe, PushSafe
<1>5. /\ down' = [down EXCEPT ![t] = <<No, Reason>>]
      /\ callee' = [callee EXCEPT ![t] = "failed"]
      /\ UNCHANGED <<job, caller, held, handed, up, broken, crashed, listening>>
  BY <1>1, <1>4, Frames DEF Refuse, Answers, Steps, TypeOK
<1>6. \A s \in Transfers \ {t} : Same(s)
  BY <1>1, <1>5 DEF TypeOK, Same
<1>7. /\ job'[t] = job[t] /\ caller'[t] = caller[t] /\ callee'[t] = "failed"
      /\ down'[t] = <<No, Reason>>
      /\ handed' = handed /\ crashed' = crashed /\ listening' = listening
  BY <1>1, <1>5 DEF TypeOK
<1>8. down'[t] # <<Reason>> /\ down'[t] # <<Yes>> /\ down[t] # <<Reason>> /\ down[t] # <<Yes>>
  <2>1. /\ <<No, Reason>> # <<Reason>> /\ <<No, Reason>> # <<Yes>>
        /\ <<>> # <<Reason>> /\ <<>> # <<Yes>>
    BY Tags
  <2>2. QED
    BY <1>4, <1>7, <2>1
<1>9. caller[t] # "reason"
  BY <1>1, <1>3, <1>8 DEF Told, PushTold
<1>10. Told(t)'
  BY <1>1, <1>3, <1>7, <1>8, <1>9 DEF Told, PushTold, Serving
<1>11. /\ RequestOf(t)' = RequestOf(t) /\ ResultOf(t)' = ResultOf(t)
       /\ (Acks(t)' <=> Acks(t))
  BY <1>7, <1>8 DEF RequestOf, ResultOf, Underway, Acks
<1>12. QED
  BY <1>1, <1>3, <1>6, <1>7, <1>10, <1>11, Stutters

LEMMA WriteAckSimulates ==
  ASSUME TransferRefinement, NEW t \in Transfers, WriteAck(t)
  PROVE  /\ Told(t)'
         /\ \A s \in Transfers \ {t} : Same(s)
         /\ t \in Pushes /\ Service!Acknowledge(t)
<1>1. TypeOK /\ Safe(t) /\ Told(t) /\ (t \in Pushes <=> t \notin Pulls)
  BY OneTransfer DEF TransferRefinement
<1>2. callee[t] = "ack"
  BY DEF WriteAck
<1>3. t \in Pushes
  BY <1>1, <1>2 DEF Safe, PullSafe, Transfers
<1>4. /\ down[t] = <<>> /\ Load(t) = Hash(t)
      /\ caller[t] # "idle" /\ ~crashed
  BY <1>1, <1>2, <1>3 DEF Safe, PushSafe, Untouched, Told, Serving
<1>5. /\ down' = [down EXCEPT ![t] = <<Yes>>]
      /\ callee' = [callee EXCEPT ![t] = "handover"]
      /\ UNCHANGED <<job, caller, held, handed, up, broken, crashed, listening>>
  BY <1>1, <1>4, Frames DEF WriteAck, Answers, Steps, TypeOK
<1>6. \A s \in Transfers \ {t} : Same(s)
  BY <1>1, <1>5 DEF TypeOK, Same
<1>7. /\ job'[t] = job[t] /\ caller'[t] = caller[t]
      /\ down'[t] = <<Yes>> /\ handed' = handed /\ crashed' = crashed /\ listening' = listening
  BY <1>1, <1>5 DEF TypeOK
<1>8. caller[t] # "reason"
  BY <1>1, <1>3, <1>4, Tags DEF Told, PushTold
<1>9. Told(t)'
  <2>1. Acks(t)' /\ down'[t] # <<Reason>>
    BY <1>7, Tags DEF Acks
  <2>2. QED
    BY <1>1, <1>3, <1>4, <1>7, <1>8, <2>1 DEF Told, PushTold
<1>10. RequestOf(t)' = RequestOf(t) /\ ResultOf(t)' = ResultOf(t) /\ Acks(t)'
  BY <1>7 DEF RequestOf, ResultOf, Underway, Acks
<1>11. requests' = requests /\ results' = results /\ replies' = replies
  BY <1>1, <1>3, <1>6, <1>10, Elsewhere, Abstraction DEF requests, results
<1>12. acknowledged' = acknowledged \cup {t}
  BY <1>3, <1>6, <1>10, Elsewhere
<1>13. results[t] # "idle" /\ requests[t].data = requests[t].hash
  <2>1. ResultOf(t) # "idle"
    BY <1>4 DEF ResultOf
  <2>2. RequestOf(t) = job[t] /\ job[t].data = job[t].hash
    BY <1>1, <1>3, <1>4 DEF RequestOf, Hash, Load
  <2>3. QED
    BY <2>1, <2>2, Abstraction
<1>14. Service!Acknowledge(t)
  BY <1>4, <1>7, <1>11, <1>12, <1>13 DEF Service!Acknowledge
<1>15. QED
  BY <1>3, <1>6, <1>9, <1>14

LEMMA HandOverSimulates ==
  ASSUME TransferRefinement, NEW t \in Transfers, HandOver(t)
  PROVE  /\ Told(t)'
         /\ \A s \in Transfers \ {t} : Same(s)
         /\ t \in Pushes /\ (Service!Deliver(t) \/ UNCHANGED Service!vars)
<1>1. TypeOK /\ Safe(t) /\ Told(t) /\ (t \in Pushes <=> t \notin Pulls)
  BY OneTransfer DEF TransferRefinement
<1>2. /\ callee[t] = "handover"
      /\ callee' = [callee EXCEPT ![t] = "done"]
      /\ handed' = IF listening THEN handed \cup {t} ELSE handed
      /\ UNCHANGED <<job, caller, held, up, down, broken, crashed, listening>>
  BY DEF HandOver, Steps, HandsOver, wire
<1>3. t \in Pushes
  BY <1>1, <1>2 DEF Safe, PullSafe, Transfers
<1>4. Acks(t) /\ ~crashed
  BY <1>1, <1>2, <1>3 DEF Told, PushTold, Serving
<1>5. \A s \in Transfers \ {t} : Same(s)
  BY <1>1, <1>2 DEF TypeOK, Same
<1>6. /\ job'[t] = job[t] /\ caller'[t] = caller[t] /\ down'[t] = down[t]
      /\ callee'[t] = "done" /\ crashed' = crashed /\ listening' = listening
  BY <1>1, <1>2 DEF TypeOK
<1>7. Told(t)'
  BY <1>1, <1>3, <1>6 DEF Told, PushTold, Serving
<1>8. RequestOf(t)' = RequestOf(t) /\ ResultOf(t)' = ResultOf(t) /\ Acks(t)'
  BY <1>4, <1>6 DEF RequestOf, ResultOf, Underway, Acks
<1>9. requests' = requests /\ results' = results /\ replies' = replies
  BY <1>1, <1>3, <1>5, <1>8, Elsewhere, Abstraction DEF requests, results
<1>10. t \in acknowledged /\ acknowledged' = acknowledged
  BY <1>3, <1>4, <1>5, <1>8, Elsewhere, Abstraction
<1>11. CASE listening
  <2>1. Service!Deliver(t)
    BY <1>2, <1>4, <1>9, <1>10, <1>11 DEF Service!Deliver
  <2>2. QED
    BY <1>3, <1>5, <1>7, <2>1
<1>12. CASE ~listening
  <2>1. UNCHANGED Service!vars
    BY <1>2, <1>9, <1>10, <1>12 DEF Service!vars
  <2>2. QED
    BY <1>3, <1>5, <1>7, <2>1
<1>13. QED
  BY <1>11, <1>12

LEMMA WriteReplySimulates ==
  ASSUME TransferRefinement, NEW t \in Transfers, WriteReply(t)
  PROVE  /\ Told(t)'
         /\ \A s \in Transfers \ {t} : Same(s)
         /\ t \in Pulls /\ \E data \in Data \cup {NoData} : Service!Reply(t, data)
<1>1. TypeOK /\ Safe(t) /\ Told(t) /\ (t \in Pushes <=> t \notin Pulls)
  BY OneTransfer DEF TransferRefinement
<1>2. callee[t] \in {"found", "missing"}
  BY DEF WriteReply
<1>3. t \in Pulls
  BY <1>1, <1>2 DEF Safe, PushSafe, Transfers
<1>4. /\ down[t] = <<>> /\ caller[t] \notin {"idle", "payload"} /\ ~crashed
  BY <1>1, <1>2, <1>3 DEF Safe, PullSafe, Untouched, Told, Serving
<1>5. PICK data \in Data \cup {NoData} :
        \/ /\ callee[t] = "found" /\ data \in Data
           /\ held[t] = <<Hash(t), data>>
        \/ /\ callee[t] = "missing" /\ data = NoData
           /\ held[t] = <<Hash(t)>>
  BY <1>1, <1>2, <1>3 DEF Safe, PullSafe
<1>6. PICK frames :
        /\ frames = IF callee[t] = "found" THEN <<Yes, data>> ELSE <<No>>
        /\ down' = [down EXCEPT ![t] = @ \o frames]
        /\ callee' = [callee EXCEPT ![t] = "done"]
        /\ UNCHANGED <<job, caller, held, handed, up, broken, crashed, listening>>
  <2>1. callee[t] = "found" => held[t][2] = data
    BY <1>5, Frames
  <2>2. QED
    BY <2>1 DEF WriteReply, Answers, Steps
<1>7. down'[t] = frames
  BY <1>1, <1>4, <1>6, Frames DEF TypeOK
<1>8. \A s \in Transfers \ {t} : Same(s)
  BY <1>1, <1>6 DEF TypeOK, Same
<1>9. /\ job'[t] = job[t] /\ caller'[t] = caller[t] /\ held'[t] = held[t]
      /\ callee'[t] = "done" /\ handed' = handed /\ crashed' = crashed /\ listening' = listening
  BY <1>1, <1>6 DEF TypeOK
<1>10. down'[t] = <<No>> => held[t] = <<Hash(t)>>
  <2>1. <<Yes, data>> # <<No>>
    BY Frames
  <2>2. QED
    BY <1>5, <1>6, <1>7, <2>1
<1>11. Told(t)'
  BY <1>1, <1>3, <1>4, <1>9, <1>10 DEF Told, PullTold, Hash
<1>12. RepliesTo(t) = {} /\ RepliesTo(t)' = {data}
  <2>1. held[t] = <<Hash(t), data>> => Len(held[t]) = 2 /\ held[t][2] = data
    BY Frames
  <2>2. held[t] = <<Hash(t)>> => Len(held[t]) = 1
    OBVIOUS
  <2>3. RepliesTo(t)' = {IF Len(held[t]) = 2 THEN held[t][2] ELSE NoData}
    BY <1>9 DEF RepliesTo
  <2>4. CASE callee[t] = "found"
    BY <1>5, <2>1, <2>3, <2>4 DEF RepliesTo
  <2>5. CASE callee[t] = "missing"
    BY <1>5, <2>2, <2>3, <2>5 DEF RepliesTo
  <2>6. QED
    BY <1>2, <2>4, <2>5
<1>13. RequestOf(t)' = RequestOf(t) /\ ResultOf(t)' = ResultOf(t) /\ ResultOf(t) # "idle"
  BY <1>4, <1>9 DEF RequestOf, ResultOf, Underway, Calling
<1>14. requests' = requests /\ results' = results
  BY <1>8, <1>13, Elsewhere, Abstraction DEF requests, results
<1>15. acknowledged' = acknowledged
  BY <1>1, <1>3, <1>8, Elsewhere DEF acknowledged
<1>16. replies[t] = {} /\ replies' = [replies EXCEPT ![t] = {data}] /\ results[t] # "idle"
  BY <1>3, <1>8, <1>12, <1>13, Elsewhere, Abstraction
<1>17. Service!Reply(t, data)
  BY <1>4, <1>9, <1>14, <1>15, <1>16 DEF Service!Reply
<1>18. QED
  BY <1>3, <1>8, <1>11, <1>17

LEMMA CrashSimulates ==
  ASSUME TransferRefinement, Crash
  PROVE  (\A t \in Transfers : Told(t)') /\ Service!Die
<1>1. /\ ~crashed /\ crashed' = TRUE /\ handed' = {}
      /\ callee' = [t \in Transfers |-> IF callee[t] \in Serving THEN "gone" ELSE callee[t]]
      /\ UNCHANGED <<job, caller, held, up, down, listening>>
  BY DEF Crash, wire
<1>2. ASSUME NEW t \in Transfers
      PROVE  /\ callee'[t] \notin Serving
             /\ callee'[t] = "done" <=> callee[t] = "done"
             /\ callee'[t] # "handover"
  BY <1>1 DEF Serving
<1>3. ASSUME NEW t \in Transfers PROVE Told(t)'
  <2>1. Told(t)
    BY DEF TransferRefinement
  <2>2. QED
    BY <1>1, <1>2, <2>1 DEF Told, PushTold, PullTold, Hash
<1>4. \A t \in Transfers :
        /\ RequestOf(t)' = RequestOf(t) /\ ResultOf(t)' = ResultOf(t)
        /\ RepliesTo(t)' = RepliesTo(t) /\ (Acks(t)' <=> Acks(t))
  BY <1>1, <1>2 DEF RequestOf, ResultOf, Underway, RepliesTo, Acks
<1>5. requests' = requests /\ results' = results
  BY <1>4 DEF requests, results
<1>6. replies' = replies /\ acknowledged' = acknowledged
  BY <1>4 DEF replies, acknowledged, Transfers
<1>7. QED
  BY <1>1, <1>3, <1>5, <1>6 DEF Service!Die

LEMMA ConsumerStopsSimulates ==
  ASSUME TransferRefinement, ConsumerStops
  PROVE  (\A t \in Transfers : Told(t)') /\ Service!StopListening
<1>1. /\ ~crashed /\ listening /\ listening' = FALSE /\ handed' = {}
      /\ UNCHANGED <<job, caller, callee, held, down, crashed>>
  BY DEF ConsumerStops, wire
<1>2. ASSUME NEW t \in Transfers PROVE Told(t)'
  <2>1. Told(t)
    BY DEF TransferRefinement
  <2>2. QED
    BY <1>1, <2>1 DEF Told, PushTold, PullTold, Acks, Hash
<1>3. UNCHANGED <<requests, results, replies, acknowledged>>
  BY <1>1 DEF requests, results, replies, acknowledged, RequestOf, ResultOf,
     Underway, RepliesTo, Acks
<1>4. QED
  BY <1>1, <1>2, <1>3 DEF Service!StopListening

LEMMA InitRefines == Init => TransferRefinement /\ Service!Init
<1> SUFFICES ASSUME Init PROVE TransferRefinement /\ Service!Init
  OBVIOUS
<1>1. \A t \in Transfers :
        /\ job[t] = [hash |-> NoData, data |-> NoData]
        /\ caller[t] = "idle" /\ callee[t] = "hash" /\ down[t] = <<>>
  BY DEF Init
<1>2. handed = {} /\ crashed = FALSE /\ listening = TRUE
  BY DEF Init
<1>3. ASSUME NEW t \in Transfers
      PROVE  /\ Told(t) /\ ~Acks(t) /\ RepliesTo(t) = {}
             /\ RequestOf(t) = [hash |-> NoData, data |-> NoData]
             /\ ResultOf(t) = "idle"
  <2>1. <<>> # <<Reason>> /\ <<>> # <<Yes>>
    BY Tags
  <2>2. Told(t)
    BY <1>1, <1>2, <2>1 DEF Told, PushTold, PullTold
  <2>3. ~Acks(t) /\ RepliesTo(t) = {} /\ ResultOf(t) = "idle"
    BY <1>1, <2>1 DEF Acks, RepliesTo, ResultOf, Underway, Calling
  <2>4. RequestOf(t) = [hash |-> NoData, data |-> NoData]
    BY <1>1 DEF RequestOf
  <2>5. QED
    BY <2>2, <2>3, <2>4
<1>4. /\ requests = [t \in Transfers |-> [hash |-> NoData, data |-> NoData]]
      /\ results = [t \in Transfers |-> "idle"]
  BY <1>3 DEF requests, results
<1>5. replies = [t \in Pulls |-> {}] /\ acknowledged = {}
  BY <1>3 DEF replies, acknowledged, Transfers
<1>6. QED
  BY <1>2, <1>3, <1>4, <1>5, InitIsSafe
  DEF TransferRefinement, Service!Init, Service!Transfers, Transfers

(* What a step of one transfer shows of the service. *)
LEMMA TransferSimulates ==
  ASSUME TransferRefinement, NEW t \in Transfers,
         \/ Begins(t) \/ CallerSteps(t) \/ TimesOut(t)
         \/ CalleeSteps(t) \/ ConsumerSteps(t)
  PROVE  (\A s \in Transfers : Told(s)') /\ [Service!Next]_Service!vars
<1> DEFINE Shown == Told(t)' /\ (\A s \in Transfers \ {t} : Same(s))
<1>1. ASSUME Shown PROVE \A s \in Transfers : Told(s)'
  <2>1. \A s \in Transfers : Told(s)
    BY DEF TransferRefinement
  <2>2. QED
    BY <1>1, <2>1, SameIsTold
<1>2. t \in Service!Transfers
  BY DEF Service!Transfers, Transfers
<1>3. CASE Begins(t)
  <2>1. Shown /\ Service!Begin(t)
    BY <1>3, BeginSimulates
  <2>2. QED
    BY <1>1, <1>2, <2>1 DEF Service!Next
<1>4. CASE ReadReason(t) \/ CallerFails(t) \/ TimesOut(t)
  <2>1. Shown /\ Service!Fails(t)
    BY <1>4, ReadReasonSimulates, EndSimulates
  <2>2. QED
    BY <1>1, <1>2, <2>1 DEF Service!Next
<1>5. CASE \/ WriteHash(t) \/ WriteData(t) \/ Refuse(t)
           \/ TakeHash(t) \/ TakeData(t) \/ ConsumerSteps(t) \/ CalleeFails(t)
  <2>1. Shown /\ UNCHANGED Service!vars
    BY <1>5, WriteSimulates, RefuseSimulates, CalleeSimulates
  <2>2. QED
    BY <1>1, <2>1
<1>6. CASE ReadAck(t)
  <2>1. Shown /\ ((t \in Pushes /\ Service!PushReturns(t)) \/ UNCHANGED Service!vars)
    BY <1>6, ReadAckSimulates
  <2>2. QED
    BY <1>1, <2>1 DEF Service!Next
<1>7. CASE ReadTag(t)
  <2>1. Shown /\ ((t \in Pulls /\ Service!PullReturnsNone(t)) \/ UNCHANGED Service!vars)
    BY <1>7, ReadTagSimulates
  <2>2. QED
    BY <1>1, <2>1 DEF Service!Next
<1>8. CASE ReadPayload(t)
  <2>1. Shown /\ ((t \in Pulls /\ Service!PullReturns(t)) \/ Service!Fails(t))
    BY <1>8, ReadPayloadSimulates
  <2>2. QED
    BY <1>1, <1>2, <2>1 DEF Service!Next
<1>9. CASE WriteAck(t) \/ HandOver(t)
  <2>1. /\ Shown /\ t \in Pushes
        /\ Service!Acknowledge(t) \/ Service!Deliver(t) \/ UNCHANGED Service!vars
    BY <1>9, WriteAckSimulates, HandOverSimulates
  <2>2. QED
    BY <1>1, <2>1 DEF Service!Next
<1>10. CASE WriteReply(t)
  <2>1. /\ Shown /\ t \in Pulls
        /\ \E data \in Data \cup {NoData} : Service!Reply(t, data)
    BY <1>10, WriteReplySimulates
  <2>2. QED
    BY <1>1, <2>1 DEF Service!Next
<1>11. QED
  BY <1>3, <1>4, <1>5, <1>6, <1>7, <1>8, <1>9, <1>10 DEF CallerSteps, CalleeSteps

LEMMA StepRefines ==
  TransferRefinement /\ [Next]_vars => TransferRefinement' /\ [Service!Next]_Service!vars
<1> SUFFICES ASSUME TransferRefinement, [Next]_vars
             PROVE  TransferRefinement' /\ [Service!Next]_Service!vars
  OBVIOUS
<1>1. SUFFICES (\A s \in Transfers : Told(s)') /\ [Service!Next]_Service!vars
  BY StepIsSafe DEF TransferRefinement
<1>2. ASSUME NEW t \in Transfers,
             \/ Begins(t) \/ CallerSteps(t) \/ TimesOut(t)
             \/ CalleeSteps(t) \/ ConsumerSteps(t)
      PROVE  (\A s \in Transfers : Told(s)') /\ [Service!Next]_Service!vars
  BY <1>2, TransferSimulates
<1>3. CASE (\E t \in Transfers : Break(t)) \/ UNCHANGED vars
  <2>1. UNCHANGED <<job, caller, callee, held, handed, up, down, crashed, listening>>
    BY <1>3 DEF Break, vars, callees, wire
  <2>2. \A s \in Transfers : Told(s) /\ Same(s)
    BY <2>1 DEF TransferRefinement, Same
  <2>3. \A s \in Transfers : Told(s)'
    BY <2>2, SameIsTold
  <2>4. UNCHANGED Service!vars
    BY <2>1 DEF Service!vars, requests, results, replies, acknowledged, RequestOf,
       ResultOf, Underway, RepliesTo, Acks
  <2>5. QED
    BY <2>3, <2>4
<1>4. CASE Crash
  BY <1>4, CrashSimulates DEF Service!Next
<1>5. CASE ConsumerStops
  BY <1>5, ConsumerStopsSimulates DEF Service!Next
<1>6. QED
  BY <1>2, <1>3, <1>4, <1>5 DEF Next, Quiet

(* The protocol implements the service: a push is one acknowledgement of data
   that was verified, a pull one reply, whatever breaks, times out or dies
   between any two frames. *)
THEOREM TransferImplementsService == Spec => ImplementsChunkTransfer
<1>1. Init => TransferRefinement /\ Service!Init
  BY InitRefines
<1>2. TransferRefinement /\ [Next]_vars => TransferRefinement' /\ [Service!Next]_Service!vars
  BY StepRefines
<1>3. QED
  BY <1>1, <1>2, PTL DEF Spec, ImplementsChunkTransfer, Service!Spec
=============================================================================
