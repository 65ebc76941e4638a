---------------------------- MODULE BridgeProofs -----------------------------
(***************************************************************************)
(* Proofs about Bridge, for any requests, ids, sizes and limits:            *)
(* EntryInvariant is inductive, and implies what the bridge promises of the *)
(* entries of status_map; BudgetInvariant adds what it promises of its      *)
(* semaphores, and with it the types.                                       *)
(***************************************************************************)
EXTENDS Bridge, TLAPS, SequenceTheorems, FiniteSetTheorems

USE DEF semaphores, handlers, downstream, ends, Underway, Awaiting, At

-----------------------------------------------------------------------------
(* The inductive invariant. *)

(* Handlers, without the bounds that depend on the budget. *)
UnderwayShape == [phase : Underway, id : RawIds, size : Nat, unread : Int]
DoneShape == [phase : {"done"}, id : RawIds, size : Nat, answer : {"Created", "Refused"}]
PostShape == [phase : {"new"}] \cup UnderwayShape \cup DoneShape
MessageShape ==
  [tag : {"NewBlob"}, post : Posts] \cup [tag : {"GetBlob"}, id : Ids \cup {BadId}]

Shapes ==
  /\ status_map \in [Ids -> Seq(Status)]
  /\ post \in [Posts -> PostShape]
  /\ get \in [Gets -> GetState]
  /\ tx_admission \in Seq(MessageShape)
  /\ pipeline \in Seq(Posts)
  /\ tx_bridge \in Seq(RawIds)
  /\ admitted \in Seq(Posts)

IsUnderway(r) == post[r].phase \in Underway

(* Only a validated id has a handler underway or a blob admitted. *)
IdsAreValid ==
  /\ \A r \in Posts : IsUnderway(r) => EntryOf(r) \in Ids
  /\ \A r \in Range(admitted) : post[r].phase = "done" /\ EntryOf(r) \in Ids

(* What is on its way to the bridge concerns blobs that were admitted. *)
UpdatesAreSolicited ==
  /\ \A i \in DOMAIN tx_admission :
       tx_admission[i].tag = "NewBlob" => tx_admission[i].post \in Range(admitted)
  /\ Range(pipeline) \subseteq Range(admitted)
  /\ \A i \in DOMAIN tx_bridge : \E r \in Range(admitted) : post[r].id = tx_bridge[i]

(* No upload is underway for an id whose blob was admitted. *)
NoRivals ==
  \A r \in Posts : \A s \in Range(admitted) : IsUnderway(r) => EntryOf(r) # EntryOf(s)

EntryInvariant ==
  /\ Shapes
  /\ IdsAreValid
  /\ UpdatesAreSolicited
  /\ NoRivals
  /\ AdmissionOwnsEntry
  /\ BlobsAreAdmittedOnce
  /\ AdmittedBlobsHaveEntries
  /\ EntriesAreAccountedFor

-----------------------------------------------------------------------------
(* Sequences. *)

(* The elements of an extended sequence. *)
LEMMA AppendRange ==
  ASSUME NEW S, NEW seq \in Seq(S), NEW e \in S
  PROVE  /\ Append(seq, e) \in Seq(S)
         /\ Range(Append(seq, e)) = Range(seq) \cup {e}
         /\ Append(seq, e) # <<>>
         /\ Last(Append(seq, e)) = e
<1>1. /\ Append(seq, e) \in Seq(S)
      /\ Len(Append(seq, e)) = Len(seq) + 1
      /\ \A i \in 1..Len(seq) : Append(seq, e)[i] = seq[i]
      /\ Append(seq, e)[Len(seq) + 1] = e
      /\ Len(seq) \in Nat
  OBVIOUS
<1>2. DOMAIN seq = 1..Len(seq) /\ DOMAIN Append(seq, e) = 1..(Len(seq) + 1)
  BY <1>1
<1>3. Range(Append(seq, e)) = Range(seq) \cup {e}
  BY <1>1, <1>2 DEF Range
<1>4. Append(seq, e) # <<>>
  BY <1>1
<1>5. QED
  BY <1>1, <1>3, <1>4 DEF Last

(* The elements of a tail. *)
LEMMA TailRange ==
  ASSUME NEW S, NEW seq \in Seq(S), seq # <<>>
  PROVE  /\ Tail(seq) \in Seq(S)
         /\ Head(seq) \in S
         /\ Head(seq) \in Range(seq)
         /\ Range(Tail(seq)) \subseteq Range(seq)
         /\ \A i \in DOMAIN Tail(seq) : i + 1 \in DOMAIN seq /\ Tail(seq)[i] = seq[i + 1]
<1>1. /\ Tail(seq) \in Seq(S)
      /\ Len(seq) \in Nat \ {0}
      /\ Len(Tail(seq)) = Len(seq) - 1
      /\ \A i \in 1..(Len(seq) - 1) : Tail(seq)[i] = seq[i + 1]
      /\ Head(seq) = seq[1]
  OBVIOUS
<1>2. DOMAIN seq = 1..Len(seq) /\ DOMAIN Tail(seq) = 1..(Len(seq) - 1)
  BY <1>1
<1>3. \A i \in DOMAIN Tail(seq) : i + 1 \in DOMAIN seq /\ Tail(seq)[i] = seq[i + 1]
  BY <1>1, <1>2
<1>4. 1 \in DOMAIN seq /\ seq[1] \in S
  BY <1>1, <1>2
<1>5. QED
  BY <1>1, <1>3, <1>4 DEF Range

(* The elements of a sequence. *)
LEMMA SeqElements ==
  ASSUME NEW S, NEW seq \in Seq(S)
  PROVE  /\ Range(seq) \subseteq S
         /\ \A i \in DOMAIN seq : seq[i] \in S /\ seq[i] \in Range(seq)
BY DEF Range

-----------------------------------------------------------------------------
(* Steps of an upload. *)

(* The fields of a handler underway. *)
LEMMA UnderwayFields ==
  ASSUME NEW s \in PostShape, s.phase \in Underway
  PROVE  /\ s.id \in RawIds /\ s.size \in Nat /\ s.unread \in Int
         /\ s = [phase |-> s.phase, id |-> s.id, size |-> s.size, unread |-> s.unread]
<1>1. s \in UnderwayShape
  BY DEF PostShape, UnderwayShape, DoneShape
<1>2. QED
  BY <1>1 DEF UnderwayShape

(* The same handler in another phase. *)
LEMMA UnderwayRecord ==
  ASSUME NEW s \in PostShape, s.phase \in Underway, NEW ph
  PROVE  [s EXCEPT !.phase = ph]
           = [phase |-> ph, id |-> s.id, size |-> s.size, unread |-> s.unread]
<1> DEFINE t == [phase |-> s.phase, id |-> s.id, size |-> s.size, unread |-> s.unread]
<1>1. [t EXCEPT !.phase = ph]
        = [phase |-> ph, id |-> s.id, size |-> s.size, unread |-> s.unread]
  OBVIOUS
<1>2. s = t
  BY UnderwayFields
<1> HIDE DEF t
<1>3. QED
  BY <1>1, <1>2

(* The handler of r goes on, and touches nothing but the semaphores. *)
Moves(r) ==
  /\ IsUnderway(r)
  /\ \E ph \in Underway, n \in Int :
       post' = [post EXCEPT ![r] =
         [phase |-> ph, id |-> post[r].id, size |-> post[r].size, unread |-> n]]
  /\ UNCHANGED <<status_map, get, tx_admission, downstream>>

LEMMA HandlerMoves ==
  ASSUME Shapes, NEW r \in Posts,
         \/ AcquireAllowance(r) \/ RefuseAllowance(r) \/ ReadBody(r)
         \/ StartHash(r) \/ HashDone(r) \/ BodyFails(r)
         \/ SendNewBlobFails(r) \/ CancelPost(r)
  PROVE  Moves(r)
<1> USE DEF Moves, IsUnderway
<1>0. post[r] \in PostShape /\ DOMAIN post = Posts
  BY DEF Shapes
<1>1. IsUnderway(r)
  BY DEF AcquireAllowance, RefuseAllowance, ReadBody, StartHash, HashDone,
         BodyFails, SendNewBlobFails, CancelPost
<1>2. \A ph : [post[r] EXCEPT !.phase = ph]
        = [phase |-> ph, id |-> post[r].id, size |-> post[r].size,
           unread |-> post[r].unread]
  <2> TAKE ph
  <2> QED
    BY <1>0, <1>1, UnderwayRecord
<1>3. post[r].unread \in Int /\ post[r].unread - 1 \in Int
  BY <1>0, <1>1, UnderwayFields
<1>4. ASSUME NEW ph \in Underway, post' = [post EXCEPT ![r].phase = ph]
      PROVE  \E n \in Int : post' = [post EXCEPT ![r] =
         [phase |-> ph, id |-> post[r].id, size |-> post[r].size, unread |-> n]]
  <2>1. post' = [post EXCEPT ![r] = [post[r] EXCEPT !.phase = ph]]
    BY <1>4
  <2>2. QED
    BY <1>2, <1>3, <2>1
<1>5. CASE AcquireAllowance(r)
  BY <1>1, <1>4, <1>5 DEF AcquireAllowance
<1>6. ASSUME Unwinds(r) PROVE Moves(r)
  BY <1>1, <1>4, <1>6 DEF Unwinds
<1>7. CASE ReadBody(r)
  <2>1. CASE post[r].unread > 0
    BY <1>1, <1>4, <1>7, <2>1 DEF ReadBody
  <2>2. CASE ~(post[r].unread > 0)
    BY <1>1, <1>4, <1>7, <2>2 DEF ReadBody
  <2>3. QED
    BY <2>1, <2>2
<1>8. CASE StartHash(r)
  BY <1>1, <1>4, <1>8 DEF StartHash
<1>9. CASE HashDone(r)
  BY <1>1, <1>3, <1>9 DEF HashDone
<1>10. QED
  BY <1>5, <1>6, <1>7, <1>8, <1>9
  DEF RefuseAllowance, BodyFails, SendNewBlobFails, CancelPost

(* A step that leaves every upload where it stands or underway, and the rest
   alone, keeps the invariant. *)
LEMMA MoveKeepsEntries ==
  ASSUME EntryInvariant, NEW r \in Posts, Moves(r)
  PROVE  EntryInvariant'
<1> USE DEF Moves, IsUnderway
<1>1. PICK ph \in Underway, n \in Int :
        post' = [post EXCEPT ![r] =
          [phase |-> ph, id |-> post[r].id, size |-> post[r].size, unread |-> n]]
  OBVIOUS
<1>2. post[r].id \in RawIds /\ post[r].size \in Nat
  BY UnderwayFields DEF EntryInvariant, Shapes
<1>3. Shapes'
  BY <1>1, <1>2 DEF EntryInvariant, Shapes, PostShape, UnderwayShape
<1>4. \A s \in Posts : /\ IsUnderway(s)' <=> IsUnderway(s)
                       /\ (post[s].phase = "done")' <=> post[s].phase = "done"
                       /\ post'[s].id = post[s].id
                       /\ EntryOf(s)' = EntryOf(s)
  BY <1>1 DEF EntryInvariant, Shapes, EntryOf
<1>5. Range(admitted) \subseteq Posts
  BY SeqElements DEF EntryInvariant, Shapes
<1>6. IdsAreValid'
  BY <1>4, <1>5 DEF EntryInvariant, IdsAreValid
<1>7. UpdatesAreSolicited'
  BY <1>4, <1>5 DEF EntryInvariant, UpdatesAreSolicited
<1>8. NoRivals'
  BY <1>4, <1>5 DEF EntryInvariant, NoRivals
<1>9. AdmissionOwnsEntry'
  BY <1>4 DEF EntryInvariant, AdmissionOwnsEntry
<1>10. BlobsAreAdmittedOnce'
  <2>1. \A i \in DOMAIN admitted : admitted[i] \in Posts
    BY SeqElements DEF EntryInvariant, Shapes
  <2>2. QED
    BY <1>4, <2>1 DEF EntryInvariant, BlobsAreAdmittedOnce
<1>11. AdmittedBlobsHaveEntries'
  BY <1>4, <1>5 DEF EntryInvariant, AdmittedBlobsHaveEntries, Vacant
<1>12. EntriesAreAccountedFor'
  BY <1>4, <1>5 DEF EntryInvariant, EntriesAreAccountedFor, Vacant
<1>13. QED
  BY <1>3, <1>6, <1>7, <1>8, <1>9, <1>10, <1>11, <1>12 DEF EntryInvariant

(* An upload that is turned down at once never had an entry. *)
LEMMA RefuseKeepsEntries ==
  ASSUME EntryInvariant, NEW r \in Posts, NEW raw \in RawIds, NEW size \in BlobSizes,
         RefusePost(r, raw, size)
  PROVE  EntryInvariant'
<1> USE DEF IsUnderway
<1> DEFINE refused == [phase |-> "done", id |-> raw, size |-> size, answer |-> "Refused"]
<1>1. /\ post' = [post EXCEPT ![r] = refused]
      /\ UNCHANGED <<status_map, get, tx_admission, downstream>>
      /\ post[r].phase = "new"
  BY DEF RefusePost, Finish
<1>2. refused \in PostShape
  BY LimitAssumption DEF PostShape, DoneShape
<1>3. Shapes'
  BY <1>1, <1>2 DEF EntryInvariant, Shapes
<1>4. post'[r].phase = "done" /\ \A s \in Posts : s # r => post'[s] = post[s]
  BY <1>1 DEF EntryInvariant, Shapes
<1>5. /\ Range(admitted) \subseteq Posts \ {r}
      /\ \A i \in DOMAIN admitted : admitted[i] \in Range(admitted)
  BY <1>1, SeqElements DEF EntryInvariant, Shapes, IdsAreValid
<1>6. \A s \in Posts \ {r} : /\ IsUnderway(s)' <=> IsUnderway(s)
                             /\ post'[s] = post[s]
                             /\ EntryOf(s)' = EntryOf(s)
  BY <1>4 DEF EntryOf
<1>7. ~IsUnderway(r) /\ ~IsUnderway(r)'
  BY <1>1, <1>4
<1> HIDE DEF refused, IsUnderway
<1>8. IdsAreValid'
  BY <1>1, <1>5, <1>6, <1>7 DEF EntryInvariant, IdsAreValid
<1>9. UpdatesAreSolicited'
  BY <1>1, <1>5, <1>6 DEF EntryInvariant, UpdatesAreSolicited
<1>10. NoRivals'
  BY <1>1, <1>5, <1>6, <1>7 DEF EntryInvariant, NoRivals
<1>11. AdmissionOwnsEntry'
  BY <1>1, <1>6, <1>7 DEF EntryInvariant, AdmissionOwnsEntry, IsUnderway
<1>12. BlobsAreAdmittedOnce'
  BY <1>1, <1>5, <1>6 DEF EntryInvariant, BlobsAreAdmittedOnce
<1>13. AdmittedBlobsHaveEntries'
  BY <1>1, <1>5, <1>6 DEF EntryInvariant, AdmittedBlobsHaveEntries, Vacant
<1>14. EntriesAreAccountedFor'
  BY <1>1, <1>5, <1>6, <1>7 DEF EntryInvariant, EntriesAreAccountedFor, Vacant, IsUnderway
<1>15. QED
  BY <1>3, <1>8, <1>9, <1>10, <1>11, <1>12, <1>13, <1>14 DEF EntryInvariant

(* An upload claims a vacant entry, which nobody else can have. *)
LEMMA AdmissionKeepsEntries ==
  ASSUME EntryInvariant, NEW r \in Posts, NEW raw \in RawIds, NEW size \in BlobSizes,
         NewAdmission(r, raw, size)
  PROVE  EntryInvariant'
<1> DEFINE id == Validated[raw]
           begun == [phase |-> "admitted", id |-> raw, size |-> size, unread |-> size]
<1>1. /\ post' = [post EXCEPT ![r] = begun]
      /\ status_map' = [status_map EXCEPT ![id] = <<"Pending">>]
      /\ UNCHANGED <<get, tx_admission, downstream>>
      /\ post[r].phase = "new"
      /\ id # BadId /\ Vacant(id)
  BY DEF NewAdmission, Admissible, Claimable
<1>2. begun \in PostShape
  BY LimitAssumption DEF PostShape, UnderwayShape
<1>3. id \in Ids
  BY <1>1, IdAssumption
<1>4. <<"Pending">> \in Seq(Status)
  BY DEF Status
<1>5. Shapes'
  BY <1>1, <1>2, <1>3, <1>4 DEF EntryInvariant, Shapes
<1>6. /\ Range(admitted) \subseteq Posts \ {r}
      /\ \A i \in DOMAIN admitted : admitted[i] \in Range(admitted)
  BY <1>1, SeqElements DEF EntryInvariant, Shapes, IdsAreValid
<1>7. /\ post'[r] = begun
      /\ \A s \in Posts \ {r} : post'[s] = post[s]
  BY <1>1 DEF EntryInvariant, Shapes
<1>8. /\ \A s \in Posts \ {r} : /\ IsUnderway(s)' <=> IsUnderway(s)
                                /\ post'[s] = post[s]
                                /\ EntryOf(s)' = EntryOf(s)
      /\ IsUnderway(r)' /\ EntryOf(r)' = id
      /\ ~IsUnderway(r)
  BY <1>1, <1>7 DEF EntryOf, IsUnderway
<1>9. /\ status_map'[id] = <<"Pending">>
      /\ \A other \in Ids \ {id} : status_map'[other] = status_map[other]
  BY <1>1, <1>3 DEF EntryInvariant, Shapes
<1>10. \A s \in Posts : IsUnderway(s) => EntryOf(s) # id
  BY <1>1 DEF EntryInvariant, AdmissionOwnsEntry, Vacant, IsUnderway
<1>11. \A s \in Range(admitted) : EntryOf(s) # id
  BY <1>1 DEF EntryInvariant, AdmittedBlobsHaveEntries
<1>12. admitted' = admitted /\ get' = get /\ tx_admission' = tx_admission
       /\ pipeline' = pipeline /\ tx_bridge' = tx_bridge
  BY <1>1
<1>13. <<"Pending">> # <<>>
  OBVIOUS
<1> HIDE DEF id, begun
<1>14. IdsAreValid'
  BY <1>3, <1>6, <1>8, <1>12 DEF EntryInvariant, IdsAreValid
<1>15. UpdatesAreSolicited'
  BY <1>6, <1>8, <1>12 DEF EntryInvariant, UpdatesAreSolicited
<1>16. NoRivals'
  BY <1>6, <1>8, <1>11, <1>12 DEF EntryInvariant, NoRivals
<1>17. AdmissionOwnsEntry'
  <2>1. \A s \in Posts \ {r} : IsUnderway(s)' =>
          EntryOf(s)' # id /\ status_map'[EntryOf(s)'] = <<"Pending">>
    BY <1>8, <1>9, <1>10 DEF EntryInvariant, AdmissionOwnsEntry, IdsAreValid, IsUnderway
  <2>2. \A s, t \in Posts : IsUnderway(s)' /\ IsUnderway(t)' /\ EntryOf(t)' = EntryOf(s)' => t = s
    BY <1>8, <2>1 DEF EntryInvariant, AdmissionOwnsEntry, IsUnderway
  <2>3. QED
    BY <1>8, <1>9, <2>1, <2>2 DEF AdmissionOwnsEntry, IsUnderway
<1>18. BlobsAreAdmittedOnce'
  BY <1>6, <1>8, <1>12 DEF EntryInvariant, BlobsAreAdmittedOnce
<1>19. AdmittedBlobsHaveEntries'
  BY <1>6, <1>8, <1>9, <1>11, <1>12
  DEF EntryInvariant, AdmittedBlobsHaveEntries, IdsAreValid, Vacant
<1>20. EntriesAreAccountedFor'
  <2> SUFFICES ASSUME NEW other \in Ids, ~Vacant(other)', other # id
               PROVE  \/ \E s \in Posts : IsUnderway(s)' /\ EntryOf(s)' = other
                      \/ \E s \in Range(admitted) : EntryOf(s)' = other
                      \/ \E g \in Gets : get[g].phase # "new" /\ get[g].id = other
    BY <1>8, <1>12 DEF EntriesAreAccountedFor, IsUnderway
  <2>1. ~Vacant(other)
    BY <1>9 DEF Vacant
  <2>2. QED
    BY <1>6, <1>8, <2>1 DEF EntryInvariant, EntriesAreAccountedFor, IsUnderway
<1>21. QED
  BY <1>5, <1>14, <1>15, <1>16, <1>17, <1>18, <1>19, <1>20 DEF EntryInvariant

(* A blob is handed over: its upload becomes an admitted blob. *)
LEMMA SendKeepsEntries ==
  ASSUME EntryInvariant, NEW r \in Posts, SendNewBlob(r)
  PROVE  EntryInvariant'
<1> DEFINE made == [phase |-> "done", id |-> post[r].id, size |-> post[r].size,
                    answer |-> "Created"]
           msg == [tag |-> "NewBlob", post |-> r]
<1>1. /\ post[r].phase = "sending"
      /\ post' = [post EXCEPT ![r] = made]
      /\ tx_admission' = Append(tx_admission, msg)
      /\ admitted' = Append(admitted, r)
      /\ status_map' = status_map /\ get' = get
      /\ pipeline' = pipeline /\ tx_bridge' = tx_bridge
  BY DEF SendNewBlob, Committed, Finish
<1>2. IsUnderway(r) /\ post[r] \in PostShape
  BY <1>1 DEF EntryInvariant, Shapes, IsUnderway
<1>3. post[r].id \in RawIds /\ post[r].size \in Nat
  BY <1>2, UnderwayFields DEF IsUnderway
<1>4. made \in PostShape /\ msg \in MessageShape
  BY <1>3 DEF PostShape, DoneShape, MessageShape
<1>5. tx_admission' \in Seq(MessageShape) /\ admitted' \in Seq(Posts)
  BY <1>1, <1>4 DEF EntryInvariant, Shapes
<1>6. Shapes'
  BY <1>1, <1>4, <1>5 DEF EntryInvariant, Shapes
<1>7. Range(admitted') = Range(admitted) \cup {r}
  BY <1>1, AppendRange DEF EntryInvariant, Shapes
<1>8. Range(tx_admission') = Range(tx_admission) \cup {msg}
  BY <1>1, <1>4, AppendRange DEF EntryInvariant, Shapes
<1>9. /\ Range(admitted) \subseteq Posts \ {r}
      /\ \A i \in DOMAIN admitted : admitted[i] \in Range(admitted)
  BY <1>1, SeqElements DEF EntryInvariant, Shapes, IdsAreValid
<1>10. /\ post'[r] = made
       /\ \A s \in Posts \ {r} : post'[s] = post[s]
  BY <1>1 DEF EntryInvariant, Shapes
<1>11. /\ \A s \in Posts : EntryOf(s)' = EntryOf(s)
       /\ \A s \in Posts \ {r} : IsUnderway(s)' <=> IsUnderway(s)
       /\ ~IsUnderway(r)'
       /\ \A s \in Posts : post'[s].id = post[s].id
  BY <1>10 DEF EntryOf, IsUnderway
<1>12. /\ EntryOf(r) \in Ids
       /\ status_map[EntryOf(r)] = <<"Pending">>
       /\ \A s \in Posts \ {r} : IsUnderway(s) => EntryOf(s) # EntryOf(r)
  BY <1>2 DEF EntryInvariant, IdsAreValid, AdmissionOwnsEntry, IsUnderway
<1>13. \A s \in Range(admitted) : EntryOf(s) # EntryOf(r)
  BY <1>2 DEF EntryInvariant, NoRivals
<1>14. post'[r].phase = "done"
  BY <1>10
<1> HIDE DEF made
<1>15. IdsAreValid'
  BY <1>7, <1>9, <1>10, <1>11, <1>12, <1>14 DEF EntryInvariant, IdsAreValid
<1>16. UpdatesAreSolicited'
  <2>1. \A i \in DOMAIN tx_admission' : tx_admission'[i] = msg \/
          \E j \in DOMAIN tx_admission : tx_admission'[i] = tx_admission[j]
    BY <1>8 DEF Range
  <2>2. \A i \in DOMAIN tx_admission' : tx_admission'[i].tag = "NewBlob"
          => tx_admission'[i].post \in Range(admitted')
    BY <1>7, <2>1 DEF EntryInvariant, UpdatesAreSolicited
  <2>3. \A i \in DOMAIN tx_bridge' : \E s \in Range(admitted') : post'[s].id = tx_bridge'[i]
    BY <1>1, <1>7, <1>9, <1>11 DEF EntryInvariant, UpdatesAreSolicited
  <2>4. QED
    BY <1>1, <1>7, <2>2, <2>3 DEF EntryInvariant, UpdatesAreSolicited
<1>17. NoRivals'
  BY <1>7, <1>9, <1>11, <1>12, <1>13 DEF EntryInvariant, NoRivals
<1>18. AdmissionOwnsEntry'
  BY <1>1, <1>11 DEF EntryInvariant, AdmissionOwnsEntry, IsUnderway
<1>19. BlobsAreAdmittedOnce'
  <2>1. /\ DOMAIN admitted' = 1..(Len(admitted) + 1)
        /\ DOMAIN admitted = 1..Len(admitted)
        /\ Len(admitted) \in Nat
        /\ admitted'[Len(admitted) + 1] = r
        /\ \A i \in DOMAIN admitted : admitted'[i] = admitted[i]
    BY <1>1 DEF EntryInvariant, Shapes
  <2>2. \A i \in DOMAIN admitted' : i = Len(admitted) + 1 \/ i \in DOMAIN admitted
    BY <2>1
  <2>3. \A i \in DOMAIN admitted :
          /\ Validated[post'[admitted'[i]].id] = EntryOf(admitted[i])
          /\ EntryOf(admitted[i]) # EntryOf(r)
    <3>1. \A i \in DOMAIN admitted : admitted[i] \in Posts
      BY <1>9
    <3>2. QED
      BY <1>9, <1>11, <1>13, <2>1, <3>1 DEF EntryOf
  <2>4. Validated[post'[admitted'[Len(admitted) + 1]].id] = EntryOf(r)
    BY <1>11, <2>1 DEF EntryOf
  <2>5. \A i, j \in DOMAIN admitted : EntryOf(admitted[i]) = EntryOf(admitted[j]) => i = j
    BY DEF EntryInvariant, BlobsAreAdmittedOnce
  <2>6. \A i, j \in DOMAIN admitted' :
          Validated[post'[admitted'[i]].id] = Validated[post'[admitted'[j]].id] => i = j
    BY <2>2, <2>3, <2>4, <2>5
  <2>7. QED
    BY <2>6 DEF BlobsAreAdmittedOnce, EntryOf
<1>20. AdmittedBlobsHaveEntries'
  <2>1. <<"Pending">> # <<>>
    OBVIOUS
  <2>2. QED
    BY <1>1, <1>7, <1>9, <1>11, <1>12, <2>1 DEF EntryInvariant, AdmittedBlobsHaveEntries, Vacant
<1>21. EntriesAreAccountedFor'
  BY <1>1, <1>7, <1>9, <1>11 DEF EntryInvariant, EntriesAreAccountedFor, Vacant, IsUnderway
<1>22. QED
  BY <1>6, <1>15, <1>16, <1>17, <1>18, <1>19, <1>20, <1>21 DEF EntryInvariant

(* An upload that came to nothing takes its entry with it, and no other. *)
LEMMA DropKeepsEntries ==
  ASSUME EntryInvariant, NEW r \in Posts, DropAdmission(r)
  PROVE  EntryInvariant'
<1> DEFINE id == EntryOf(r)
           left == [phase |-> "done", id |-> post[r].id, size |-> post[r].size,
                    answer |-> "Refused"]
<1>1. /\ post[r].phase = "dropping"
      /\ post' = [post EXCEPT ![r] = left]
      /\ status_map' = [status_map EXCEPT ![id] = <<>>]
      /\ get' = get /\ tx_admission' = tx_admission
      /\ pipeline' = pipeline /\ tx_bridge' = tx_bridge /\ admitted' = admitted
  BY DEF DropAdmission, Removed, Finish
<1>2. IsUnderway(r) /\ post[r] \in PostShape
  BY <1>1 DEF EntryInvariant, Shapes, IsUnderway
<1>3. post[r].id \in RawIds /\ post[r].size \in Nat
  BY <1>2, UnderwayFields DEF IsUnderway
<1>4. left \in PostShape
  BY <1>3 DEF PostShape, DoneShape
<1>5. id \in Ids /\ <<>> \in Seq(Status)
  BY <1>2 DEF EntryInvariant, IdsAreValid
<1>6. Shapes'
  BY <1>1, <1>4, <1>5 DEF EntryInvariant, Shapes
<1>7. /\ Range(admitted) \subseteq Posts \ {r}
      /\ \A i \in DOMAIN admitted : admitted[i] \in Range(admitted)
  BY <1>1, SeqElements DEF EntryInvariant, Shapes, IdsAreValid
<1>8. /\ post'[r] = left
      /\ \A s \in Posts \ {r} : post'[s] = post[s]
  BY <1>1 DEF EntryInvariant, Shapes
<1>9. /\ \A s \in Posts : EntryOf(s)' = EntryOf(s)
      /\ \A s \in Posts \ {r} : IsUnderway(s)' <=> IsUnderway(s)
      /\ ~IsUnderway(r)'
      /\ \A s \in Posts \ {r} : post'[s].phase = post[s].phase
      /\ \A s \in Posts : post'[s].id = post[s].id
  BY <1>8 DEF EntryOf, IsUnderway
<1>10. /\ status_map'[id] = <<>>
       /\ \A other \in Ids \ {id} : status_map'[other] = status_map[other]
  BY <1>1, <1>5 DEF EntryInvariant, Shapes
<1>11. \A s \in Posts \ {r} : IsUnderway(s) => EntryOf(s) # id
  BY <1>2 DEF EntryInvariant, AdmissionOwnsEntry, IsUnderway
<1>12. \A s \in Range(admitted) : EntryOf(s) # id
  BY <1>2 DEF EntryInvariant, NoRivals
<1> HIDE DEF id, left
<1>13. IdsAreValid'
  BY <1>1, <1>7, <1>9 DEF EntryInvariant, IdsAreValid
<1>14. UpdatesAreSolicited'
  BY <1>1, <1>7, <1>9 DEF EntryInvariant, UpdatesAreSolicited
<1>15. NoRivals'
  BY <1>1, <1>7, <1>9 DEF EntryInvariant, NoRivals
<1>16. AdmissionOwnsEntry'
  BY <1>9, <1>10, <1>11 DEF EntryInvariant, AdmissionOwnsEntry, IdsAreValid, IsUnderway
<1>17. BlobsAreAdmittedOnce'
  <2>1. \A i \in DOMAIN admitted : admitted[i] \in Posts
    BY <1>7
  <2>2. QED
    BY <1>1, <1>9, <2>1 DEF EntryInvariant, BlobsAreAdmittedOnce
<1>18. AdmittedBlobsHaveEntries'
  BY <1>1, <1>7, <1>9, <1>10, <1>12
  DEF EntryInvariant, AdmittedBlobsHaveEntries, IdsAreValid, Vacant
<1>19. EntriesAreAccountedFor'
  <2> SUFFICES ASSUME NEW other \in Ids, ~Vacant(other)'
               PROVE  \/ \E s \in Posts : IsUnderway(s)' /\ EntryOf(s)' = other
                      \/ \E s \in Range(admitted) : EntryOf(s)' = other
                      \/ \E g \in Gets : get[g].phase # "new" /\ get[g].id = other
    BY <1>1 DEF EntriesAreAccountedFor, IsUnderway
  <2>1. other # id /\ ~Vacant(other)
    BY <1>10 DEF Vacant
  <2>2. EntryOf(r) # other
    BY <2>1 DEF id
  <2>3. QED
    BY <1>7, <1>9, <2>1, <2>2 DEF EntryInvariant, EntriesAreAccountedFor, IsUnderway
<1>20. QED
  BY <1>6, <1>13, <1>14, <1>15, <1>16, <1>17, <1>18, <1>19 DEF EntryInvariant

-----------------------------------------------------------------------------
(* Steps of a download, of the message loop and of the pipeline. *)

(* A download may insert an entry where there is none; it takes none away. *)
LEMMA GetKeepsEntries ==
  ASSUME EntryInvariant, NEW g \in Gets, NEW raw \in RawIds, GetBlob(g, raw)
  PROVE  EntryInvariant'
<1> DEFINE id == Validated[raw]
           gets(ph) == [phase |-> ph, id |-> id]
<1>1. /\ get[g].phase = "new"
      /\ status_map' = IF id # BadId /\ Vacant(id)
                       THEN [status_map EXCEPT ![id] = <<"Pending">>] ELSE status_map
      /\ \E ph \in {"sending", "done"} : get' = [get EXCEPT ![g] = gets(ph)]
      /\ UNCHANGED <<post, tx_admission, downstream>>
  BY DEF GetBlob
<1>2. id \in Ids \cup {BadId} /\ (id # BadId => id \in Ids)
  BY IdAssumption
<1>3. PICK ph \in {"sending", "done"} : get' = [get EXCEPT ![g] = gets(ph)]
  BY <1>1
<1>4. gets(ph) \in GetState
  BY <1>2 DEF GetState
<1>5. <<"Pending">> \in Seq(Status) /\ <<"Pending">> # <<>>
  BY DEF Status
<1>6. status_map' \in [Ids -> Seq(Status)]
  BY <1>1, <1>2, <1>5 DEF EntryInvariant, Shapes
<1>7. Shapes'
  BY <1>1, <1>3, <1>4, <1>6 DEF EntryInvariant, Shapes
<1>8. \A other \in Ids : \/ status_map'[other] = status_map[other]
                         \/ Vacant(other) /\ other = id /\ status_map'[other] = <<"Pending">>
  BY <1>1, <1>2 DEF EntryInvariant, Shapes
<1>9. /\ get'[g].phase # "new" /\ get'[g].id = id
      /\ \A h \in Gets \ {g} : get'[h] = get[h]
  BY <1>3 DEF EntryInvariant, Shapes
<1>10. post' = post /\ admitted' = admitted /\ tx_admission' = tx_admission
       /\ pipeline' = pipeline /\ tx_bridge' = tx_bridge
  BY <1>1
<1>11. \A s \in Posts : IsUnderway(s) => EntryOf(s) \in Ids /\ ~Vacant(EntryOf(s))
  BY <1>5 DEF EntryInvariant, AdmissionOwnsEntry, IdsAreValid, Vacant, IsUnderway
<1>12. \A s \in Range(admitted) : EntryOf(s) \in Ids /\ ~Vacant(EntryOf(s))
  BY DEF EntryInvariant, AdmittedBlobsHaveEntries, IdsAreValid
<1> HIDE DEF id, gets
<1>13. IdsAreValid' /\ UpdatesAreSolicited' /\ NoRivals' /\ BlobsAreAdmittedOnce'
  BY <1>10 DEF EntryInvariant, IdsAreValid, UpdatesAreSolicited, NoRivals,
               BlobsAreAdmittedOnce, EntryOf, IsUnderway
<1>14. AdmissionOwnsEntry'
  BY <1>8, <1>10, <1>11 DEF EntryInvariant, AdmissionOwnsEntry, EntryOf, IsUnderway
<1>15. AdmittedBlobsHaveEntries'
  BY <1>8, <1>10, <1>12 DEF AdmittedBlobsHaveEntries, EntryOf, Vacant
<1>16. EntriesAreAccountedFor'
  <2> SUFFICES ASSUME NEW other \in Ids, ~Vacant(other)'
               PROVE  \/ \E r \in Posts : post[r].phase \in Underway /\ EntryOf(r) = other
                      \/ \E r \in Range(admitted) : EntryOf(r) = other
                      \/ \E h \in Gets : get'[h].phase # "new" /\ get'[h].id = other
    BY <1>10 DEF EntriesAreAccountedFor, EntryOf
  <2>1. CASE other = id
    BY <1>9, <2>1
  <2>2. CASE other # id
    <3>1. ~Vacant(other)
      BY <1>8, <2>2 DEF Vacant
    <3>2. \A h \in Gets : get[h].phase # "new" => get'[h] = get[h]
      BY <1>1, <1>9
    <3>3. QED
      BY <3>1, <3>2 DEF EntryInvariant, EntriesAreAccountedFor
  <2>3. QED
    BY <2>1, <2>2
<1>17. QED
  BY <1>7, <1>13, <1>14, <1>15, <1>16 DEF EntryInvariant

(* A step that leaves entries, uploads and admitted blobs alone, and forgets
   no download. *)
LEMMA ElsewhereKeepsEntries ==
  ASSUME EntryInvariant, UNCHANGED <<status_map, post, admitted>>,
         \A g \in Gets : get[g].phase # "new" =>
           get'[g].phase # "new" /\ get'[g].id = get[g].id,
         Shapes', UpdatesAreSolicited'
  PROVE  EntryInvariant'
<1>1. IdsAreValid' /\ NoRivals' /\ AdmissionOwnsEntry'
  BY DEF EntryInvariant, IdsAreValid, NoRivals, AdmissionOwnsEntry, EntryOf, IsUnderway
<1>2. BlobsAreAdmittedOnce' /\ AdmittedBlobsHaveEntries'
  BY DEF EntryInvariant, BlobsAreAdmittedOnce, AdmittedBlobsHaveEntries, EntryOf, Vacant
<1>3. EntriesAreAccountedFor'
  BY DEF EntryInvariant, EntriesAreAccountedFor, EntryOf, Vacant
<1>4. QED
  BY <1>1, <1>2, <1>3 DEF EntryInvariant

LEMMA DownloadKeepsEntries ==
  ASSUME EntryInvariant, NEW g \in Gets, SendGetBlob(g) \/ CancelGet(g)
  PROVE  EntryInvariant'
<1> DEFINE msg == [tag |-> "GetBlob", id |-> get[g].id]
<1>1. /\ get[g].phase = "sending"
      /\ get' = [get EXCEPT ![g].phase = "done"]
      /\ UNCHANGED <<status_map, post, downstream>>
      /\ tx_admission' = tx_admission
           \/ ("pipeline" \notin stopped /\ tx_admission' = Append(tx_admission, msg))
  BY DEF SendGetBlob, CancelGet
<1>2. get[g] \in [phase : {"sending", "done"}, id : Ids \cup {BadId}]
  BY <1>1 DEF EntryInvariant, Shapes, GetState
<1>3. get[g] = [phase |-> get[g].phase, id |-> get[g].id] /\ get[g].id \in Ids \cup {BadId}
  BY <1>2
<1> DEFINE t == [phase |-> get[g].phase, id |-> get[g].id]
<1>4. [t EXCEPT !.phase = "done"] = [phase |-> "done", id |-> get[g].id]
  OBVIOUS
<1>5. get[g] = t
  BY <1>3
<1> HIDE DEF t
<1>6. get' = [get EXCEPT ![g] = [phase |-> "done", id |-> get[g].id]]
  BY <1>1, <1>4, <1>5
<1>7. [phase |-> "done", id |-> get[g].id] \in GetState
  BY <1>3 DEF GetState
<1>8. get' \in [Gets -> GetState]
  BY <1>6, <1>7 DEF EntryInvariant, Shapes
<1>9. \A h \in Gets : get[h].phase # "new" =>
        get'[h].phase # "new" /\ get'[h].id = get[h].id
  BY <1>6 DEF EntryInvariant, Shapes
<1>10. msg \in MessageShape
  BY <1>3 DEF MessageShape
<1> HIDE DEF msg
<1>11. tx_admission' \in Seq(MessageShape)
  <2>1. tx_admission \in Seq(MessageShape)
    BY DEF EntryInvariant, Shapes
  <2>2. Append(tx_admission, msg) \in Seq(MessageShape)
    BY <1>10, <2>1, AppendRange
  <2>3. QED
    BY <1>1, <2>1, <2>2
<1>12. Shapes'
  BY <1>1, <1>8, <1>11 DEF EntryInvariant, Shapes
<1>13. \A i \in DOMAIN tx_admission' :
         tx_admission'[i].tag = "NewBlob" => \E j \in DOMAIN tx_admission :
           tx_admission[j] = tx_admission'[i]
  <2>1. CASE tx_admission' = tx_admission
    BY <2>1
  <2>2. CASE tx_admission' = Append(tx_admission, msg)
    <3>1. tx_admission \in Seq(MessageShape)
      BY DEF EntryInvariant, Shapes
    <3>2. Range(Append(tx_admission, msg)) = Range(tx_admission) \cup {msg}
      BY <1>10, <3>1, AppendRange
    <3>3. msg.tag # "NewBlob"
      BY DEF msg
    <3>4. QED
      BY <2>2, <3>2, <3>3 DEF Range
  <2>3. QED
    BY <1>1, <2>1, <2>2
<1>14. UpdatesAreSolicited'
  BY <1>1, <1>13 DEF EntryInvariant, UpdatesAreSolicited
<1>15. QED
  BY <1>1, <1>9, <1>12, <1>14, ElsewhereKeepsEntries

(* An update finds the entry of an admitted blob, which no upload owns. *)
LEMMA UpdateKeepsEntries ==
  ASSUME EntryInvariant, UpdateStatus
  PROVE  EntryInvariant'
<1> DEFINE id == Head(tx_bridge)
<1>1. /\ tx_bridge # <<>>
      /\ tx_bridge' = Tail(tx_bridge)
      /\ status_map' = IF id \in Ids /\ ~Vacant(id)
                       THEN [status_map EXCEPT ![id] = Append(@, "Finalized")]
                       ELSE status_map
      /\ post' = post /\ get' = get /\ tx_admission' = tx_admission
      /\ pipeline' = pipeline /\ admitted' = admitted
  BY DEF UpdateStatus
<1>2. /\ tx_bridge' \in Seq(RawIds)
      /\ id \in RawIds /\ id \in Range(tx_bridge)
      /\ Range(tx_bridge') \subseteq Range(tx_bridge)
      /\ \A i \in DOMAIN tx_bridge' : \E j \in DOMAIN tx_bridge : tx_bridge'[i] = tx_bridge[j]
  BY <1>1, TailRange DEF EntryInvariant, Shapes
<1>3. \E r \in Range(admitted) : post[r].id = id
  BY <1>2 DEF EntryInvariant, UpdatesAreSolicited, Range
<1>4. id \in Ids => \E r \in Range(admitted) : EntryOf(r) = id
  BY <1>2, <1>3, IdAssumption DEF EntryOf
<1>5. id \in Ids => /\ Append(status_map[id], "Finalized") \in Seq(Status)
                   /\ Append(status_map[id], "Finalized") # <<>>
  <2> SUFFICES ASSUME id \in Ids
               PROVE  /\ Append(status_map[id], "Finalized") \in Seq(Status)
                      /\ Append(status_map[id], "Finalized") # <<>>
    OBVIOUS
  <2> HIDE DEF id
  <2>1. status_map[id] \in Seq(Status)
    BY DEF EntryInvariant, Shapes
  <2>2. "Finalized" \in Status
    BY DEF Status
  <2>3. QED
    BY <2>1, <2>2, AppendRange
<1>6. status_map' \in [Ids -> Seq(Status)]
  BY <1>1, <1>5 DEF EntryInvariant, Shapes
<1>7. Shapes'
  BY <1>1, <1>2, <1>6 DEF EntryInvariant, Shapes
<1>8. \A other \in Ids : \/ status_map'[other] = status_map[other]
                         \/ other = id /\ ~Vacant(id) /\ status_map'[other] # <<>>
  BY <1>1, <1>5 DEF EntryInvariant, Shapes
<1> HIDE DEF id
<1>9. \A s \in Posts : IsUnderway(s) => status_map'[EntryOf(s)] = status_map[EntryOf(s)]
  BY <1>4, <1>8 DEF EntryInvariant, NoRivals, IdsAreValid
<1>10. UpdatesAreSolicited'
  BY <1>1, <1>2 DEF EntryInvariant, UpdatesAreSolicited
<1>11. IdsAreValid' /\ NoRivals' /\ BlobsAreAdmittedOnce'
  BY <1>1 DEF EntryInvariant, IdsAreValid, NoRivals, BlobsAreAdmittedOnce, EntryOf, IsUnderway
<1>12. AdmissionOwnsEntry'
  BY <1>1, <1>9 DEF EntryInvariant, AdmissionOwnsEntry, EntryOf, IsUnderway
<1>13. AdmittedBlobsHaveEntries'
  BY <1>1, <1>8 DEF EntryInvariant, AdmittedBlobsHaveEntries, IdsAreValid, EntryOf, Vacant
<1>14. EntriesAreAccountedFor'
  BY <1>1, <1>8 DEF EntryInvariant, EntriesAreAccountedFor, EntryOf, Vacant
<1>15. QED
  BY <1>7, <1>10, <1>11, <1>12, <1>13, <1>14 DEF EntryInvariant

(* What the pipeline and the end of a task do concerns the channels only. *)
LEMMA PipelineKeepsEntries ==
  ASSUME EntryInvariant,
         \/ PipelineTakes \/ PipelineFinalizes \/ StopPipeline \/ StopMessages
         \/ OrphanHashDone \/ RequestShutdown \/ UNCHANGED vars
  PROVE  EntryInvariant'
<1>1. UNCHANGED <<status_map, post, get, admitted>>
  BY DEF PipelineTakes, PipelineFinalizes, StopPipeline, StopMessages,
         OrphanHashDone, RequestShutdown, vars
<1>2. Shapes /\ UpdatesAreSolicited
  BY DEF EntryInvariant
<1>3. Range(admitted) \subseteq Posts /\ Range(pipeline) \subseteq Range(admitted)
  BY <1>2, SeqElements DEF Shapes, UpdatesAreSolicited
<1>4. SUFFICES Shapes' /\ UpdatesAreSolicited'
  BY <1>1, ElsewhereKeepsEntries
<1>5. CASE PipelineTakes
  <2> DEFINE msg == Head(tx_admission)
  <2>1. /\ tx_admission # <<>> /\ tx_admission' = Tail(tx_admission)
        /\ pipeline' = IF msg.tag = "NewBlob" THEN Append(pipeline, msg.post) ELSE pipeline
        /\ tx_bridge' = tx_bridge
    BY <1>5 DEF PipelineTakes
  <2>2. /\ tx_admission' \in Seq(MessageShape)
        /\ msg \in MessageShape /\ msg \in Range(tx_admission)
        /\ \A i \in DOMAIN tx_admission' : \E j \in DOMAIN tx_admission :
             tx_admission'[i] = tx_admission[j]
    BY <1>2, <2>1, TailRange DEF Shapes
  <2>3. msg.tag = "NewBlob" => msg.post \in Range(admitted)
    BY <1>2, <2>2 DEF UpdatesAreSolicited, Range
  <2> HIDE DEF msg
  <2>4. pipeline' \in Seq(Posts) /\ Range(pipeline') \subseteq Range(admitted)
    <3>1. CASE msg.tag = "NewBlob"
      BY <1>2, <1>3, <2>1, <2>3, <3>1, AppendRange DEF Shapes
    <3>2. CASE msg.tag # "NewBlob"
      BY <1>2, <1>3, <2>1, <3>2 DEF Shapes
    <3>3. QED
      BY <3>1, <3>2
  <2>5. Shapes'
    BY <1>1, <1>2, <2>1, <2>2, <2>4 DEF Shapes
  <2>6. QED
    BY <1>1, <1>2, <2>1, <2>2, <2>4, <2>5 DEF UpdatesAreSolicited
<1>6. CASE PipelineFinalizes
  <2> DEFINE done == Head(pipeline)
  <2>1. /\ pipeline # <<>> /\ pipeline' = Tail(pipeline)
        /\ tx_bridge' = tx_bridge
             \/ ("messages" \notin stopped /\ tx_bridge' = Append(tx_bridge, post[done].id))
        /\ tx_admission' = tx_admission
    BY <1>6 DEF PipelineFinalizes
  <2>2. /\ pipeline' \in Seq(Posts)
        /\ Range(pipeline') \subseteq Range(pipeline)
        /\ done \in Range(admitted)
    BY <1>2, <1>3, <2>1, TailRange DEF Shapes
  <2>3. post[done].id \in RawIds
    <3>1. post[done] \in PostShape /\ post[done].phase = "done"
      BY <1>2, <1>3, <2>2 DEF EntryInvariant, IdsAreValid, Shapes
    <3>2. QED
      BY <3>1 DEF PostShape, UnderwayShape, DoneShape
  <2> HIDE DEF done
  <2>4. /\ tx_bridge' \in Seq(RawIds)
        /\ Range(tx_bridge') \subseteq Range(tx_bridge) \cup {post[done].id}
    <3>1. tx_bridge \in Seq(RawIds)
      BY <1>2 DEF Shapes
    <3>2. CASE tx_bridge' = tx_bridge
      BY <3>1, <3>2
    <3>3. CASE tx_bridge' = Append(tx_bridge, post[done].id)
      <4>1. /\ Append(tx_bridge, post[done].id) \in Seq(RawIds)
            /\ Range(Append(tx_bridge, post[done].id)) = Range(tx_bridge) \cup {post[done].id}
        BY <2>3, <3>1, AppendRange
      <4>2. QED
        BY <3>3, <4>1
    <3>4. QED
      BY <2>1, <3>2, <3>3
  <2>5. Shapes'
    BY <1>1, <1>2, <2>1, <2>2, <2>4 DEF Shapes
  <2>6. \A i \in DOMAIN tx_bridge' : \E r \in Range(admitted) : post[r].id = tx_bridge'[i]
    <3>1. \A id \in Range(tx_bridge) : \E r \in Range(admitted) : post[r].id = id
      BY <1>2 DEF UpdatesAreSolicited, Range
    <3>2. \A i \in DOMAIN tx_bridge' : tx_bridge'[i] \in Range(tx_bridge')
      BY DEF Range
    <3>3. QED
      BY <2>2, <2>4, <3>1, <3>2
  <2>7. QED
    BY <1>1, <1>2, <1>3, <2>1, <2>2, <2>5, <2>6 DEF UpdatesAreSolicited
<1>7. CASE StopPipeline
  <2>1. tx_admission' = <<>> /\ pipeline' = <<>> /\ tx_bridge' = tx_bridge
    BY <1>7 DEF StopPipeline
  <2>2. Shapes'
    BY <1>1, <1>2, <2>1 DEF Shapes
  <2>3. Range(<<>>) = {} /\ DOMAIN <<>> = {}
    BY DEF Range
  <2>4. QED
    BY <1>1, <1>2, <2>1, <2>2, <2>3 DEF UpdatesAreSolicited
<1>8. CASE StopMessages
  <2>1. tx_admission' = tx_admission /\ pipeline' = pipeline /\ tx_bridge' = <<>>
    BY <1>8 DEF StopMessages
  <2>2. Shapes'
    BY <1>1, <1>2, <2>1 DEF Shapes
  <2>3. DOMAIN <<>> = {}
    OBVIOUS
  <2>4. QED
    BY <1>1, <1>2, <2>1, <2>2, <2>3 DEF UpdatesAreSolicited
<1>9. CASE OrphanHashDone \/ RequestShutdown \/ UNCHANGED vars
  <2>1. UNCHANGED <<tx_admission, pipeline, tx_bridge>>
    BY <1>9 DEF OrphanHashDone, RequestShutdown, vars
  <2>2. QED
    BY <1>1, <1>2, <2>1 DEF Shapes, UpdatesAreSolicited
<1>10. QED
  BY <1>5, <1>6, <1>7, <1>8, <1>9

-----------------------------------------------------------------------------
(* The invariant. *)

(* The steps of a POST. *)
LEMMA UploadKeepsEntries ==
  ASSUME EntryInvariant, NEW r \in Posts, NewBlobStep(r)
  PROVE  EntryInvariant'
<1>1. CASE \E raw \in RawIds, size \in BlobSizes : RefusePost(r, raw, size)
  BY <1>1, RefuseKeepsEntries
<1>2. CASE \E raw \in RawIds, size \in BlobSizes : NewAdmission(r, raw, size)
  BY <1>2, AdmissionKeepsEntries
<1>3. CASE SendNewBlob(r)
  BY <1>3, SendKeepsEntries
<1>4. CASE DropAdmission(r)
  BY <1>4, DropKeepsEntries
<1>5. CASE \/ AcquireAllowance(r) \/ RefuseAllowance(r) \/ ReadBody(r)
           \/ StartHash(r) \/ HashDone(r) \/ BodyFails(r)
           \/ SendNewBlobFails(r) \/ CancelPost(r)
  <2>1. Shapes
    BY DEF EntryInvariant
  <2>2. Moves(r)
    BY <1>5, <2>1, HandlerMoves
  <2>3. QED
    BY <2>2, MoveKeepsEntries
<1>6. QED
  BY <1>1, <1>2, <1>3, <1>4, <1>5 DEF NewBlobStep

LEMMA NextKeepsEntries == EntryInvariant /\ [Next]_vars => EntryInvariant'
<1> SUFFICES ASSUME EntryInvariant, [Next]_vars
             PROVE  EntryInvariant'
  OBVIOUS
<1>1. CASE \E r \in Posts : NewBlobStep(r)
  BY <1>1, UploadKeepsEntries
<1>2. CASE \E g \in Gets : GetBlobStep(g)
  BY <1>2, GetKeepsEntries, DownloadKeepsEntries DEF GetBlobStep
<1>3. CASE UpdateStatus
  BY <1>3, UpdateKeepsEntries
<1>4. CASE Finished \/ UNCHANGED vars
  <2>1. UNCHANGED vars
    BY <1>4 DEF Finished
  <2>2. QED
    BY <2>1, PipelineKeepsEntries
<1>5. QED
  BY <1>1, <1>2, <1>3, <1>4, PipelineKeepsEntries DEF Next

LEMMA InitEntries == Init => EntryInvariant
<1> SUFFICES ASSUME Init
             PROVE  EntryInvariant
  OBVIOUS
<1> USE DEF Init
<1>1. Range(<<>>) = {} /\ DOMAIN <<>> = {}
  BY DEF Range
<1>2. \A r \in Posts : post[r].phase = "new" /\ ~IsUnderway(r)
  BY DEF IsUnderway
<1>3. [phase |-> "new"] \in PostShape /\ [phase |-> "new"] \in GetState
  BY DEF PostShape, GetState
<1>4. Shapes
  BY <1>3 DEF Shapes
<1>5. IdsAreValid /\ UpdatesAreSolicited /\ NoRivals /\ BlobsAreAdmittedOnce
  BY <1>1, <1>2 DEF IdsAreValid, UpdatesAreSolicited, NoRivals, BlobsAreAdmittedOnce
<1>6. AdmissionOwnsEntry /\ AdmittedBlobsHaveEntries /\ EntriesAreAccountedFor
  BY <1>1, <1>2 DEF AdmissionOwnsEntry, AdmittedBlobsHaveEntries, EntriesAreAccountedFor, Vacant
<1>7. QED
  BY <1>4, <1>5, <1>6 DEF EntryInvariant

(* What status_map, the handlers and the channels always agree on. *)
THEOREM EntriesAreInvariant == Spec => []EntryInvariant
BY InitEntries, NextKeepsEntries, PTL DEF Spec

(* While a POST is underway its Pending entry is its own. *)
THEOREM UploadsOwnTheirEntries == Spec => []AdmissionOwnsEntry
<1>1. EntryInvariant => AdmissionOwnsEntry
  BY DEF EntryInvariant
<1>2. QED
  BY <1>1, EntriesAreInvariant, PTL

(* The pipeline is handed no two blobs of one id. *)
THEOREM NoBlobIsAdmittedTwice == Spec => []BlobsAreAdmittedOnce
<1>1. EntryInvariant => BlobsAreAdmittedOnce
  BY DEF EntryInvariant
<1>2. QED
  BY <1>1, EntriesAreInvariant, PTL

(* A blob handed over keeps its entry. *)
THEOREM AdmittedBlobsAreKnown == Spec => []AdmittedBlobsHaveEntries
<1>1. EntryInvariant => AdmittedBlobsHaveEntries
  BY DEF EntryInvariant
<1>2. QED
  BY <1>1, EntriesAreInvariant, PTL

(* Every entry has an upload, an admitted blob or a download to account for
   it: a cancelled upload leaves none behind. *)
THEOREM NoEntryIsLeftBehind == Spec => []EntriesAreAccountedFor
<1>1. EntryInvariant => EntriesAreAccountedFor
  BY DEF EntryInvariant
<1>2. QED
  BY <1>1, EntriesAreInvariant, PTL

-----------------------------------------------------------------------------
(* The refinement: what BlobStatus sees of the bridge. *)

Shown(id) == IF Vacant(id) THEN "Absent" ELSE Last(status_map[id])
HandedBlobs == [i \in DOMAIN admitted |-> EntryOf(admitted[i])]
HandedIds == {EntryOf(r) : r \in Range(admitted)}

(* The ids that were handed over, whatever the order. *)
LEMMA HandedRange == Abstract!Range(HandedBlobs) = HandedIds
BY DEF Abstract!Range, HandedBlobs, HandedIds, Range

(* A step of BlobStatus for an id whose entry alone changed. *)
LEMMA ShownChange ==
  ASSUME NEW id \in Ids,
         \A other \in Ids \ {id} : status_map'[other] = status_map[other],
         HandedBlobs' = HandedBlobs,
         \/ Shown(id) = "Absent" /\ Shown(id)' = "Pending"
         \/ Shown(id) = "Pending" /\ Shown(id)' = "Absent" /\ id \notin HandedIds
         \/ Shown(id) = "Pending" /\ Shown(id)' = "Finalized" /\ id \in HandedIds
  PROVE  Abstract!Next
<1>1. \A other \in Ids \ {id} : Shown(other)' = Shown(other)
  BY DEF Shown, Vacant
<1>2. [x \in Ids |-> Shown(x)]' = [[x \in Ids |-> Shown(x)] EXCEPT ![id] = Shown(id)']
  BY <1>1
<1>3. QED
  BY <1>2, HandedRange DEF Abstract!Next, Abstract!Claim, Abstract!Forget, Abstract!Finalize,
              Abstract!Becomes, Shown, HandedBlobs

(* A step that BlobStatus does not see. *)
LEMMA ShownStutter ==
  ASSUME \A id \in Ids : Shown(id)' = Shown(id), HandedBlobs' = HandedBlobs
  PROVE  UNCHANGED Abstract!vars
<1>1. [x \in Ids |-> Shown(x)]' = [x \in Ids |-> Shown(x)]
  OBVIOUS
<1>2. QED
  BY <1>1 DEF Abstract!vars, Shown, HandedBlobs

(* An upload that is not admitted may do what it likes with its record. *)
LEMMA HandedKept ==
  ASSUME EntryInvariant, admitted' = admitted,
         \A r \in Posts : post[r].phase = "done" => post'[r] = post[r]
  PROVE  HandedBlobs' = HandedBlobs
<1>1. \A r \in Range(admitted) : post'[r] = post[r]
  BY SeqElements DEF EntryInvariant, Shapes, IdsAreValid
<1>2. QED
  BY <1>1 DEF HandedBlobs, EntryOf, Range

(* What an entry shows. *)
LEMMA ShownValues ==
  ASSUME Shapes, NEW id \in Ids
  PROVE  /\ Shown(id) \in {"Absent", "Pending", "Finalized"}
         /\ Shown(id) = "Absent" <=> Vacant(id)
         /\ status_map[id] = <<"Pending">> => Shown(id) = "Pending"
<1>1. status_map[id] \in Seq(Status)
  BY DEF Shapes
<1>2. ~Vacant(id) => Last(status_map[id]) \in Status
  BY <1>1 DEF Vacant, Last
<1>3. Last(<<"Pending">>) = "Pending" /\ <<"Pending">> # <<>>
  BY DEF Last
<1>4. QED
  BY <1>2, <1>3 DEF Shown, Status, Vacant

(* The steps that change an entry or hand a blob over. *)
LEMMA UploadSimulates ==
  ASSUME EntryInvariant, NEW r \in Posts, NewBlobStep(r)
  PROVE  [Abstract!Next]_Abstract!vars
<1>0. Shapes
  BY DEF EntryInvariant
<1>1. CASE \E raw \in RawIds, size \in BlobSizes : RefusePost(r, raw, size)
  <2>1. status_map' = status_map /\ admitted' = admitted
    BY <1>1 DEF RefusePost
  <2>2. post[r].phase = "new" /\ \A s \in Posts : s # r => post'[s] = post[s]
    BY <1>0, <1>1 DEF RefusePost, Finish, Shapes
  <2>3. QED
    BY <2>1, <2>2, HandedKept, ShownStutter DEF Shown, Vacant
<1>2. CASE \E raw \in RawIds, size \in BlobSizes : NewAdmission(r, raw, size)
  <2>1. PICK raw \in RawIds, size \in BlobSizes : NewAdmission(r, raw, size)
    BY <1>2
  <2> DEFINE id == Validated[raw]
  <2>2. /\ id \in Ids /\ Vacant(id) /\ admitted' = admitted
        /\ post[r].phase = "new" /\ \A s \in Posts : s # r => post'[s] = post[s]
    BY <1>0, <2>1, IdAssumption DEF NewAdmission, Admissible, Claimable, Shapes
  <2>3. /\ status_map'[id] = <<"Pending">>
        /\ \A other \in Ids \ {id} : status_map'[other] = status_map[other]
    BY <1>0, <2>1, <2>2 DEF NewAdmission, Shapes
  <2>4. HandedBlobs' = HandedBlobs
    BY <2>2, HandedKept
  <2>5. Shown(id) = "Absent" /\ Shown(id)' = "Pending"
    <3>1. Last(<<"Pending">>) = "Pending" /\ <<"Pending">> # <<>>
      BY DEF Last
    <3>2. QED
      BY <2>2, <2>3, <3>1 DEF Shown, Vacant
  <2> HIDE DEF id
  <2>6. QED
    BY <2>2, <2>3, <2>4, <2>5, ShownChange
<1>3. CASE SendNewBlob(r)
  <2> DEFINE id == EntryOf(r)
  <2>1. /\ post[r].phase = "sending" /\ status_map' = status_map
        /\ admitted' = Append(admitted, r)
        /\ post' = [post EXCEPT ![r] = [phase |-> "done", id |-> post[r].id,
                                        size |-> post[r].size, answer |-> "Created"]]
    BY <1>3 DEF SendNewBlob, Committed, Finish
  <2>2. \A s \in Posts : post'[s].id = post[s].id
    BY <1>0, <2>1 DEF Shapes
  <2>3. /\ Range(admitted') = Range(admitted) \cup {r}
        /\ Range(admitted) \subseteq Posts
    BY <1>0, <2>1, AppendRange, SeqElements DEF Shapes
  <2>4. HandedBlobs' = Append(HandedBlobs, id)
    <3>1. /\ Len(admitted) \in Nat /\ DOMAIN admitted = 1..Len(admitted)
          /\ DOMAIN admitted' = 1..(Len(admitted) + 1)
          /\ \A i \in 1..Len(admitted) : admitted'[i] = admitted[i] /\ admitted[i] \in Posts
          /\ admitted'[Len(admitted) + 1] = r
      BY <1>0, <2>1 DEF Shapes
    <3>2. \A s \in Posts : Validated[post'[s].id] = EntryOf(s)
      BY <2>2 DEF EntryOf
    <3>3. HandedBlobs \in Seq(Ids)
      BY <1>0, <3>1 DEF HandedBlobs, EntryInvariant, IdsAreValid, Range
    <3>4. /\ Len(HandedBlobs) = Len(admitted)
          /\ \A i \in 1..Len(admitted) : HandedBlobs[i] = EntryOf(admitted[i])
      BY <3>1, <3>3 DEF HandedBlobs
    <3>5. HandedBlobs' = [i \in 1..(Len(admitted) + 1) |->
                            IF i = Len(admitted) + 1 THEN id ELSE HandedBlobs[i]]
      BY <3>1, <3>2, <3>4 DEF HandedBlobs, EntryOf
    <3>6. id \in Ids
      BY <2>1 DEF EntryInvariant, IdsAreValid, IsUnderway
    <3> HIDE DEF id
    <3>7. /\ Append(HandedBlobs, id) \in Seq(Ids)
          /\ Len(Append(HandedBlobs, id)) = Len(admitted) + 1
          /\ \A i \in 1..Len(admitted) : Append(HandedBlobs, id)[i] = HandedBlobs[i]
          /\ Append(HandedBlobs, id)[Len(admitted) + 1] = id
      BY <3>3, <3>4, <3>6, AppendProperties
    <3>8. HandedBlobs' \in Seq(Ids) /\ Len(HandedBlobs') = Len(admitted) + 1
      BY <3>1, <3>3, <3>4, <3>5, <3>6
    <3>9. \A i \in 1..(Len(admitted) + 1) : HandedBlobs'[i] = Append(HandedBlobs, id)[i]
      <4> SUFFICES ASSUME NEW i \in 1..(Len(admitted) + 1)
                   PROVE  HandedBlobs'[i] = Append(HandedBlobs, id)[i]
        OBVIOUS
      <4>1. HandedBlobs'[i] = IF i = Len(admitted) + 1 THEN id ELSE HandedBlobs[i]
        BY <3>5
      <4>2. QED
        BY <3>1, <3>7, <4>1
    <3>10. QED
      BY <3>7, <3>8, <3>9, SeqEqual
  <2>5. id \in Ids /\ id \notin HandedIds /\ status_map[id] = <<"Pending">>
    BY <2>1 DEF EntryInvariant, IdsAreValid, NoRivals, AdmissionOwnsEntry,
                HandedIds, IsUnderway
  <2>6. Shown(id) = "Pending"
    BY <1>0, <2>5, ShownValues
  <2>7. [x \in Ids |-> Shown(x)]' = [x \in Ids |-> Shown(x)]
    BY <2>1 DEF Shown, Vacant
  <2> HIDE DEF id
  <2>8. Abstract!HandOver(id)
    BY <2>4, <2>5, <2>6, <2>7, HandedRange DEF Abstract!HandOver, Shown, HandedBlobs
  <2>9. QED
    BY <2>5, <2>8 DEF Abstract!Next
<1>4. CASE DropAdmission(r)
  <2>0. PICK id : id = EntryOf(r)
    OBVIOUS
  <2>1. /\ post[r].phase = "dropping" /\ admitted' = admitted
        /\ status_map' = [status_map EXCEPT ![id] = <<>>]
        /\ \A s \in Posts : s # r => post'[s] = post[s]
    BY <1>0, <1>4, <2>0 DEF DropAdmission, Removed, Finish, Shapes
  <2>2. HandedBlobs' = HandedBlobs
    BY <2>1, HandedKept
  <2>3. id \in Ids /\ id \notin HandedIds /\ status_map[id] = <<"Pending">>
    BY <2>0, <2>1 DEF EntryInvariant, IdsAreValid, NoRivals, AdmissionOwnsEntry,
                HandedIds, IsUnderway
  <2>4. Shown(id) = "Pending"
    BY <1>0, <2>3, ShownValues
  <2>5. /\ status_map'[id] = <<>>
        /\ \A other \in Ids \ {id} : status_map'[other] = status_map[other]
    BY <1>0, <2>1, <2>3 DEF Shapes
  <2>6. Shown(id)' = "Absent"
    BY <2>5 DEF Shown, Vacant
  <2>7. QED
    BY <2>2, <2>3, <2>4, <2>5, <2>6, ShownChange
<1>5. CASE \/ AcquireAllowance(r) \/ RefuseAllowance(r) \/ ReadBody(r)
           \/ StartHash(r) \/ HashDone(r) \/ BodyFails(r)
           \/ SendNewBlobFails(r) \/ CancelPost(r)
  <2>1. Moves(r)
    BY <1>0, <1>5, HandlerMoves
  <2>2. /\ status_map' = status_map /\ admitted' = admitted
        /\ post[r].phase # "done" /\ \A s \in Posts : s # r => post'[s] = post[s]
    BY <1>0, <2>1 DEF Moves, IsUnderway, Shapes
  <2>3. QED
    BY <2>2, HandedKept, ShownStutter DEF Shown, Vacant
<1>6. QED
  BY <1>1, <1>2, <1>3, <1>4, <1>5 DEF NewBlobStep

LEMMA GetSimulates ==
  ASSUME EntryInvariant, NEW g \in Gets, NEW raw \in RawIds, GetBlob(g, raw)
  PROVE  [Abstract!Next]_Abstract!vars
<1> DEFINE id == Validated[raw]
<1>0. Shapes
  BY DEF EntryInvariant
<1>1. /\ status_map' = IF id # BadId /\ Vacant(id)
                       THEN [status_map EXCEPT ![id] = <<"Pending">>] ELSE status_map
      /\ post' = post /\ admitted' = admitted
  BY DEF GetBlob
<1>2. HandedBlobs' = HandedBlobs
  BY <1>1 DEF HandedBlobs, EntryOf
<1>3. CASE id # BadId /\ Vacant(id)
  <2>1. id \in Ids
    BY <1>3, IdAssumption
  <2>2. /\ status_map'[id] = <<"Pending">>
        /\ \A other \in Ids \ {id} : status_map'[other] = status_map[other]
    BY <1>0, <1>1, <1>3, <2>1 DEF Shapes
  <2>3. Last(<<"Pending">>) = "Pending" /\ <<"Pending">> # <<>>
    BY DEF Last
  <2>4. Shown(id) = "Absent" /\ Shown(id)' = "Pending"
    BY <1>3, <2>2, <2>3 DEF Shown, Vacant
  <2> HIDE DEF id
  <2>5. QED
    BY <1>2, <2>1, <2>2, <2>4, ShownChange
<1>4. CASE ~(id # BadId /\ Vacant(id))
  BY <1>1, <1>2, <1>4, ShownStutter DEF Shown, Vacant
<1>5. QED
  BY <1>3, <1>4

LEMMA UpdateSimulates ==
  ASSUME EntryInvariant, UpdateStatus
  PROVE  [Abstract!Next]_Abstract!vars
<1>0. Shapes
  BY DEF EntryInvariant
<1> PICK id : id = Head(tx_bridge)
  OBVIOUS
<1>1. /\ tx_bridge # <<>>
      /\ status_map' = IF id \in Ids /\ ~Vacant(id)
                       THEN [status_map EXCEPT ![id] = Append(status_map[id], "Finalized")]
                       ELSE status_map
      /\ post' = post /\ admitted' = admitted
  BY DEF UpdateStatus
<1>2. HandedBlobs' = HandedBlobs
  BY <1>1 DEF HandedBlobs, EntryOf
<1>3. id \in RawIds /\ id \in Range(tx_bridge)
  BY <1>0, <1>1, TailRange DEF Shapes
<1>4. \E r \in Range(admitted) : post[r].id = id
  BY <1>3 DEF EntryInvariant, UpdatesAreSolicited, Range
<1>5. id \in Ids => id \in HandedIds
  BY <1>3, <1>4, IdAssumption DEF EntryOf, HandedIds
<1>6. CASE id \in Ids /\ ~Vacant(id)
  <2>1. /\ status_map'[id] = Append(status_map[id], "Finalized")
        /\ \A other \in Ids \ {id} : status_map'[other] = status_map[other]
    BY <1>0, <1>1, <1>6 DEF Shapes
  <2>2. status_map[id] \in Seq(Status) /\ "Finalized" \in Status
    BY <1>0, <1>6 DEF Shapes, Status
  <2>3. Shown(id)' = "Finalized"
    BY <2>1, <2>2, AppendRange DEF Shown, Vacant
  <2>4. Shown(id) \in {"Pending", "Finalized"}
    BY <1>0, <1>6, ShownValues
  <2>5. CASE Shown(id) = "Pending"
    BY <1>2, <1>5, <1>6, <2>1, <2>3, <2>5, ShownChange
  <2>6. CASE Shown(id) = "Finalized"
    <3>1. \A other \in Ids : Shown(other)' = Shown(other)
      BY <2>1, <2>3, <2>6 DEF Shown, Vacant
    <3>2. QED
      BY <1>2, <3>1, ShownStutter
  <2>7. QED
    BY <2>4, <2>5, <2>6
<1>7. CASE ~(id \in Ids /\ ~Vacant(id))
  BY <1>1, <1>2, <1>7, ShownStutter DEF Shown, Vacant
<1>8. QED
  BY <1>6, <1>7

(* Every step of the bridge is a step of BlobStatus, or invisible to it. *)
LEMMA NextSimulates ==
  EntryInvariant /\ [Next]_vars => [Abstract!Next]_Abstract!vars
<1> SUFFICES ASSUME EntryInvariant, [Next]_vars
             PROVE  [Abstract!Next]_Abstract!vars
  OBVIOUS
<1>1. CASE \E r \in Posts : NewBlobStep(r)
  BY <1>1, UploadSimulates
<1>2. CASE \E g \in Gets : \E raw \in RawIds : GetBlob(g, raw)
  BY <1>2, GetSimulates
<1>3. CASE UpdateStatus
  BY <1>3, UpdateSimulates
<1>4. ASSUME UNCHANGED <<status_map, post, admitted>>
      PROVE  [Abstract!Next]_Abstract!vars
  BY <1>4, ShownStutter DEF Shown, Vacant, HandedBlobs, EntryOf
<1>5. CASE \/ \E g \in Gets : SendGetBlob(g) \/ CancelGet(g)
           \/ OrphanHashDone \/ StopMessages \/ PipelineTakes \/ PipelineFinalizes
           \/ StopPipeline \/ RequestShutdown \/ Finished \/ UNCHANGED vars
  <2>1. UNCHANGED <<status_map, post, admitted>>
    BY <1>5 DEF SendGetBlob, CancelGet, OrphanHashDone, StopMessages, PipelineTakes,
       PipelineFinalizes, StopPipeline, RequestShutdown, Finished, vars
  <2>2. QED
    BY <1>4, <2>1
<1>6. QED
  BY <1>1, <1>2, <1>3, <1>5 DEF Next, GetBlobStep

LEMMA InitSimulates == Init => Abstract!Init
<1> SUFFICES ASSUME Init
             PROVE  Abstract!Init
  OBVIOUS
<1>1. HandedBlobs = <<>>
  BY DEF Init, HandedBlobs
<1>2. \A id \in Ids : Vacant(id)
  BY DEF Init, Vacant
<1>3. QED
  BY <1>1, <1>2 DEF Abstract!Init, HandedBlobs

(* For each id the bridge does what BlobStatus says, whoever races for it. *)
THEOREM BridgeImplementsBlobStatus == Spec => ImplementsBlobStatus
BY InitSimulates, NextSimulates, EntriesAreInvariant, PTL
DEF Spec, ImplementsBlobStatus, Abstract!Spec

(* A client that saw Finalized never sees anything else for that id. *)
THEOREM FinalizedForGood == Spec => FinalizedIsNeverForgotten
<1>1. EntryInvariant /\ [Next]_vars =>
        [\A id \in Ids :
           ~Vacant(id) /\ Last(status_map[id]) = "Finalized"
           => status_map'[id] # <<>> /\ Last(status_map'[id]) = "Finalized"]_vars
  <2> SUFFICES ASSUME EntryInvariant, [Next]_vars, NEW id \in Ids,
                      ~Vacant(id), Last(status_map[id]) = "Finalized"
               PROVE  status_map'[id] # <<>> /\ Last(status_map'[id]) = "Finalized"
    OBVIOUS
  <2>1. Shown(id) = "Finalized"
    BY DEF Shown
  <2>2. [Abstract!Next]_Abstract!vars
    BY NextSimulates
  <2>3. Shown(id)' = "Finalized"
    <3>1. CASE UNCHANGED Abstract!vars
      BY <2>1, <3>1 DEF Abstract!vars, Shown
    <3>2. CASE Abstract!Next
      BY <2>1, <3>2 DEF Abstract!Next, Abstract!Claim, Abstract!Forget,
         Abstract!Finalize, Abstract!HandOver, Abstract!Becomes, Shown
    <3>3. QED
      BY <2>2, <3>1, <3>2
  <2>4. QED
    BY <2>3 DEF Shown, Vacant
<1>2. QED
  BY <1>1, EntriesAreInvariant, PTL DEF Spec, FinalizedIsNeverForgotten

-----------------------------------------------------------------------------
(* Types, jobs and permits: what holds next to EntryInvariant. *)

Switches == closing \in BOOLEAN /\ stopped \subseteq {"pipeline", "messages"}

(* A download that goes on is for a valid id, and so is its message. *)
DownloadsAreValid ==
  /\ \A g \in Gets : get[g].phase = "sending" => get[g].id \in Ids
  /\ tx_admission \in Seq(Message)

(* A handler never hashes a chunk that the body does not owe. *)
ChunksAreOwed ==
  \A r \in Posts : IsUnderway(r) =>
    /\ post[r].unread \in Nat
    /\ post[r].phase \in {"permit", "hashing"} => post[r].unread > 0

(* Every handler that hashes has a job of its own; others are orphans. *)
Hashes == {r \in Posts : At(r, "hashing")}
JobsAreCounted == hashing \in 0..HASHERS /\ Cardinality(Hashes) <= hashing

(* A blob that was handed over is in one message or once in the pipeline. *)
NewBlob(r) == [tag |-> "NewBlob", post |-> r]
Once(seq, S) ==
  \A i, j \in DOMAIN seq : seq[i] \in S /\ seq[i] = seq[j] => i = j
BlobsAreInOnePlace ==
  /\ Once(tx_admission, {NewBlob(r) : r \in Posts})
  /\ Once(pipeline, Posts)
  /\ \A r \in Range(pipeline) : NewBlob(r) \notin Range(tx_admission)

Holders == {r \in Posts : HoldsAllowance(r) \/ Sent(r) \/ r \in Range(pipeline)}
BudgetIsKept == admission_budget \in Nat /\ BudgetIsConserved

-----------------------------------------------------------------------------
(* Counting permits.  p stands for post, now or after a step. *)

Permits(p, S) == UNION {{<<r, n>> : n \in 1..p[r].size} : r \in S}

(* The permits of one allowance are as many as its size says. *)
LEMMA Column ==
  ASSUME NEW r, NEW size \in Nat
  PROVE  /\ IsFiniteSet({<<r, n>> : n \in 1..size})
         /\ Cardinality({<<r, n>> : n \in 1..size}) = size
<1> DEFINE permits == {<<r, n>> : n \in 1..size}
           numbered == [n \in 1..size |-> <<r, n>>]
<1>1. numbered \in Surjection(1..size, permits)
  BY DEF Surjection
<1>2. numbered \in Injection(1..size, permits)
  BY DEF Injection, IsInjective
<1>3. IsFiniteSet(1..size) /\ Cardinality(1..size) = size
  BY FS_Interval
<1>4. QED
  BY <1>1, <1>2, <1>3, FS_Surjection

(* A finite number of allowances is a finite number of permits. *)
LEMMA PermitsFinite ==
  ASSUME NEW p, NEW S, IsFiniteSet(S), \A r \in S : p[r].size \in Nat
  PROVE  IsFiniteSet(Permits(p, S)) /\ Cardinality(Permits(p, S)) \in Nat
<1> DEFINE one == [r \in S |-> {<<r, n>> : n \in 1..p[r].size}]
           all == {{<<r, n>> : n \in 1..p[r].size} : r \in S}
<1>1. one \in Surjection(S, all)
  BY DEF Surjection
<1>2. IsFiniteSet(all)
  BY <1>1, FS_Surjection
<1>3. \A T \in all : IsFiniteSet(T)
  <2>1. \A r \in S : IsFiniteSet({<<r, n>> : n \in 1..p[r].size})
    BY Column
  <2>2. QED
    BY <2>1
<1>4. Permits(p, S) = UNION all
  BY DEF Permits
<1> HIDE DEF all
<1>5. IsFiniteSet(Permits(p, S))
  BY <1>2, <1>3, <1>4, FS_UNION
<1>6. QED
  BY <1>5, FS_CardinalityType

(* One allowance. *)
LEMMA PermitsOfOne ==
  ASSUME NEW p, NEW r, p[r].size \in Nat
  PROVE  Cardinality(Permits(p, {r})) = p[r].size
<1>1. Permits(p, {r}) = {<<r, n>> : n \in 1..p[r].size}
  BY DEF Permits
<1>2. QED
  BY <1>1, Column

(* Different posts share no permit. *)
LEMMA PermitsAddUp ==
  ASSUME NEW p, NEW S, NEW T, IsFiniteSet(S), IsFiniteSet(T), S \cap T = {},
         \A r \in S \cup T : p[r].size \in Nat
  PROVE  Cardinality(Permits(p, S \cup T))
           = Cardinality(Permits(p, S)) + Cardinality(Permits(p, T))
<1>1. PICK A, B : A = Permits(p, S) /\ B = Permits(p, T)
  OBVIOUS
<1>2. /\ IsFiniteSet(A) /\ Cardinality(A) \in Nat
      /\ IsFiniteSet(B) /\ Cardinality(B) \in Nat
  BY <1>1, PermitsFinite
<1>3. Permits(p, S \cup T) = A \cup B /\ A \cap B = {}
  BY <1>1 DEF Permits
<1>4. Cardinality(A \cup B) = Cardinality(A) + Cardinality(B) - Cardinality(A \cap B)
  BY <1>2, FS_Union
<1>5. Cardinality(A \cap B) = 0
  BY <1>3, FS_EmptySet
<1>6. Cardinality(A \cup B) = Cardinality(A) + Cardinality(B)
  BY <1>2, <1>4, <1>5
<1>7. QED
  BY <1>1, <1>3, <1>6

(* A step that changes no size of theirs leaves the posts their permits. *)
LEMMA PermitsKept ==
  ASSUME NEW p, NEW q, NEW S, \A r \in S : q[r].size = p[r].size
  PROVE  Permits(q, S) = Permits(p, S)
BY DEF Permits

(* One more allowance, or one less. *)
LEMMA PermitsTaken ==
  ASSUME NEW p, NEW S, NEW r, IsFiniteSet(S), r \notin S,
         \A s \in S \cup {r} : p[s].size \in Nat
  PROVE  Cardinality(Permits(p, S \cup {r})) = Cardinality(Permits(p, S)) + p[r].size
<1>1. IsFiniteSet({r}) /\ S \cap {r} = {}
  BY FS_Singleton
<1>2. Cardinality(Permits(p, S \cup {r}))
        = Cardinality(Permits(p, S)) + Cardinality(Permits(p, {r}))
  BY <1>1, PermitsAddUp
<1>3. QED
  BY <1>2, PermitsOfOne

(* The permits of some posts, taken apart. *)
LEMMA PermitsReturned ==
  ASSUME NEW p, NEW S, NEW T, IsFiniteSet(S), T \subseteq S,
         \A s \in S : p[s].size \in Nat
  PROVE  Cardinality(Permits(p, S))
           = Cardinality(Permits(p, S \ T)) + Cardinality(Permits(p, T))
<1>1. /\ IsFiniteSet(S \ T) /\ IsFiniteSet(T)
      /\ (S \ T) \cup T = S /\ (S \ T) \cap T = {}
  BY FS_Subset
<1>2. QED
  BY <1>1, PermitsAddUp

-----------------------------------------------------------------------------
(* Who holds permits. *)

(* What is in a message or in the pipeline was admitted. *)
LEMMA HandedOverIsDone ==
  ASSUME EntryInvariant, NEW r \in Posts, Sent(r) \/ r \in Range(pipeline)
  PROVE  r \in Range(admitted) /\ post[r].phase = "done"
<1>1. r \in Range(admitted)
  BY DEF EntryInvariant, UpdatesAreSolicited, Sent
<1>2. QED
  BY <1>1 DEF EntryInvariant, IdsAreValid

(* Every request that was begun has a size. *)
LEMMA BegunHasSize ==
  ASSUME Shapes, NEW r \in Posts, post[r].phase # "new"
  PROVE  post[r].size \in Nat
<1>1. post[r] \in UnderwayShape \cup DoneShape
  BY DEF Shapes, PostShape
<1>2. QED
  BY <1>1 DEF UnderwayShape, DoneShape

(* Whoever holds permits was given a size, and there are finitely many. *)
LEMMA HoldersAreBegun ==
  ASSUME EntryInvariant
  PROVE  /\ IsFiniteSet(Holders)
         /\ \A r \in Holders : post[r].phase # "new" /\ post[r].size \in Nat
<1>1. IsFiniteSet(Holders)
  BY RequestAssumption, FS_Subset DEF Holders
<1>2. \A r \in Holders : post[r].phase # "new"
  BY HandedOverIsDone DEF Holders, HoldsAllowance
<1>3. QED
  BY <1>1, <1>2, BegunHasSize DEF Holders, EntryInvariant

(* The budget is kept by a step that changes no holder. *)
LEMMA SameHolders ==
  ASSUME EntryInvariant, BudgetIsKept, Holders' = Holders,
         \A r \in Holders : post'[r].size = post[r].size,
         admission_budget' = admission_budget
  PROVE  BudgetIsKept'
<1>1. Permits(post', Holders) = Permits(post, Holders)
  BY PermitsKept
<1>2. QED
  BY <1>1 DEF BudgetIsKept, BudgetIsConserved, Holders, Allowances, Permits

(* It is kept by a step that gives free permits to somebody. *)
LEMMA OneMoreHolder ==
  ASSUME EntryInvariant, BudgetIsKept, NEW r \in Posts, r \notin Holders,
         Holders' = Holders \cup {r}, post[r].size \in Nat,
         \A s \in Holders \cup {r} : post'[s].size = post[s].size,
         post[r].size <= admission_budget,
         admission_budget' = admission_budget - post[r].size
  PROVE  BudgetIsKept'
<1>1. Permits(post', Holders \cup {r}) = Permits(post, Holders \cup {r})
  BY PermitsKept
<1>2. Cardinality(Permits(post, Holders \cup {r}))
        = Cardinality(Permits(post, Holders)) + post[r].size
  BY HoldersAreBegun, PermitsTaken
<1>3. Cardinality(Permits(post, Holders)) \in Nat
  BY HoldersAreBegun, PermitsFinite
<1>4. admission_budget = TOTAL_CHUNK_BUDGET - Cardinality(Permits(post, Holders))
  BY DEF BudgetIsKept, BudgetIsConserved, Holders, Allowances, Permits
<1>5. admission_budget' = TOTAL_CHUNK_BUDGET - Cardinality(Permits(post', Holders'))
  BY <1>1, <1>2, <1>3, <1>4, LimitAssumption
<1>6. admission_budget' \in Nat
  BY DEF BudgetIsKept
<1>7. QED
  BY <1>5, <1>6 DEF BudgetIsKept, BudgetIsConserved, Holders, Allowances, Permits

(* It is kept by a step that frees the permits of some holders. *)
LEMMA FewerHolders ==
  ASSUME EntryInvariant, BudgetIsKept, NEW T \in SUBSET Holders,
         Holders' = Holders \ T,
         \A s \in Holders : post'[s].size = post[s].size,
         admission_budget' = admission_budget + Cardinality(Permits(post, T))
  PROVE  BudgetIsKept'
<1>1. Permits(post', Holders \ T) = Permits(post, Holders \ T)
  BY PermitsKept
<1>2. Cardinality(Permits(post, Holders))
        = Cardinality(Permits(post, Holders \ T)) + Cardinality(Permits(post, T))
  BY HoldersAreBegun, PermitsReturned
<1>3. /\ Cardinality(Permits(post, Holders \ T)) \in Nat
      /\ Cardinality(Permits(post, T)) \in Nat
  <2>1. IsFiniteSet(Holders \ T) /\ IsFiniteSet(T)
    BY HoldersAreBegun, FS_Subset
  <2>2. QED
    BY <2>1, HoldersAreBegun, PermitsFinite
<1>4. admission_budget = TOTAL_CHUNK_BUDGET - Cardinality(Permits(post, Holders))
  BY DEF BudgetIsKept, BudgetIsConserved, Holders, Allowances, Permits
<1>5. admission_budget' = TOTAL_CHUNK_BUDGET - Cardinality(Permits(post', Holders'))
  BY <1>1, <1>2, <1>3, <1>4, LimitAssumption
<1>6. admission_budget' \in Nat
  BY <1>3 DEF BudgetIsKept
<1>7. QED
  BY <1>5, <1>6 DEF BudgetIsKept, BudgetIsConserved, Holders, Allowances, Permits

-----------------------------------------------------------------------------
(* Blobs that were handed over are in one place. *)

(* The messages that are left when the first is taken. *)
LEMMA HeadAndTail ==
  ASSUME NEW S, NEW seq \in Seq(S), seq # <<>>
  PROVE  Range(seq) = {Head(seq)} \cup Range(Tail(seq))
<1>1. /\ Len(seq) \in Nat \ {0} /\ Head(seq) = seq[1]
      /\ DOMAIN seq = 1..Len(seq) /\ DOMAIN Tail(seq) = 1..(Len(seq) - 1)
      /\ \A i \in 1..(Len(seq) - 1) : Tail(seq)[i] = seq[i + 1]
  OBVIOUS
<1>2. \A i \in DOMAIN seq : i = 1 \/ i - 1 \in DOMAIN Tail(seq)
  BY <1>1
<1>3. Range(seq) \subseteq {Head(seq)} \cup Range(Tail(seq))
  BY <1>1, <1>2 DEF Range
<1>4. QED
  BY <1>3, TailRange

(* A new element goes to the end, the oldest is taken away. *)
LEMMA OnceAppended ==
  ASSUME NEW S, NEW T, NEW seq \in Seq(S), NEW e \in S, Once(seq, T),
         e \in T => e \notin Range(seq)
  PROVE  Once(Append(seq, e), T)
<1>1. /\ DOMAIN seq = 1..Len(seq) /\ Len(seq) \in Nat
      /\ DOMAIN Append(seq, e) = 1..(Len(seq) + 1)
      /\ \A i \in 1..Len(seq) : Append(seq, e)[i] = seq[i]
      /\ Append(seq, e)[Len(seq) + 1] = e
  OBVIOUS
<1>2. \A i \in 1..Len(seq) : seq[i] \in Range(seq)
  BY <1>1 DEF Range
<1>3. QED
  BY <1>1, <1>2 DEF Once

(* Of a sequence that has it once, the head is not found in the tail. *)
LEMMA OnceTaken ==
  ASSUME NEW S, NEW T, NEW seq \in Seq(S), seq # <<>>, Once(seq, T)
  PROVE  Once(Tail(seq), T) /\ (Head(seq) \in T => Head(seq) \notin Range(Tail(seq)))
<1>1. /\ Len(seq) \in Nat \ {0} /\ Head(seq) = seq[1] /\ 1 \in DOMAIN seq
      /\ DOMAIN seq = 1..Len(seq) /\ DOMAIN Tail(seq) = 1..(Len(seq) - 1)
      /\ \A i \in 1..(Len(seq) - 1) : Tail(seq)[i] = seq[i + 1] /\ i + 1 \in DOMAIN seq
  OBVIOUS
<1>2. Once(Tail(seq), T)
  BY <1>1 DEF Once
<1>3. Head(seq) \in T => \A i \in DOMAIN Tail(seq) : Tail(seq)[i] # Head(seq)
  BY <1>1 DEF Once
<1>4. QED
  BY <1>2, <1>3 DEF Range

(* A blob moves from its handler to a message, to the pipeline, and away. *)
LEMMA NextKeepsOnePlace ==
  EntryInvariant /\ BlobsAreInOnePlace /\ [Next]_vars => BlobsAreInOnePlace'
<1> SUFFICES ASSUME EntryInvariant, BlobsAreInOnePlace, [Next]_vars
             PROVE  BlobsAreInOnePlace'
  OBVIOUS
<1> DEFINE News == {NewBlob(r) : r \in Posts}
<1>0. /\ tx_admission \in Seq(MessageShape) /\ pipeline \in Seq(Posts)
      /\ Once(tx_admission, News) /\ Once(pipeline, Posts)
      /\ \A r \in Range(pipeline) : NewBlob(r) \notin Range(tx_admission)
  BY DEF EntryInvariant, Shapes, BlobsAreInOnePlace
<1> HIDE DEF News
<1>n. \A msg : msg \in News <=> \E r \in Posts : msg = NewBlob(r)
  BY DEF News
<1>o. ASSUME Once(tx_admission', News), Once(pipeline', Posts),
             \A r \in Range(pipeline') : NewBlob(r) \notin Range(tx_admission')
      PROVE  BlobsAreInOnePlace'
  BY <1>o DEF BlobsAreInOnePlace, News, Once, NewBlob
<1>1. CASE UNCHANGED <<tx_admission, pipeline>>
  BY <1>0, <1>1, <1>o DEF Once
<1>2. CASE \E r \in Posts : SendNewBlob(r)
  <2>1. PICK r \in Posts : SendNewBlob(r)
    BY <1>2
  <2>2. /\ post[r].phase = "sending" /\ pipeline' = pipeline
        /\ tx_admission' = Append(tx_admission, NewBlob(r))
    BY <2>1 DEF SendNewBlob, NewBlob
  <2>3. ~Sent(r) /\ r \notin Range(pipeline)
    BY <2>2, HandedOverIsDone
  <2>4. NewBlob(r) \in MessageShape /\ NewBlob(r) \notin Range(tx_admission)
    BY <2>3 DEF NewBlob, MessageShape, Sent, Range
  <2>5. Once(tx_admission', News)
    BY <1>0, <2>2, <2>4, OnceAppended
  <2>6. Range(tx_admission') = Range(tx_admission) \cup {NewBlob(r)}
    BY <1>0, <2>2, <2>4, AppendRange
  <2>7. \A s : NewBlob(s) = NewBlob(r) => s = r
    BY DEF NewBlob
  <2>8. \A s \in Range(pipeline') : NewBlob(s) \notin Range(tx_admission')
    BY <1>0, <2>2, <2>3, <2>6, <2>7
  <2>9. QED
    BY <1>0, <1>o, <2>2, <2>5, <2>8
<1>3. CASE \E g \in Gets : SendGetBlob(g)
  <2>1. PICK g \in Gets : SendGetBlob(g)
    BY <1>3
  <2>2. CASE UNCHANGED tx_admission
    BY <1>1, <2>1, <2>2 DEF SendGetBlob
  <2>3. CASE tx_admission' # tx_admission
    <3>1. PICK msg : msg = [tag |-> "GetBlob", id |-> get[g].id]
      OBVIOUS
    <3>2. /\ tx_admission' = Append(tx_admission, msg) /\ pipeline' = pipeline
          /\ get[g].phase = "sending"
      BY <2>1, <2>3, <3>1 DEF SendGetBlob
    <3>3. msg \in MessageShape
      BY <3>1, <3>2 DEF EntryInvariant, Shapes, GetState, MessageShape
    <3>4. \A r : NewBlob(r) # msg
      BY <3>1 DEF NewBlob
    <3>5. Once(tx_admission', News)
      BY <1>0, <1>n, <3>2, <3>3, <3>4, OnceAppended
    <3>6. Range(tx_admission') = Range(tx_admission) \cup {msg}
      BY <1>0, <3>2, <3>3, AppendRange
    <3>7. QED
      BY <1>0, <1>o, <3>2, <3>4, <3>5, <3>6
  <2>4. QED
    BY <2>2, <2>3
<1>4. CASE PipelineTakes
  <2>1. PICK msg : msg = Head(tx_admission)
    OBVIOUS
  <2>2. /\ tx_admission # <<>> /\ tx_admission' = Tail(tx_admission)
        /\ pipeline' = IF msg.tag = "NewBlob" THEN Append(pipeline, msg.post) ELSE pipeline
    BY <1>4, <2>1 DEF PipelineTakes
  <2>3. /\ msg \in MessageShape
        /\ Range(tx_admission) = {msg} \cup Range(tx_admission')
        /\ Once(tx_admission', News)
        /\ msg \in News => msg \notin Range(tx_admission')
    BY <1>0, <2>1, <2>2, TailRange, HeadAndTail, OnceTaken
  <2>4. CASE msg.tag = "NewBlob"
    <3>1. PICK r \in Posts : msg = NewBlob(r) /\ msg.post = r
      BY <2>3, <2>4 DEF MessageShape, NewBlob
    <3>2. pipeline' = Append(pipeline, r)
      BY <2>2, <2>4, <3>1
    <3>3. r \notin Range(pipeline) /\ NewBlob(r) \notin Range(tx_admission')
      BY <1>0, <1>n, <2>3, <3>1
    <3>4. Once(pipeline', Posts) /\ Range(pipeline') = Range(pipeline) \cup {r}
      BY <1>0, <3>2, <3>3, OnceAppended, AppendRange
    <3>5. QED
      BY <1>0, <1>o, <2>3, <3>3, <3>4
  <2>5. CASE msg.tag # "NewBlob"
    BY <1>0, <1>o, <2>2, <2>3, <2>5
  <2>6. QED
    BY <2>4, <2>5
<1>5. CASE PipelineFinalizes
  <2>1. pipeline # <<>> /\ pipeline' = Tail(pipeline) /\ tx_admission' = tx_admission
    BY <1>5 DEF PipelineFinalizes
  <2>2. Once(pipeline', Posts) /\ Range(pipeline') \subseteq Range(pipeline)
    BY <1>0, <2>1, OnceTaken, TailRange
  <2>3. Once(tx_admission', News)
    BY <1>0, <2>1
  <2>4. QED
    BY <1>0, <1>o, <2>1, <2>2, <2>3
<1>6. CASE StopPipeline
  <2>1. tx_admission' = <<>> /\ pipeline' = <<>>
    BY <1>6 DEF StopPipeline
  <2>2. \A T : Once(<<>>, T)
    BY DEF Once
  <2>3. Range(<<>>) = {}
    BY DEF Range
  <2>4. QED
    BY <1>o, <2>1, <2>2, <2>3
<1>7. CASE \E r \in Posts : NewBlobStep(r) /\ ~SendNewBlob(r)
  <2>1. UNCHANGED <<tx_admission, pipeline>>
    BY <1>7 DEF NewBlobStep, RefusePost, NewAdmission, AcquireAllowance, RefuseAllowance,
       ReadBody, StartHash, HashDone, BodyFails, SendNewBlobFails, CancelPost,
       DropAdmission, Unwinds
  <2>2. QED
    BY <1>1, <2>1
<1>8. CASE \/ \E g \in Gets : (\E raw \in RawIds : GetBlob(g, raw)) \/ CancelGet(g)
           \/ OrphanHashDone \/ UpdateStatus \/ StopMessages \/ RequestShutdown
           \/ Finished \/ UNCHANGED vars
  <2>1. UNCHANGED <<tx_admission, pipeline>>
    BY <1>8 DEF GetBlob, CancelGet, OrphanHashDone, UpdateStatus, StopMessages,
                RequestShutdown, Finished, vars
  <2>2. QED
    BY <1>1, <2>1
<1>9. QED
  BY <1>2, <1>3, <1>4, <1>5, <1>6, <1>7, <1>8 DEF Next, GetBlobStep, NewBlobStep

-----------------------------------------------------------------------------
(* The budget is kept, step by step. *)

(* A handler that neither takes nor drops an allowance. *)
LEMMA QuietStepKeepsBudget ==
  ASSUME EntryInvariant, BudgetIsKept, NEW r \in Posts,
         UNCHANGED <<tx_admission, pipeline, admission_budget>>,
         \A s \in Posts \ {r} : post'[s] = post[s],
         post'[r].phase \in Awaiting <=> post[r].phase \in Awaiting,
         post[r].phase # "new" => post'[r].size = post[r].size
  PROVE  BudgetIsKept'
<1>1. Holders' = Holders
  BY DEF Holders, HoldsAllowance, Sent
<1>2. \A s \in Holders : post'[s].size = post[s].size
  BY HoldersAreBegun DEF Holders
<1>3. QED
  BY <1>1, <1>2, SameHolders

(* The handlers' steps to another phase. *)
LEMMA PhaseChange ==
  ASSUME Shapes, NEW r \in Posts, NEW ph, post' = [post EXCEPT ![r].phase = ph],
         IsUnderway(r)
  PROVE  /\ \A s \in Posts \ {r} : post'[s] = post[s]
         /\ post'[r] = [phase |-> ph, id |-> post[r].id, size |-> post[r].size,
                        unread |-> post[r].unread]
         /\ post'[r].phase = ph /\ post'[r].size = post[r].size
         /\ post'[r].unread = post[r].unread
<1>1. post[r] \in PostShape
  BY DEF Shapes
<1>2. post' = [post EXCEPT ![r] = [post[r] EXCEPT !.phase = ph]]
  OBVIOUS
<1>3. [post[r] EXCEPT !.phase = ph]
        = [phase |-> ph, id |-> post[r].id, size |-> post[r].size,
           unread |-> post[r].unread]
  BY <1>1, UnderwayRecord DEF IsUnderway
<1>4. DOMAIN post = Posts
  BY DEF Shapes
<1>5. QED
  BY <1>2, <1>3, <1>4

(* A handler that returns early drops what it holds, if it holds anything. *)
LEMMA UnwindKeepsBudget ==
  ASSUME EntryInvariant, BudgetIsKept, NEW r \in Posts, IsUnderway(r), Unwinds(r)
  PROVE  BudgetIsKept'
<1>1. Shapes
  BY DEF EntryInvariant
<1>2. /\ \A s \in Posts \ {r} : post'[s] = post[s]
      /\ post'[r].phase = "dropping" /\ post'[r].size = post[r].size
  <2>1. PICK ph : ph = "dropping"
    OBVIOUS
  <2>2. post' = [post EXCEPT ![r].phase = ph]
    BY <2>1 DEF Unwinds
  <2>3. QED
    BY <1>1, <2>1, <2>2, PhaseChange
<1>3. UNCHANGED <<tx_admission, pipeline>>
  BY DEF Unwinds
<1>4. CASE HoldsAllowance(r)
  <2>1. r \in Holders /\ ~Sent(r) /\ r \notin Range(pipeline)
    BY <1>4, HandedOverIsDone DEF Holders, HoldsAllowance
  <2>2. Holders' = Holders \ {r}
    BY <1>2, <1>3, <2>1 DEF Holders, HoldsAllowance, Sent
  <2>3. post[r].size \in Nat
    BY <2>1, HoldersAreBegun
  <2>4. admission_budget' = admission_budget + Cardinality(Permits(post, {r}))
    BY <1>4, <2>3, PermitsOfOne DEF Unwinds, Returned
  <2>5. \A s \in Holders : post'[s].size = post[s].size
    BY <1>2 DEF Holders
  <2>6. QED
    BY <2>1, <2>2, <2>4, <2>5, FewerHolders
<1>5. CASE ~HoldsAllowance(r)
  <2>1. admission_budget' = admission_budget
    BY <1>5 DEF Unwinds, Returned, BudgetIsKept
  <2>2. QED
    BY <1>2, <1>3, <1>5, <2>1, QuietStepKeepsBudget DEF HoldsAllowance
<1>6. QED
  BY <1>4, <1>5

(* try_acquire_many_owned takes what is free, or nothing. *)
LEMMA AcquireKeepsBudget ==
  ASSUME EntryInvariant, BudgetIsKept, NEW r \in Posts, AcquireAllowance(r)
  PROVE  BudgetIsKept'
<1>1. Shapes /\ IsUnderway(r) /\ post[r].phase = "admitted"
  BY DEF EntryInvariant, AcquireAllowance, IsUnderway
<1>2. /\ \A s \in Posts \ {r} : post'[s] = post[s]
      /\ post'[r].phase = "reading" /\ post'[r].size = post[r].size
  <2>1. PICK ph : ph = "reading"
    OBVIOUS
  <2>2. post' = [post EXCEPT ![r].phase = ph]
    BY <2>1 DEF AcquireAllowance
  <2>3. QED
    BY <1>1, <2>1, <2>2, PhaseChange
<1>3. UNCHANGED <<tx_admission, pipeline>>
  BY DEF AcquireAllowance
<1>4. r \notin Holders
  BY <1>1, HandedOverIsDone DEF Holders, HoldsAllowance
<1>5. Holders' = Holders \cup {r}
  BY <1>2, <1>3 DEF Holders, HoldsAllowance, Sent
<1>6. post[r].size \in Nat
  BY <1>1, BegunHasSize
<1>7. \A s \in Holders \cup {r} : post'[s].size = post[s].size
  BY <1>2 DEF Holders
<1>8. /\ post[r].size <= admission_budget
      /\ admission_budget' = admission_budget - post[r].size
  BY <1>6 DEF AcquireAllowance, Affords, BudgetIsKept
<1>9. QED
  BY <1>4, <1>5, <1>6, <1>7, <1>8, OneMoreHolder

(* The blob takes the allowance along. *)
LEMMA SendKeepsBudget ==
  ASSUME EntryInvariant, BudgetIsKept, NEW r \in Posts, SendNewBlob(r)
  PROVE  BudgetIsKept'
<1>1. /\ Shapes /\ post[r].phase = "sending"
      /\ post' = [post EXCEPT ![r] = [phase |-> "done", id |-> post[r].id,
                                      size |-> post[r].size, answer |-> "Created"]]
      /\ tx_admission' = Append(tx_admission, NewBlob(r))
      /\ pipeline' = pipeline /\ admission_budget' = admission_budget
  BY DEF EntryInvariant, SendNewBlob, Committed, Finish, NewBlob
<1>2. /\ \A s \in Posts \ {r} : post'[s] = post[s]
      /\ post'[r].phase = "done" /\ post'[r].size = post[r].size
  BY <1>1 DEF Shapes
<1>3. NewBlob(r) \in MessageShape /\ tx_admission \in Seq(MessageShape)
  BY <1>1 DEF NewBlob, MessageShape, Shapes
<1>4. Range(tx_admission') = Range(tx_admission) \cup {NewBlob(r)}
  BY <1>1, <1>3, AppendRange
<1>5. \A s \in Posts : Sent(s)' <=> Sent(s) \/ s = r
  <2>1. \A s \in Posts : /\ Sent(s) <=> NewBlob(s) \in Range(tx_admission)
                         /\ Sent(s)' <=> NewBlob(s) \in Range(tx_admission')
    BY DEF Sent, Range, NewBlob
  <2>2. \A s \in Posts : NewBlob(s) = NewBlob(r) => s = r
    BY DEF NewBlob
  <2>3. QED
    BY <1>4, <2>1, <2>2
<1>6. Holders' = Holders
  BY <1>1, <1>2, <1>5 DEF Holders, HoldsAllowance
<1>7. \A s \in Holders : post'[s].size = post[s].size
  BY <1>2 DEF Holders
<1>8. QED
  BY <1>1, <1>6, <1>7, SameHolders

(* Every step of a POST. *)
LEMMA UploadKeepsBudget ==
  ASSUME EntryInvariant, BudgetIsKept, NEW r \in Posts, NewBlobStep(r)
  PROVE  BudgetIsKept'
<1>0. Shapes /\ DOMAIN post = Posts
  BY DEF EntryInvariant, Shapes
<1>1. CASE \E raw \in RawIds, size \in BlobSizes : RefusePost(r, raw, size)
  <2>1. /\ UNCHANGED <<tx_admission, pipeline, admission_budget>>
        /\ post[r].phase = "new" /\ post'[r].phase = "done"
        /\ \A s \in Posts \ {r} : post'[s] = post[s]
    BY <1>0, <1>1 DEF RefusePost, Finish
  <2>2. QED
    BY <2>1, QuietStepKeepsBudget
<1>2. CASE \E raw \in RawIds, size \in BlobSizes : NewAdmission(r, raw, size)
  <2>1. /\ UNCHANGED <<tx_admission, pipeline, admission_budget>>
        /\ post[r].phase = "new" /\ post'[r].phase = "admitted"
        /\ \A s \in Posts \ {r} : post'[s] = post[s]
    BY <1>0, <1>2 DEF NewAdmission
  <2>2. QED
    BY <2>1, QuietStepKeepsBudget
<1>3. CASE AcquireAllowance(r)
  BY <1>3, AcquireKeepsBudget
<1>4. CASE RefuseAllowance(r) \/ BodyFails(r) \/ SendNewBlobFails(r) \/ CancelPost(r)
  <2>1. IsUnderway(r) /\ Unwinds(r)
    BY <1>4 DEF RefuseAllowance, BodyFails, SendNewBlobFails, CancelPost, IsUnderway
  <2>2. QED
    BY <2>1, UnwindKeepsBudget
<1>5. CASE ReadBody(r) \/ StartHash(r)
  <2>1. /\ UNCHANGED <<tx_admission, pipeline, admission_budget>>
        /\ IsUnderway(r) /\ post[r].phase \in Awaiting
        /\ \E ph \in Awaiting : post' = [post EXCEPT ![r].phase = ph]
    BY <1>5 DEF ReadBody, StartHash, IsUnderway
  <2>2. /\ \A s \in Posts \ {r} : post'[s] = post[s]
        /\ post'[r].phase \in Awaiting /\ post'[r].size = post[r].size
    BY <1>0, <2>1, PhaseChange
  <2>3. QED
    BY <2>1, <2>2, QuietStepKeepsBudget
<1>6. CASE HashDone(r)
  <2>1. /\ UNCHANGED <<tx_admission, pipeline, admission_budget>>
        /\ post[r].phase = "hashing" /\ post'[r].phase = "reading"
        /\ post'[r].size = post[r].size
        /\ \A s \in Posts \ {r} : post'[s] = post[s]
    BY <1>0, <1>6 DEF HashDone
  <2>2. QED
    BY <2>1, QuietStepKeepsBudget
<1>7. CASE SendNewBlob(r)
  BY <1>7, SendKeepsBudget
<1>8. CASE DropAdmission(r)
  <2>1. /\ UNCHANGED <<tx_admission, pipeline, admission_budget>>
        /\ post[r].phase = "dropping" /\ post'[r].phase = "done"
        /\ post'[r].size = post[r].size
        /\ \A s \in Posts \ {r} : post'[s] = post[s]
    BY <1>0, <1>8 DEF DropAdmission, Finish
  <2>2. QED
    BY <2>1, QuietStepKeepsBudget
<1>9. QED
  BY <1>1, <1>2, <1>3, <1>4, <1>5, <1>6, <1>7, <1>8 DEF NewBlobStep

(* Taking a message moves its blob from the channel to the pipeline. *)
LEMMA TakeKeepsBudget ==
  ASSUME EntryInvariant, BudgetIsKept, PipelineTakes
  PROVE  BudgetIsKept'
<1> DEFINE msg == Head(tx_admission)
<1>1. /\ Shapes /\ tx_admission # <<>> /\ tx_admission' = Tail(tx_admission)
      /\ pipeline' = IF msg.tag = "NewBlob" THEN Append(pipeline, msg.post) ELSE pipeline
      /\ UNCHANGED <<post, admission_budget>>
  BY DEF EntryInvariant, PipelineTakes
<1>2. /\ tx_admission \in Seq(MessageShape) /\ msg \in MessageShape
      /\ Range(tx_admission) = {msg} \cup Range(tx_admission')
  BY <1>1, HeadAndTail, TailRange DEF Shapes
<1> HIDE DEF msg
<1>3. \A r \in Posts : /\ Sent(r) <=> NewBlob(r) \in Range(tx_admission)
                       /\ Sent(r)' <=> NewBlob(r) \in Range(tx_admission')
  BY DEF Sent, Range, NewBlob
<1>4. \A r \in Posts : Sent(r) \/ r \in Range(pipeline)
                       <=> Sent(r)' \/ r \in Range(pipeline')
  <2>1. CASE msg.tag = "NewBlob"
    <3>1. msg.post \in Posts /\ msg = NewBlob(msg.post)
      BY <1>2, <2>1 DEF MessageShape, NewBlob
    <3>2. \A r \in Posts : msg = NewBlob(r) <=> r = msg.post
      BY <3>1 DEF NewBlob
    <3>3. Range(pipeline') = Range(pipeline) \cup {msg.post}
      BY <1>1, <2>1, <3>1, AppendRange DEF Shapes
    <3>4. QED
      BY <1>2, <1>3, <3>2, <3>3
  <2>2. CASE msg.tag # "NewBlob"
    <3>1. \A r \in Posts : msg # NewBlob(r)
      BY <2>2 DEF NewBlob
    <3>2. QED
      BY <1>1, <1>2, <1>3, <2>2, <3>1
  <2>3. QED
    BY <2>1, <2>2
<1>5. Holders' = Holders
  BY <1>1, <1>4 DEF Holders, HoldsAllowance
<1>6. QED
  BY <1>1, <1>5, SameHolders

(* A finalized blob drops its allowance, which nobody else has. *)
LEMMA FinalizeKeepsBudget ==
  ASSUME EntryInvariant, BudgetIsKept, BlobsAreInOnePlace, PipelineFinalizes
  PROVE  BudgetIsKept'
<1> DEFINE r == Head(pipeline)
<1>1. /\ Shapes /\ pipeline # <<>> /\ pipeline' = Tail(pipeline)
      /\ UNCHANGED <<post, tx_admission>>
      /\ admission_budget' = admission_budget + post[r].size
  BY DEF EntryInvariant, PipelineFinalizes
<1>2. /\ r \in Posts /\ r \in Range(pipeline)
      /\ Range(pipeline) = {r} \cup Range(pipeline')
  BY <1>1, HeadAndTail, TailRange DEF Shapes
<1>3. r \notin Range(pipeline')
  BY <1>1, <1>2, OnceTaken DEF Shapes, BlobsAreInOnePlace
<1> HIDE DEF r
<1>4. ~Sent(r)
  <2>1. NewBlob(r) \notin Range(tx_admission)
    BY <1>2 DEF BlobsAreInOnePlace
  <2>2. QED
    BY <2>1 DEF Sent, Range, NewBlob
<1>5. post[r].phase = "done" /\ r \in Holders
  BY <1>2, HandedOverIsDone DEF Holders
<1>6. Holders' = Holders \ {r}
  <2>1. \A s \in Posts : /\ HoldsAllowance(s)' <=> HoldsAllowance(s)
                         /\ Sent(s)' <=> Sent(s)
    BY <1>1 DEF HoldsAllowance, Sent
  <2>2. ~HoldsAllowance(r)
    BY <1>5 DEF HoldsAllowance
  <2>3. QED
    BY <1>2, <1>3, <1>4, <2>1, <2>2 DEF Holders
<1>7. Cardinality(Permits(post, {r})) = post[r].size
  BY <1>5, HoldersAreBegun, PermitsOfOne
<1>8. QED
  BY <1>1, <1>5, <1>6, <1>7, FewerHolders

(* The end of the pipeline drops what it holds and what it did not take. *)
LEMMA StopKeepsBudget ==
  ASSUME EntryInvariant, BudgetIsKept, StopPipeline
  PROVE  BudgetIsKept'
<1> DEFINE T == Range(pipeline) \cup {r \in Posts : Sent(r)}
<1>1. /\ Shapes /\ pipeline' = <<>> /\ tx_admission' = <<>> /\ post' = post
      /\ admission_budget' = admission_budget + Cardinality(Permits(post, T))
  BY DEF EntryInvariant, StopPipeline, Allowances, Permits
<1>2. Range(pipeline) \subseteq Posts
  BY <1>1, SeqElements DEF Shapes
<1>3. T \subseteq Holders
  BY <1>2 DEF Holders
<1>4. \A r \in T : ~HoldsAllowance(r)
  BY <1>2, HandedOverIsDone DEF HoldsAllowance
<1>5. Range(<<>>) = {} /\ DOMAIN <<>> = {}
  BY DEF Range
<1>6. \A r \in Posts : /\ HoldsAllowance(r)' <=> HoldsAllowance(r)
                       /\ ~Sent(r)'
                       /\ r \notin Range(pipeline')
  BY <1>1, <1>5 DEF HoldsAllowance, Sent
<1>7. Holders' = Holders \ T
  BY <1>4, <1>6 DEF Holders
<1> HIDE DEF T
<1>8. QED
  BY <1>1, <1>3, <1>7, FewerHolders

(* The rest touches neither holders nor budget. *)
LEMMA ElsewhereKeepsBudget ==
  ASSUME EntryInvariant, BudgetIsKept, UNCHANGED <<post, pipeline, admission_budget>>,
         \/ UNCHANGED tx_admission
         \/ \E g \in Gets : tx_admission' =
              Append(tx_admission, [tag |-> "GetBlob", id |-> get[g].id])
  PROVE  BudgetIsKept'
<1>1. \A r \in Posts : Sent(r)' <=> Sent(r)
  <2>1. CASE UNCHANGED tx_admission
    BY <2>1 DEF Sent
  <2>2. ASSUME NEW msg, tx_admission' = Append(tx_admission, msg), msg.tag = "GetBlob"
        PROVE  \A r \in Posts : Sent(r)' <=> Sent(r)
    <3>1. tx_admission \in Seq(MessageShape)
      BY DEF EntryInvariant, Shapes
    <3>2. /\ DOMAIN tx_admission = 1..Len(tx_admission) /\ Len(tx_admission) \in Nat
          /\ DOMAIN tx_admission' = 1..(Len(tx_admission) + 1)
          /\ \A i \in 1..Len(tx_admission) : tx_admission'[i] = tx_admission[i]
          /\ tx_admission'[Len(tx_admission) + 1] = msg
      BY <2>2, <3>1
    <3>3. \A r \in Posts : msg # NewBlob(r)
      BY <2>2 DEF NewBlob
    <3>4. QED
      BY <3>2, <3>3 DEF Sent, NewBlob
  <2>3. QED
    BY <2>1, <2>2
<1>2. Holders' = Holders
  BY <1>1 DEF Holders, HoldsAllowance
<1>3. QED
  BY <1>2, SameHolders

(* One step of the bridge. *)
LEMMA NextKeepsBudget ==
  EntryInvariant /\ BlobsAreInOnePlace /\ BudgetIsKept /\ [Next]_vars => BudgetIsKept'
<1> SUFFICES ASSUME EntryInvariant, BlobsAreInOnePlace, BudgetIsKept, [Next]_vars
             PROVE  BudgetIsKept'
  OBVIOUS
<1>1. CASE \E r \in Posts : NewBlobStep(r)
  BY <1>1, UploadKeepsBudget
<1>2. CASE PipelineTakes
  BY <1>2, TakeKeepsBudget
<1>3. CASE PipelineFinalizes
  BY <1>3, FinalizeKeepsBudget
<1>4. CASE StopPipeline
  BY <1>4, StopKeepsBudget
<1>5. CASE \E g \in Gets : SendGetBlob(g)
  <2>1. PICK g \in Gets : SendGetBlob(g)
    BY <1>5
  <2>2. /\ UNCHANGED <<post, pipeline, admission_budget>>
        /\ \/ UNCHANGED tx_admission
           \/ tx_admission' = Append(tx_admission, [tag |-> "GetBlob", id |-> get[g].id])
    BY <2>1 DEF SendGetBlob
  <2>3. QED
    BY <2>2, ElsewhereKeepsBudget
<1>6. CASE \/ \E g \in Gets : (\E raw \in RawIds : GetBlob(g, raw)) \/ CancelGet(g)
           \/ OrphanHashDone \/ UpdateStatus \/ StopMessages \/ RequestShutdown
           \/ Finished \/ UNCHANGED vars
  <2>1. UNCHANGED <<post, pipeline, admission_budget, tx_admission>>
    BY <1>6 DEF GetBlob, CancelGet, OrphanHashDone, UpdateStatus, StopMessages,
                RequestShutdown, Finished, vars
  <2>2. QED
    BY <2>1, ElsewhereKeepsBudget
<1>7. QED
  BY <1>1, <1>2, <1>3, <1>4, <1>5, <1>6 DEF Next, GetBlobStep

-----------------------------------------------------------------------------
(* Types. *)

(* Hash jobs: a handler that hashes has one, and may leave it behind. *)
LEMMA NextKeepsJobs ==
  Shapes /\ JobsAreCounted /\ [Next]_vars => JobsAreCounted'
<1> SUFFICES ASSUME Shapes, JobsAreCounted, [Next]_vars
             PROVE  JobsAreCounted'
  OBVIOUS
<1>0. DOMAIN post = Posts
  BY DEF Shapes
<1>1. /\ IsFiniteSet(Hashes) /\ Cardinality(Hashes) \in Nat
      /\ hashing \in Nat /\ hashing <= HASHERS /\ HASHERS \in Nat
      /\ Cardinality(Hashes) <= hashing
  <2>1. IsFiniteSet(Hashes)
    BY RequestAssumption, FS_Subset DEF Hashes
  <2>2. QED
    BY <2>1, FS_CardinalityType, LimitAssumption DEF JobsAreCounted
<1>2. ASSUME Hashes' \in SUBSET Hashes, hashing' = hashing
      PROVE  JobsAreCounted'
  <2>1. Cardinality(Hashes') <= Cardinality(Hashes) /\ Cardinality(Hashes') \in Nat
    BY <1>1, <1>2, FS_Subset, FS_CardinalityType
  <2>2. QED
    BY <1>1, <1>2, <2>1 DEF JobsAreCounted
<1>3. CASE \E r \in Posts : StartHash(r)
  <2>1. PICK r \in Posts : StartHash(r)
    BY <1>3
  <2>2. /\ hashing < HASHERS /\ hashing' = hashing + 1
        /\ \A s \in Posts \ {r} : post'[s] = post[s]
    BY <1>0, <2>1 DEF StartHash
  <2>3. Hashes' \subseteq Hashes \cup {r}
    BY <2>2 DEF Hashes
  <2>4. /\ IsFiniteSet(Hashes \cup {r})
        /\ Cardinality(Hashes \cup {r}) <= Cardinality(Hashes) + 1
        /\ Cardinality(Hashes \cup {r}) \in Nat
    <3>1. /\ IsFiniteSet(Hashes \cup {r})
          /\ Cardinality(Hashes \cup {r})
               = IF r \in Hashes THEN Cardinality(Hashes) ELSE Cardinality(Hashes) + 1
      BY <1>1, FS_AddElement
    <3>2. QED
      BY <1>1, <3>1
  <2>5. Cardinality(Hashes') <= Cardinality(Hashes \cup {r}) /\ Cardinality(Hashes') \in Nat
    BY <2>3, <2>4, FS_Subset, FS_CardinalityType
  <2>6. QED
    BY <1>1, <2>2, <2>4, <2>5 DEF JobsAreCounted
<1>4. CASE \E r \in Posts : HashDone(r)
  <2>1. PICK r \in Posts : HashDone(r)
    BY <1>4
  <2>2. /\ hashing' = hashing - 1 /\ post[r].phase = "hashing"
        /\ post'[r].phase = "reading"
        /\ \A s \in Posts \ {r} : post'[s] = post[s]
    BY <1>0, <2>1 DEF HashDone, JobEnds
  <2>3. r \in Hashes /\ Hashes' = Hashes \ {r}
    BY <2>2 DEF Hashes
  <2>4. /\ Cardinality(Hashes \ {r}) = Cardinality(Hashes) - 1
        /\ Cardinality(Hashes \ {r}) \in Nat
    BY <1>1, <2>3, FS_RemoveElement, FS_CardinalityType
  <2>5. QED
    BY <1>1, <2>2, <2>3, <2>4 DEF JobsAreCounted
<1>5. CASE OrphanHashDone
  <2>1. hashing > Cardinality(Hashes) /\ hashing' = hashing - 1 /\ Hashes' = Hashes
    BY <1>5 DEF OrphanHashDone, JobEnds, Hashes
  <2>2. QED
    BY <1>1, <2>1 DEF JobsAreCounted
<1>6. CASE \E r \in Posts : NewBlobStep(r) /\ ~StartHash(r) /\ ~HashDone(r)
  <2>1. PICK r \in Posts : NewBlobStep(r) /\ ~StartHash(r) /\ ~HashDone(r)
    BY <1>6
  <2>2. hashing' = hashing
    BY <2>1 DEF NewBlobStep, RefusePost, NewAdmission, AcquireAllowance, RefuseAllowance,
       ReadBody, BodyFails, SendNewBlob, SendNewBlobFails, CancelPost, DropAdmission,
       Unwinds
  <2>3. /\ \A s \in Posts \ {r} : post'[s] = post[s]
        /\ post'[r].phase # "hashing"
    <3>1. CASE \/ AcquireAllowance(r) \/ RefuseAllowance(r) \/ ReadBody(r)
               \/ BodyFails(r) \/ SendNewBlobFails(r) \/ CancelPost(r)
      <4>1. \E ph \in {"permit", "sending", "reading", "dropping"} :
              post' = [post EXCEPT ![r].phase = ph] /\ IsUnderway(r)
        BY <3>1 DEF AcquireAllowance, RefuseAllowance, ReadBody, BodyFails,
           SendNewBlobFails, CancelPost, Unwinds, IsUnderway
      <4>2. QED
        BY <4>1, PhaseChange
    <3>2. CASE \E raw \in RawIds, size \in BlobSizes :
                 RefusePost(r, raw, size) \/ NewAdmission(r, raw, size)
      BY <1>0, <3>2 DEF RefusePost, NewAdmission, Finish
    <3>3. CASE SendNewBlob(r) \/ DropAdmission(r)
      BY <1>0, <3>3 DEF SendNewBlob, DropAdmission, Committed, Finish
    <3>4. QED
      BY <2>1, <3>1, <3>2, <3>3 DEF NewBlobStep
  <2>4. Hashes' \in SUBSET Hashes
    BY <2>3 DEF Hashes
  <2>5. QED
    BY <1>2, <2>2, <2>4
<1>7. CASE \/ \E g \in Gets : GetBlobStep(g)
           \/ UpdateStatus \/ StopMessages \/ PipelineTakes \/ PipelineFinalizes
           \/ StopPipeline \/ RequestShutdown \/ Finished \/ UNCHANGED vars
  <2>1. UNCHANGED <<post, hashing>>
    BY <1>7 DEF GetBlobStep, GetBlob, SendGetBlob, CancelGet, UpdateStatus, StopMessages,
       PipelineTakes, PipelineFinalizes, StopPipeline, RequestShutdown, Finished, vars
  <2>2. Hashes' \in SUBSET Hashes
    BY <2>1 DEF Hashes
  <2>3. QED
    BY <1>2, <2>1, <2>2
<1>8. QED
  BY <1>3, <1>4, <1>5, <1>6, <1>7 DEF Next

(* A handler asks for a hash only when the body owes a chunk. *)
LEMMA NextKeepsChunks ==
  Shapes /\ ChunksAreOwed /\ [Next]_vars => ChunksAreOwed'
<1> SUFFICES ASSUME Shapes, ChunksAreOwed, [Next]_vars
             PROVE  ChunksAreOwed'
  OBVIOUS
<1> USE DEF IsUnderway
<1>0. DOMAIN post = Posts
  BY DEF Shapes
<1>1. ASSUME NEW r \in Posts, \A s \in Posts \ {r} : post'[s] = post[s],
             IsUnderway(r)' =>
               /\ post'[r].unread \in Nat
               /\ post'[r].phase \in {"permit", "hashing"} => post'[r].unread > 0
      PROVE  ChunksAreOwed'
  BY <1>1 DEF ChunksAreOwed
<1>2. ASSUME NEW r \in Posts, NEW ph, post' = [post EXCEPT ![r].phase = ph], IsUnderway(r),
             ph \in {"permit", "hashing"} => post[r].unread > 0
      PROVE  ChunksAreOwed'
  <2>1. /\ \A s \in Posts \ {r} : post'[s] = post[s]
        /\ post'[r].phase = ph /\ post'[r].unread = post[r].unread
    BY <1>2, PhaseChange
  <2>2. post[r].unread \in Nat
    BY <1>2 DEF ChunksAreOwed
  <2>3. QED
    BY <1>1, <1>2, <2>1, <2>2
<1>3. CASE \E r \in Posts : NewBlobStep(r)
  <2>1. PICK r \in Posts : NewBlobStep(r)
    BY <1>3
  <2>2. CASE \E raw \in RawIds, size \in BlobSizes : NewAdmission(r, raw, size)
    <3>1. /\ \A s \in Posts \ {r} : post'[s] = post[s]
          /\ post'[r].phase = "admitted" /\ post'[r].unread \in Nat
      BY <1>0, <2>2, LimitAssumption DEF NewAdmission
    <3>2. QED
      BY <1>1, <3>1
  <2>3. CASE HashDone(r)
    <3>1. /\ \A s \in Posts \ {r} : post'[s] = post[s]
          /\ post'[r].phase = "reading" /\ post'[r].unread = post[r].unread - 1
          /\ post[r].phase = "hashing"
      BY <1>0, <2>3 DEF HashDone
    <3>2. post[r].unread \in Nat /\ post[r].unread > 0
      BY <3>1 DEF ChunksAreOwed
    <3>3. QED
      BY <1>1, <3>1, <3>2
  <2>4. CASE ReadBody(r) \/ StartHash(r)
    <3>1. post[r].phase = "permit" => post[r].unread > 0
      BY DEF ChunksAreOwed
    <3>2. \E ph \in {"permit", "sending", "hashing"} :
            /\ post' = [post EXCEPT ![r].phase = ph] /\ IsUnderway(r)
            /\ ph \in {"permit", "hashing"} => post[r].unread > 0
      BY <2>4, <3>1 DEF ReadBody, StartHash
    <3>3. QED
      BY <1>2, <3>2
  <2>5. CASE \/ AcquireAllowance(r) \/ RefuseAllowance(r) \/ BodyFails(r)
             \/ SendNewBlobFails(r) \/ CancelPost(r)
    <3>1. \E ph \in {"reading", "dropping"} :
            post' = [post EXCEPT ![r].phase = ph] /\ IsUnderway(r)
      BY <2>5 DEF AcquireAllowance, RefuseAllowance, BodyFails, SendNewBlobFails,
         CancelPost, Unwinds
    <3>2. QED
      BY <1>2, <3>1
  <2>6. CASE \/ \E raw \in RawIds, size \in BlobSizes : RefusePost(r, raw, size)
             \/ SendNewBlob(r) \/ DropAdmission(r)
    <3>1. /\ \A s \in Posts \ {r} : post'[s] = post[s]
          /\ post'[r].phase = "done"
      BY <1>0, <2>6 DEF RefusePost, SendNewBlob, Committed, DropAdmission, Finish
    <3>2. QED
      BY <1>1, <3>1
  <2>7. QED
    BY <2>1, <2>2, <2>3, <2>4, <2>5, <2>6 DEF NewBlobStep
<1>4. CASE ~\E r \in Posts : NewBlobStep(r)
  <2>1. post' = post
    BY <1>4 DEF Next, GetBlobStep, GetBlob, SendGetBlob, CancelGet, OrphanHashDone,
       UpdateStatus, StopMessages, PipelineTakes, PipelineFinalizes, StopPipeline,
       RequestShutdown, Finished, vars
  <2>2. QED
    BY <2>1 DEF ChunksAreOwed
<1>5. QED
  BY <1>3, <1>4

(* A download goes on only for a valid id. *)
LEMMA NextKeepsDownloads ==
  Shapes /\ DownloadsAreValid /\ [Next]_vars => DownloadsAreValid'
<1> SUFFICES ASSUME Shapes, DownloadsAreValid, [Next]_vars
             PROVE  DownloadsAreValid'
  OBVIOUS
<1>0. get \in [Gets -> GetState] /\ tx_admission \in Seq(Message)
  BY DEF Shapes, DownloadsAreValid
<1>1. CASE \E g \in Gets : GetBlobStep(g)
  <2>1. PICK g \in Gets : GetBlobStep(g)
    BY <1>1
  <2>2. CASE \E raw \in RawIds : GetBlob(g, raw)
    <3>1. PICK raw \in RawIds : GetBlob(g, raw)
      BY <2>2
    <3>2. PICK id : id = Validated[raw]
      OBVIOUS
    <3>3. /\ tx_admission' = tx_admission
          /\ \A h \in Gets \ {g} : get'[h] = get[h]
          /\ get'[g].id = id /\ (get'[g].phase = "sending" => id # BadId)
      BY <1>0, <3>1, <3>2 DEF GetBlob
    <3>4. id # BadId => id \in Ids
      BY <3>2, IdAssumption
    <3>5. QED
      BY <3>3, <3>4 DEF DownloadsAreValid
  <2>3. CASE SendGetBlob(g) \/ CancelGet(g)
    <3>1. /\ get[g].phase = "sending" /\ get[g].id \in Ids
          /\ get' = [get EXCEPT ![g].phase = "done"]
          /\ \/ tx_admission' = tx_admission
             \/ tx_admission' = Append(tx_admission, [tag |-> "GetBlob", id |-> get[g].id])
      BY <2>3 DEF SendGetBlob, CancelGet, DownloadsAreValid
    <3>2. get'[g].phase = "done" /\ \A h \in Gets \ {g} : get'[h] = get[h]
      <4>1. get[g] \in [phase : {"sending", "done"}, id : Ids \cup {BadId}]
        BY <1>0, <3>1 DEF GetState
      <4>2. QED
        BY <1>0, <3>1, <4>1
    <3>3. [tag |-> "GetBlob", id |-> get[g].id] \in Message
      BY <3>1 DEF Message
    <3>4. tx_admission' \in Seq(Message)
      BY <1>0, <3>1, <3>3, AppendRange
    <3>5. QED
      BY <3>2, <3>4 DEF DownloadsAreValid
  <2>4. QED
    BY <2>1, <2>2, <2>3 DEF GetBlobStep
<1>2. CASE \E r \in Posts : SendNewBlob(r)
  <2>1. PICK r \in Posts : SendNewBlob(r)
    BY <1>2
  <2>2. NewBlob(r) \in Message
    BY DEF NewBlob, Message
  <2>3. tx_admission' = Append(tx_admission, NewBlob(r)) /\ get' = get
    BY <2>1 DEF SendNewBlob, NewBlob
  <2>4. tx_admission' \in Seq(Message)
    BY <1>0, <2>2, <2>3, AppendRange
  <2>5. QED
    BY <2>3, <2>4 DEF DownloadsAreValid
<1>3. CASE PipelineTakes \/ StopPipeline
  <2>1. /\ get' = get
        /\ \/ tx_admission # <<>> /\ tx_admission' = Tail(tx_admission)
           \/ tx_admission' = <<>>
    BY <1>3 DEF PipelineTakes, StopPipeline
  <2>2. tx_admission' \in Seq(Message)
    <3>1. CASE tx_admission # <<>> /\ tx_admission' = Tail(tx_admission)
      BY <1>0, <3>1, TailRange
    <3>2. CASE tx_admission' = <<>>
      BY <3>2
    <3>3. QED
      BY <2>1, <3>1, <3>2
  <2>3. QED
    BY <2>1, <2>2 DEF DownloadsAreValid
<1>4. CASE \E r \in Posts : NewBlobStep(r) /\ ~SendNewBlob(r)
  <2>1. UNCHANGED <<get, tx_admission>>
    BY <1>4 DEF NewBlobStep, RefusePost, NewAdmission, AcquireAllowance, RefuseAllowance,
       ReadBody, StartHash, HashDone, BodyFails, SendNewBlobFails, CancelPost,
       DropAdmission, Unwinds
  <2>2. QED
    BY <2>1 DEF DownloadsAreValid
<1>5. CASE \/ OrphanHashDone \/ UpdateStatus \/ StopMessages \/ PipelineFinalizes
           \/ RequestShutdown \/ Finished \/ UNCHANGED vars
  <2>1. UNCHANGED <<get, tx_admission>>
    BY <1>5 DEF OrphanHashDone, UpdateStatus, StopMessages, PipelineFinalizes,
                RequestShutdown, Finished, vars
  <2>2. QED
    BY <2>1 DEF DownloadsAreValid
<1>6. QED
  BY <1>1, <1>2, <1>3, <1>4, <1>5 DEF Next

(* Shutdown is requested once, and each task ends once. *)
LEMMA NextKeepsSwitches == Switches /\ [Next]_vars => Switches'
<1> SUFFICES ASSUME Switches, [Next]_vars
             PROVE  Switches'
  OBVIOUS
<1> USE DEF Switches
<1>1. CASE UNCHANGED ends
  BY <1>1
<1>2. CASE StopMessages \/ StopPipeline \/ RequestShutdown
  BY <1>2 DEF StopMessages, StopPipeline, RequestShutdown
<1>3. CASE \E r \in Posts : NewBlobStep(r)
  BY <1>1, <1>3 DEF NewBlobStep, RefusePost, NewAdmission, AcquireAllowance,
     RefuseAllowance, ReadBody, StartHash, HashDone, BodyFails, SendNewBlob,
     SendNewBlobFails, CancelPost, DropAdmission, Unwinds
<1>4. CASE \/ \E g \in Gets : GetBlobStep(g)
           \/ OrphanHashDone \/ UpdateStatus \/ PipelineTakes \/ PipelineFinalizes
           \/ Finished \/ UNCHANGED vars
  BY <1>1, <1>4 DEF GetBlobStep, GetBlob, SendGetBlob, CancelGet, OrphanHashDone,
     UpdateStatus, PipelineTakes, PipelineFinalizes, Finished, vars
<1>5. QED
  BY <1>2, <1>3, <1>4 DEF Next

-----------------------------------------------------------------------------
(* The theorems. *)

(* The inductive invariant: which handler, message or blob has which permit,
   next to what EntryInvariant says of the entries. *)
BudgetInvariant ==
  /\ EntryInvariant
  /\ BlobsAreInOnePlace
  /\ BudgetIsKept
  /\ JobsAreCounted
  /\ ChunksAreOwed
  /\ DownloadsAreValid
  /\ Switches

(* Before the first request all permits are free. *)
LEMMA InitBudget == Init => BudgetInvariant
<1> SUFFICES ASSUME Init
             PROVE  BudgetInvariant
  OBVIOUS
<1> USE DEF Init
<1>1. \A r \in Posts : post[r].phase = "new"
  OBVIOUS
<1>2. Range(<<>>) = {} /\ DOMAIN <<>> = {}
  BY DEF Range
<1>3. BlobsAreInOnePlace
  BY <1>2 DEF BlobsAreInOnePlace, Once
<1>4. Holders = {} /\ Hashes = {}
  BY <1>1, <1>2 DEF Holders, HoldsAllowance, Sent, Hashes
<1>5. Cardinality(Permits(post, Holders)) = 0
  BY <1>4, FS_EmptySet DEF Permits
<1>6. Cardinality(Hashes) = 0
  BY <1>4, FS_EmptySet
<1>7. BudgetIsKept
  <2>1. admission_budget = TOTAL_CHUNK_BUDGET - Cardinality(Permits(post, Holders))
    BY <1>5, LimitAssumption
  <2>2. QED
    BY <2>1, LimitAssumption
    DEF BudgetIsKept, BudgetIsConserved, Holders, Allowances, Permits
<1>8. JobsAreCounted
  BY <1>6, LimitAssumption DEF JobsAreCounted
<1>9. ChunksAreOwed /\ DownloadsAreValid /\ Switches
  <2>1. \A r \in Posts : ~IsUnderway(r)
    BY <1>1 DEF IsUnderway
  <2>2. \A g \in Gets : get[g].phase # "sending"
    OBVIOUS
  <2>3. ChunksAreOwed
    BY <2>1 DEF ChunksAreOwed
  <2>4. DownloadsAreValid
    BY <2>2 DEF DownloadsAreValid
  <2>5. QED
    BY <2>3, <2>4 DEF Switches
<1>10. QED
  BY <1>3, <1>7, <1>8, <1>9, InitEntries DEF BudgetInvariant

(* Every step keeps every part, each by its own lemma. *)
LEMMA NextKeepsBudgetInvariant == BudgetInvariant /\ [Next]_vars => BudgetInvariant'
<1> SUFFICES ASSUME BudgetInvariant, [Next]_vars
             PROVE  BudgetInvariant'
  OBVIOUS
<1>1. Shapes
  BY DEF BudgetInvariant, EntryInvariant
<1>2. EntryInvariant' /\ BlobsAreInOnePlace' /\ BudgetIsKept'
  BY NextKeepsEntries, NextKeepsOnePlace, NextKeepsBudget DEF BudgetInvariant
<1>3. JobsAreCounted' /\ ChunksAreOwed' /\ DownloadsAreValid' /\ Switches'
  BY <1>1, NextKeepsJobs, NextKeepsChunks, NextKeepsDownloads, NextKeepsSwitches
  DEF BudgetInvariant
<1>4. QED
  BY <1>2, <1>3 DEF BudgetInvariant

(* What the semaphores, the handlers and the pipeline always agree on. *)
THEOREM BudgetIsInvariant == Spec => []BudgetInvariant
BY InitBudget, NextKeepsBudgetInvariant, PTL DEF Spec

(* Permits of the admission budget are neither lost nor made, whichever way a
   handler of new_blob is left and whenever the pipeline ends. *)
THEOREM NoPermitIsLost == Spec => []BudgetIsConserved
<1>1. BudgetInvariant => BudgetIsConserved
  BY DEF BudgetInvariant, BudgetIsKept
<1>2. QED
  BY <1>1, BudgetIsInvariant, PTL

(* The types: the budget is never overdrawn nor overfilled, and hash_chunk
   never has more jobs than hashing permits. *)
THEOREM BridgeTypeCorrectness == Spec => []TypeOK
<1>1. BudgetInvariant => TypeOK
  <2> SUFFICES ASSUME BudgetInvariant
               PROVE  TypeOK
    OBVIOUS
  <2>1. Shapes
    BY DEF BudgetInvariant, EntryInvariant
  <2>2. admission_budget \in 0..TOTAL_CHUNK_BUDGET
    <3>1. Cardinality(Permits(post, Holders)) \in Nat
      BY HoldersAreBegun, PermitsFinite DEF BudgetInvariant
    <3>2. /\ admission_budget \in Nat
          /\ admission_budget = TOTAL_CHUNK_BUDGET - Cardinality(Permits(post, Holders))
      BY DEF BudgetInvariant, BudgetIsKept, BudgetIsConserved, Holders, Allowances, Permits
    <3>3. QED
      BY <3>1, <3>2, LimitAssumption
  <2>3. post \in [Posts -> PostState]
    <3>1. ASSUME NEW r \in Posts PROVE post[r] \in PostState
      <4>1. post[r] \in PostShape
        BY <2>1 DEF Shapes
      <4>2. CASE IsUnderway(r)
        <5>1. post[r].unread \in Nat
          BY <4>2 DEF BudgetInvariant, ChunksAreOwed
        <5>2. QED
          BY <4>1, <4>2, <5>1, UnderwayFields DEF PostState, IsUnderway
      <4>3. CASE ~IsUnderway(r)
        BY <4>1, <4>3 DEF PostShape, UnderwayShape, DoneShape, PostState, IsUnderway
      <4>4. QED
        BY <4>2, <4>3
    <3>2. QED
      BY <2>1, <3>1 DEF Shapes
  <2>4. QED
    BY <2>1, <2>2, <2>3 DEF Shapes, TypeOK, BudgetInvariant, JobsAreCounted,
       DownloadsAreValid, Switches
<1>2. QED
  BY <1>1, BudgetIsInvariant, PTL
=============================================================================
