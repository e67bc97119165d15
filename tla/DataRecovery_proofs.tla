------------------------ MODULE DataRecovery_proofs -------------------------
(***************************************************************************)
(* Proofs about module DataRecovery, for every number of messages, every   *)
(* batch size and any number of crashes and refused deletions.             *)
(***************************************************************************)
EXTENDS DataRecovery, SequenceTheorems, FiniteSetTheorems, TLAPS

-----------------------------------------------------------------------------
(* The helpers of the community modules the specification uses.            *)

\* What SelectRows relies on: the batch is no longer than the limit or table.
LEMMA MinOfTwo ==
  ASSUME NEW a \in Nat, NEW b \in Nat
  PROVE  /\ Min({a, b}) \in Nat
         /\ Min({a, b}) <= a
         /\ Min({a, b}) <= b
<1>1. PICK x \in {a, b} : \A y \in {a, b} : x <= y
  OBVIOUS
<1>2. /\ Min({a, b}) \in {a, b}
      /\ \A y \in {a, b} : Min({a, b}) <= y
  BY <1>1 DEF Min
<1>. QED  BY <1>2

\* What a DELETE does to the table: later rows move up, their order is kept.
LEMMA RemoveAtProperties ==
  ASSUME NEW S, NEW s \in Seq(S), NEW k \in 1..Len(s)
  PROVE  /\ RemoveAt(s, k) \in Seq(S)
         /\ Len(RemoveAt(s, k)) = Len(s) - 1
         /\ \A j \in 1..Len(s) - 1 :
              RemoveAt(s, k)[j] = IF j < k THEN s[j] ELSE s[j + 1]
<1>. DEFINE front == SubSeq(s, 1, k - 1)
            back  == SubSeq(s, k + 1, Len(s))
<1>0. Len(s) \in Nat /\ k \in Int
  BY LenProperties
<1>1. /\ front \in Seq(S)
      /\ Len(front) = k - 1
      /\ \A j \in 1..k - 1 : front[j] = s[j]
  <2>1. \A j \in 1..k - 1 : s[j] \in S
    BY <1>0, ElementOfSeq
  <2>. QED  BY <2>1, <1>0, SubSeqProperties, Z3
<1>2. /\ back \in Seq(S)
      /\ Len(back) = Len(s) - k
      /\ \A j \in 1..Len(s) - k : back[j] = s[j + k]
  <2>1. \A j \in k + 1..Len(s) : s[j] \in S
    BY <1>0, ElementOfSeq
  <2>2. /\ SubSeq(s, k + 1, Len(s)) \in Seq(S)
        /\ Len(SubSeq(s, k + 1, Len(s))) = IF k + 1 <= Len(s) THEN Len(s) - (k + 1) + 1 ELSE 0
        /\ \A j \in 1..Len(s) - (k + 1) + 1 : SubSeq(s, k + 1, Len(s))[j] = s[(k + 1) + j - 1]
    BY <2>1, <1>0, SubSeqProperties, Z3
  <2>. QED  BY <2>2, <1>0
<1>3. /\ front \o back \in Seq(S)
      /\ Len(front \o back) = Len(front) + Len(back)
      /\ \A j \in 1..Len(front) + Len(back) :
           (front \o back)[j] = IF j <= Len(front) THEN front[j] ELSE back[j - Len(front)]
  BY <1>1, <1>2, ConcatProperties
<1>4. \A j \in 1..Len(s) - 1 :
        (front \o back)[j] = IF j < k THEN s[j] ELSE s[j + 1]
  <2>. SUFFICES ASSUME NEW j \in 1..Len(s) - 1
                PROVE  (front \o back)[j] = IF j < k THEN s[j] ELSE s[j + 1]
    OBVIOUS
  <2>. HIDE DEF front, back
  <2>1. CASE j < k
    BY <2>1, <1>0, <1>1, <1>2, <1>3
  <2>2. CASE j >= k
    <3>1. (front \o back)[j] = back[j - (k - 1)]
      BY <2>2, <1>0, <1>1, <1>2, <1>3
    <3>2. j - (k - 1) \in 1..Len(s) - k
      BY <2>2, <1>0
    <3>3. back[j - (k - 1)] = s[j - (k - 1) + k]
      BY <3>2, <1>2
    <3>4. j - (k - 1) + k = j + 1
      BY <1>0
    <3>. QED  BY <2>2, <3>1, <3>3, <3>4, <1>0
  <2>3. j < k \/ j >= k
    BY <1>0
  <2>. QED  BY <2>1, <2>2, <2>3, Zenon
<1>5. Len(front \o back) = Len(s) - 1
  <2>. HIDE DEF front, back
  <2>. QED  BY <1>0, <1>1, <1>2, <1>3
<1>. QED  BY <1>3, <1>4, <1>5 DEF RemoveAt

\* The batch sqlite3_get_table returns is the head of the table.
LEMMA BatchProperties ==
  ASSUME NEW S, NEW s \in Seq(S), NEW n \in Nat
  PROVE  LET b == SubSeq(s, 1, Min({n, Len(s)}))
         IN  /\ b \in Seq(S)
             /\ Len(b) <= n
             /\ Len(b) <= Len(s)
             /\ \A j \in 1..Len(b) : b[j] = s[j]
<1>. DEFINE m == Min({n, Len(s)})
<1>1. /\ Len(s) \in Nat
      /\ \A j \in 1..Len(s) : s[j] \in S
  BY LenProperties, ElementOfSeq
<1>2. m \in Nat /\ m <= n /\ m <= Len(s)
  BY <1>1, MinOfTwo
<1>. HIDE DEF m
<1>3. \A j \in 1..m : s[j] \in S
  BY <1>1, <1>2
<1>4. /\ SubSeq(s, 1, m) \in Seq(S)
      /\ Len(SubSeq(s, 1, m)) = IF 1 <= m THEN m - 1 + 1 ELSE 0
      /\ \A j \in 1..m - 1 + 1 : SubSeq(s, 1, m)[j] = s[1 + j - 1]
  BY <1>3, <1>2, SubSeqProperties, Z3
<1>5. Len(SubSeq(s, 1, m)) = m
  BY <1>2, <1>4
<1>6. \A j \in 1..m : SubSeq(s, 1, m)[j] = s[j]
  BY <1>2, <1>4
<1>7. /\ SubSeq(s, 1, m) \in Seq(S)
      /\ Len(SubSeq(s, 1, m)) <= n
      /\ Len(SubSeq(s, 1, m)) <= Len(s)
      /\ \A j \in 1..Len(SubSeq(s, 1, m)) : SubSeq(s, 1, m)[j] = s[j]
  BY <1>2, <1>4, <1>5, <1>6
<1>. QED  BY <1>7 DEF m

-----------------------------------------------------------------------------
(* Types.                                                                  *)

\* Messages only get newer, so what was a sequence of messages stays one.
LEMMA MessagesStay ==
  ASSUME NEW a \in Nat, NEW b \in Nat, a <= b, NEW s \in Seq(1..a)
  PROVE  s \in Seq(1..b)
<1>1. 1..a \subseteq 1..b
  OBVIOUS
<1>. QED  BY <1>1, SeqMonotonic

\* The program starts in a state the type invariant describes.
LEMMA InitTypeOK == Init => TypeOK
<1>. SUFFICES ASSUME Init
              PROVE  TypeOK
  OBVIOUS
<1>1. << >> \in Seq(1..sent) /\ Len(<< >>) = 0
  BY EmptySeq
<1>2. Data \in Seq(1..sent) /\ forwarded \in Seq(1..sent)
  BY <1>1 DEF Init
<1>3. result \in Seq(1..sent) /\ Len(result) <= RecoverLimit
  BY <1>1, RecoverLimitAssumption DEF Init
<1>4. IsConnected \in BOOLEAN
  BY DEF Init
<1>5. /\ app = "idle" /\ sent \in Nat /\ rcov = "poll"
      /\ i \in Nat \ {0} /\ visited \in 0..RecoverLimit /\ kept \in 0..visited
      /\ published \subseteq 1..sent
      /\ duplicates \in Nat /\ stale \in Nat /\ refusals \in Nat
      /\ deleteFailures \in Nat /\ crashes \in Nat
  BY RecoverLimitAssumption DEF Init
<1>. QED  BY <1>2, <1>3, <1>4, <1>5 DEF TypeOK

\* Every step of the threads, and a crash, keeps the types.
LEMMA NextTypeOK == TypeOK /\ [Next]_vars => TypeOK'
<1>. SUFFICES ASSUME TypeOK, [Next]_vars
              PROVE  TypeOK'
  OBVIOUS
<1>. USE RecoverLimitAssumption
<1>. USE DEF TypeOK, rows
<1>0. /\ Len(Data) \in Nat /\ Len(result) \in Nat
      /\ DOMAIN Data = 1..Len(Data) /\ DOMAIN result = 1..Len(result)
  BY LenProperties
<1>1. CASE Network
  <2>1. stale' \in Nat
    BY <1>1 DEF Network, connect_callback, disconnect_callback, history
  <2>2. IsConnected' \in BOOLEAN
    BY <1>1 DEF Network, connect_callback, disconnect_callback
  <2>3. UNCHANGED <<app, sent, Data, rcov, result, i, kept, visited, published,
                    forwarded, duplicates, refusals, deleteFailures, crashes>>
    BY <1>1 DEF Network, connect_callback, disconnect_callback,
                appVars, rcovVars, history
  <2>. QED  BY <2>1, <2>2, <2>3
<1>2. CASE SendData
  <2>1. sent' = sent + 1 /\ sent' \in Nat /\ sent <= sent'
    BY <1>2 DEF SendData
  <2>2. /\ Data \in Seq(1..sent') /\ result \in Seq(1..sent')
        /\ forwarded \in Seq(1..sent')
    BY <2>1, MessagesStay
  <2>3. published \subseteq 1..sent'
    BY <2>1
  <2>. QED  BY <1>2, <2>1, <2>2, <2>3 DEF SendData, rcovVars, history
<1>3. CASE PublishData
  <2>1. sent \in 1..sent
    BY <1>3 DEF PublishData
  <2>2. published' \subseteq 1..sent
    BY <1>3, <2>1 DEF PublishData, Publish
  <2>3. duplicates' \in Nat /\ stale' \in Nat /\ refusals' \in Nat
    BY <1>3 DEF PublishData, Publish
  <2>4. /\ app' = "idle"
        /\ UNCHANGED <<IsConnected, sent, Data, rcov, result, i, kept, visited,
                       forwarded, deleteFailures, crashes>>
    BY <1>3 DEF PublishData, rcovVars
  <2>. QED  BY <2>2, <2>3, <2>4
<1>4. CASE InsertData
  <2>1. sent \in 1..sent
    BY <1>4 DEF InsertData
  <2>2. Append(Data, sent) \in Seq(1..sent)
    BY <2>1, AppendProperties
  <2>. QED  BY <1>4, <2>2 DEF InsertData, rcovVars, history
<1>5. CASE PollConnected
  BY <1>5 DEF PollConnected, appVars, history
<1>6. CASE SelectRows
  <2>. DEFINE batch == SubSeq(Data, 1, Min({RecoverLimit, Len(Data)}))
  <2>1. batch \in Seq(1..sent) /\ Len(batch) <= RecoverLimit
    BY BatchProperties
  <2>2. << >> \in Seq(1..sent) /\ Len(<< >>) <= RecoverLimit
    BY EmptySeq
  <2>3. result' = << >> \/ result' = batch
    BY <1>6 DEF SelectRows, Batch
  <2>. HIDE DEF batch
  <2>4. result' \in Seq(1..sent) /\ Len(result') <= RecoverLimit
    BY <2>1, <2>2, <2>3
  <2>. QED  BY <1>6, <2>4 DEF SelectRows, Batch, appVars, history
<1>7. CASE PublishRow
  <2>1. result[i] \in 1..sent
    BY <1>7, <1>0, ElementOfSeq DEF PublishRow
  <2>2. Append(forwarded, result[i]) \in Seq(1..sent)
    BY <2>1, AppendProperties
  <2>3. published' \subseteq 1..sent
    BY <1>7, <2>1 DEF PublishRow, Publish
  <2>4. duplicates' \in Nat /\ stale' \in Nat /\ refusals' \in Nat
    BY <1>7 DEF PublishRow, Publish
  <2>5. rcov' = "delete" /\ kept' = 0 /\ visited' = 0
    BY <1>7 DEF PublishRow
  <2>6. forwarded' \in Seq(1..sent)
    BY <1>7, <2>2 DEF PublishRow
  <2>7. UNCHANGED <<IsConnected, app, sent, Data, result, i, deleteFailures, crashes>>
    BY <1>7 DEF PublishRow, appVars
  <2>. QED  BY <1>7, <2>3, <2>4, <2>5, <2>6, <2>7 DEF PublishRow
<1>8. CASE EndBatch
  BY <1>8 DEF EndBatch, appVars, history
<1>9. CASE DeleteRow
  <2>1. kept + 1 \in 1..Len(Data)
    BY <1>9, <1>0 DEF DeleteRow, RowToVisit
  <2>2. RemoveAt(Data, kept + 1) \in Seq(1..sent)
    BY <2>1, RemoveAtProperties
  <2>. QED  BY <1>9, <2>2 DEF DeleteRow, RowToVisit, appVars, history
<1>10. CASE DeleteRowFails
  BY <1>10 DEF DeleteRowFails, RowToVisit, appVars
<1>11. CASE EndDelete
  BY <1>11 DEF EndDelete, appVars, history
<1>12. CASE DeleteQueryFails
  BY <1>12 DEF DeleteQueryFails, appVars
<1>13. CASE Crash
  <2>1. << >> \in Seq(1..sent) /\ Len(<< >>) = 0
    BY EmptySeq
  <2>2. /\ result' \in Seq(1..sent) /\ Len(result') <= RecoverLimit
        /\ forwarded' \in Seq(1..sent)
    BY <1>13, <2>1 DEF Crash
  <2>3. IsConnected' \in BOOLEAN
    BY <1>13 DEF Crash
  <2>4. /\ app' = "idle" /\ rcov' = "poll"
        /\ i' \in Nat \ {0} /\ visited' \in 0..RecoverLimit /\ kept' \in 0..visited'
        /\ crashes' \in Nat /\ stale' \in Nat
        /\ UNCHANGED <<sent, Data, published, duplicates, refusals, deleteFailures>>
    BY <1>13 DEF Crash
  <2>. QED  BY <2>2, <2>3, <2>4
<1>14. CASE UNCHANGED vars
  BY <1>14 DEF vars, appVars, rcovVars, history
<1>. QED
  BY <1>1, <1>2, <1>3, <1>4, <1>5, <1>6, <1>7, <1>8, <1>9, <1>10, <1>11,
     <1>12, <1>13, <1>14 DEF Next, Application, Recovery

\* Type correctness: in particular the index of the recovery loop stays inside
\* the batch while a delete query runs, and the batch within rcov_limit.
THEOREM TypeCorrect == Spec => []TypeOK
<1>. QED  BY InitTypeOK, NextTypeOK, PTL DEF Spec

-----------------------------------------------------------------------------
(* The inductive invariant.  Its parts are proved one after the other: one *)
(* lemma for each part, which covers every action.                         *)

\* Reading a sequence of messages: its domain and the values in it.
LEMMA Messages ==
  ASSUME NEW n \in Nat, NEW s \in Seq(1..n)
  PROVE  /\ Len(s) \in Nat
         /\ DOMAIN s = 1..Len(s)
         /\ \A j \in 1..Len(s) : s[j] \in Nat /\ 1 <= s[j] /\ s[j] <= n
<1>1. Len(s) \in Nat /\ DOMAIN s = 1..Len(s)
  BY LenProperties
<1>2. \A j \in 1..Len(s) : s[j] \in 1..n
  BY ElementOfSeq
<1>. QED  BY <1>1, <1>2

\* What one deletion does: the rows behind the deleted one move up by one.
LEMMA DeleteRowEffect ==
  ASSUME TypeOK, DeleteRow
  PROVE  /\ kept \in Nat /\ kept + 1 \in 1..Len(Data)
         /\ Len(Data) \in Nat /\ DOMAIN Data = 1..Len(Data)
         /\ Len(Data') = Len(Data) - 1
         /\ DOMAIN Data' = 1..Len(Data) - 1
         /\ \A j \in 1..Len(Data) - 1 :
              Data'[j] = IF j < kept + 1 THEN Data[j] ELSE Data[j + 1]
<1>1. /\ sent \in Nat /\ Data \in Seq(1..sent) /\ kept \in Nat
      /\ Len(Data) \in Nat /\ DOMAIN Data = 1..Len(Data)
  BY RecoverLimitAssumption, Messages DEF TypeOK
<1>2. kept + 1 \in 1..Len(Data) /\ Data' = RemoveAt(Data, kept + 1)
  BY <1>1 DEF DeleteRow, RowToVisit
<1>3. /\ RemoveAt(Data, kept + 1) \in Seq(1..sent)
      /\ Len(RemoveAt(Data, kept + 1)) = Len(Data) - 1
      /\ \A j \in 1..Len(Data) - 1 : RemoveAt(Data, kept + 1)[j] =
            IF j < kept + 1 THEN Data[j] ELSE Data[j + 1]
  BY <1>1, <1>2, RemoveAtProperties, Zenon
<1>4. DOMAIN Data' = 1..Len(Data')
  BY <1>1, <1>2, <1>3, Messages, Zenon
<1>. QED  BY <1>1, <1>2, <1>3, <1>4, Zenon

\* What an insertion does: the new row, if any, is the newest message.
LEMMA InsertDataEffect ==
  ASSUME TypeOK, InsertData
  PROVE  /\ app = "insert"
         /\ Len(Data) \in Nat /\ DOMAIN Data = 1..Len(Data)
         /\ Len(Data') \in Nat /\ DOMAIN Data' = 1..Len(Data')
         /\ Len(Data) <= Len(Data') /\ Len(Data') <= Len(Data) + 1
         /\ \A k \in 1..Len(Data) : Data'[k] = Data[k]
         /\ \A k \in 1..Len(Data') : k > Len(Data) => Data'[k] = sent
<1>1. /\ sent \in 1..sent /\ Data \in Seq(1..sent) /\ app = "insert"
      /\ Len(Data) \in Nat /\ DOMAIN Data = 1..Len(Data)
  BY Messages DEF TypeOK, InsertData
<1>2. CASE Data' = Data
  BY <1>1, <1>2
<1>3. CASE Data' = Append(Data, sent)
  <2>1. /\ Data' \in Seq(1..sent)
        /\ Len(Data') = Len(Data) + 1
        /\ \A k \in 1..Len(Data) : Data'[k] = Data[k]
        /\ Data'[Len(Data) + 1] = sent
    BY <1>1, <1>3, AppendProperties
  <2>2. DOMAIN Data' = 1..Len(Data')
    BY <2>1, LenProperties
  <2>. QED  BY <1>1, <2>1, <2>2
<1>. QED  BY <1>2, <1>3 DEF InsertData

\* What the query does: the batch, if it succeeds, is the head of the table.
LEMMA SelectRowsEffect ==
  ASSUME TypeOK, SelectRows
  PROVE  /\ Len(result') \in Nat /\ DOMAIN result' = 1..Len(result')
         /\ Len(result') <= Len(Data)
         /\ Len(Data) \in Nat /\ DOMAIN Data = 1..Len(Data)
         /\ \A j \in 1..Len(result') : result'[j] = Data[j]
<1>. DEFINE batch == SubSeq(Data, 1, Min({RecoverLimit, Len(Data)}))
<1>1. /\ sent \in Nat /\ Data \in Seq(1..sent)
      /\ Len(Data) \in Nat /\ DOMAIN Data = 1..Len(Data)
  BY Messages DEF TypeOK
<1>2. result' = << >> \/ result' = batch
  BY DEF SelectRows, Batch
<1>3. /\ batch \in Seq(1..sent) /\ Len(batch) <= Len(Data)
      /\ \A j \in 1..Len(batch) : batch[j] = Data[j]
  BY <1>1, RecoverLimitAssumption, BatchProperties
<1>. HIDE DEF batch
<1>4. CASE result' = << >>
  <2>1. Len(result') = 0 /\ DOMAIN result' = {}
    BY <1>4
  <2>. QED  BY <1>1, <2>1
<1>5. CASE result' = batch
  BY <1>1, <1>3, <1>5, Messages
<1>. QED  BY <1>2, <1>4, <1>5

\* What a publication does: the row of the batch ends the forwarded sequence.
LEMMA PublishRowEffect ==
  ASSUME TypeOK, PublishRow
  PROVE  /\ Len(result) \in Nat /\ DOMAIN result = 1..Len(result)
         /\ i \in 1..Len(result) /\ i < Len(result)
         /\ Len(forwarded) \in Nat /\ DOMAIN forwarded = 1..Len(forwarded)
         /\ DOMAIN forwarded' = 1..Len(forwarded) + 1
         /\ forwarded' # << >>
         /\ \A k \in 1..Len(forwarded) : forwarded'[k] = forwarded[k]
         /\ forwarded'[Len(forwarded) + 1] = result[i]
<1>1. /\ sent \in Nat /\ result \in Seq(1..sent) /\ forwarded \in Seq(1..sent)
      /\ i \in Nat \ {0} /\ i < Len(result)
  BY DEF TypeOK, PublishRow, rows
<1>2. /\ Len(result) \in Nat /\ DOMAIN result = 1..Len(result)
      /\ Len(forwarded) \in Nat /\ DOMAIN forwarded = 1..Len(forwarded)
  BY <1>1, Messages
<1>3. i \in 1..Len(result)
  BY <1>1, <1>2
<1>4. result[i] \in 1..sent /\ forwarded' = Append(forwarded, result[i])
  BY <1>1, <1>3, ElementOfSeq DEF PublishRow
<1>5. /\ forwarded' \in Seq(1..sent) /\ forwarded' # << >>
      /\ Len(forwarded') = Len(forwarded) + 1
      /\ \A k \in 1..Len(forwarded) : forwarded'[k] = forwarded[k]
      /\ forwarded'[Len(forwarded) + 1] = result[i]
  BY <1>1, <1>4, AppendProperties
<1>6. DOMAIN forwarded' = 1..Len(forwarded) + 1
  BY <1>5, LenProperties
<1>. QED  BY <1>1, <1>2, <1>3, <1>5, <1>6

\* The table and the batch stay in the order of their ids, whichever thread
\* moves: an insertion goes behind, a query copies the head, a deletion removes
\* one row.
LEMMA NextInOrder == TypeOK /\ InOrder /\ [Next]_vars => InOrder'
<1>. SUFFICES ASSUME TypeOK, InOrder, [Next]_vars
              PROVE  InOrder'
  OBVIOUS
<1>0. /\ sent \in Nat
      /\ (app # "idle") => sent >= 1
      /\ Data \in Seq(1..sent) /\ result \in Seq(1..sent)
      /\ forwarded \in Seq(1..sent)
      /\ published \subseteq 1..sent
  BY DEF TypeOK
<1>a. /\ Len(Data) \in Nat /\ DOMAIN Data = 1..Len(Data)
      /\ \A k \in 1..Len(Data) : Data[k] \in Nat /\ Data[k] <= sent
  BY <1>0, Messages
<1>b. /\ Len(result) \in Nat /\ DOMAIN result = 1..Len(result)
      /\ \A k \in 1..Len(result) : result[k] \in Nat /\ result[k] <= sent
  BY <1>0, Messages
<1>c. /\ Len(forwarded) \in Nat /\ DOMAIN forwarded = 1..Len(forwarded)
      /\ \A k \in 1..Len(forwarded) : forwarded[k] \in Nat /\ forwarded[k] <= sent
  BY <1>0, Messages
<1>. USE DEF InOrder, Increasing
<1>1. CASE Network
  BY <1>1 DEF Network, connect_callback, disconnect_callback,
              appVars, rcovVars, history
<1>2. CASE SendData
  <2>1. sent' = sent + 1 /\ UNCHANGED <<Data, result, published, forwarded>>
    BY <1>2 DEF SendData, rcovVars, history
  <2>2. sent' \notin published
    BY <2>1, <1>0
  <2>. QED  BY <2>1, <2>2, <1>0, <1>a, <1>b, <1>c
<1>3. CASE PublishData
  BY <1>3 DEF PublishData, rcovVars
<1>4. CASE InsertData
  <2>1. app' = "idle" /\ app # "idle" /\ UNCHANGED result
    BY <1>4 DEF InsertData, rcovVars
  <2>2. /\ DOMAIN Data' = 1..Len(Data') /\ Len(Data') \in Nat
        /\ \A k \in 1..Len(Data) : Data'[k] = Data[k]
        /\ \A k \in 1..Len(Data') : k > Len(Data) => Data'[k] = sent
        /\ Len(Data') <= Len(Data) + 1
    BY <1>4, InsertDataEffect
  <2>3. \A k \in 1..Len(Data) : Data[k] < sent
    BY <2>1, <1>a
  <2>4. \A j, k \in 1..Len(Data') : j < k => Data'[j] < Data'[k]
    <3>. SUFFICES ASSUME NEW j \in 1..Len(Data'), NEW k \in 1..Len(Data'), j < k
                  PROVE  Data'[j] < Data'[k]
      OBVIOUS
    <3>1. j \in 1..Len(Data)
      BY <2>2, <1>a
    <3>2. CASE k \in 1..Len(Data)
      BY <3>1, <3>2, <2>2, <1>a
    <3>3. CASE k > Len(Data)
      BY <3>1, <3>3, <2>2, <2>3
    <3>. QED  BY <3>2, <3>3, <2>2, <1>a
  <2>. QED  BY <2>1, <2>2, <2>4
<1>5. CASE PollConnected
  BY <1>5 DEF PollConnected, appVars, history
<1>6. CASE SelectRows
  <2>1. UNCHANGED <<app, sent, Data, published, forwarded>>
    BY <1>6 DEF SelectRows, Batch, appVars, history
  <2>2. /\ DOMAIN result' = 1..Len(result') /\ Len(result') \in Nat
        /\ Len(result') <= Len(Data)
        /\ \A j \in 1..Len(result') : result'[j] = Data[j]
    BY <1>6, SelectRowsEffect
  <2>3. \A j \in 1..Len(result') : j \in 1..Len(Data)
    BY <2>2, <1>a
  <2>. QED  BY <2>1, <2>2, <2>3, <1>a
<1>7. CASE PublishRow
  <2>1. /\ UNCHANGED <<app, sent, Data, result>>
        /\ published' \subseteq published \union {result[i]}
    BY <1>7 DEF PublishRow, Publish, appVars
  <2>2. i \in DOMAIN result
    BY <1>7, <1>b DEF PublishRow, TypeOK, rows
  <2>3. (app # "idle") => result[i] < sent
    BY <2>2
  <2>4. (app # "idle") => sent \notin published'
    BY <2>1, <2>2, <2>3, <1>0, <1>b
  <2>5. (app # "idle") => \A k \in DOMAIN forwarded' : forwarded'[k] < sent
    <3>1. /\ DOMAIN forwarded' = 1..Len(forwarded) + 1
          /\ \A k \in 1..Len(forwarded) : forwarded'[k] = forwarded[k]
          /\ forwarded'[Len(forwarded) + 1] = result[i]
      BY <1>7, PublishRowEffect
    <3>. QED  BY <3>1, <2>3, <1>c
  <2>. QED  BY <2>1, <2>4, <2>5
<1>8. CASE EndBatch
  BY <1>8 DEF EndBatch, appVars, history
<1>9. CASE DeleteRow
  <2>1. UNCHANGED <<app, sent, result, published, forwarded>>
    BY <1>9 DEF DeleteRow, appVars, history
  <2>2. /\ kept \in Nat
        /\ DOMAIN Data' = 1..Len(Data) - 1
        /\ \A j \in 1..Len(Data) - 1 :
             Data'[j] = IF j < kept + 1 THEN Data[j] ELSE Data[j + 1]
    BY <1>9, DeleteRowEffect
  <2>3. \A j \in 1..Len(Data) - 1 : \E k \in 1..Len(Data) :
           Data'[j] = Data[k] /\ k = IF j < kept + 1 THEN j ELSE j + 1
    BY <2>2, <1>a
  <2>4. \A j, k \in 1..Len(Data) - 1 : j < k => Data'[j] < Data'[k]
    <3>. SUFFICES ASSUME NEW j \in 1..Len(Data) - 1, NEW k \in 1..Len(Data) - 1, j < k
                  PROVE  Data'[j] < Data'[k]
      OBVIOUS
    <3>1. PICK a \in 1..Len(Data) :
             Data'[j] = Data[a] /\ a = IF j < kept + 1 THEN j ELSE j + 1
      BY <2>3
    <3>2. PICK b \in 1..Len(Data) :
             Data'[k] = Data[b] /\ b = IF k < kept + 1 THEN k ELSE k + 1
      BY <2>3
    <3>3. a < b
      BY <3>1, <3>2, <1>a, <2>2
    <3>. QED  BY <3>1, <3>2, <3>3, <1>a
  <2>5. (app # "idle") => \A j \in 1..Len(Data) - 1 : Data'[j] < sent
    BY <2>3, <1>a
  <2>. QED  BY <2>1, <2>2, <2>4, <2>5
<1>10. CASE DeleteRowFails
  BY <1>10 DEF DeleteRowFails, appVars
<1>11. CASE EndDelete
  BY <1>11 DEF EndDelete, appVars, history
<1>12. CASE DeleteQueryFails
  BY <1>12 DEF DeleteQueryFails, appVars
<1>13. CASE Crash
  <2>1. app' = "idle" /\ UNCHANGED Data /\ DOMAIN result' = {}
    BY <1>13 DEF Crash
  <2>. QED  BY <2>1
<1>14. CASE UNCHANGED vars
  BY <1>14 DEF vars, appVars, rcovVars, history
<1>. QED
  BY <1>1, <1>2, <1>3, <1>4, <1>5, <1>6, <1>7, <1>8, <1>9, <1>10, <1>11,
     <1>12, <1>13, <1>14 DEF Next, Application, Recovery

\* While SQLite deletes what it is asked to, what is left of the table and of
\* the batch is newer than what this run has forwarded.
LEMMA NextTableAndBatch ==
  ASSUME TypeOK, InOrder, TableAndBatch, Increasing(forwarded),
         [Next]_vars, deleteFailures = 0, deleteFailures' = 0
  PROVE  TableAndBatch' /\ Increasing(forwarded)'
<1>0. /\ sent \in Nat
      /\ rcov \in {"poll", "select", "row", "delete"}
      /\ i \in Nat \ {0}
      /\ (rcov = "delete") => i < Len(result)
      /\ Len(result) <= RecoverLimit
      /\ visited \in Nat
      /\ RecoverLimit \in Nat \ {0}
  BY RecoverLimitAssumption DEF TypeOK, rows
<1>a. /\ Len(Data) \in Nat /\ DOMAIN Data = 1..Len(Data)
      /\ \A k \in 1..Len(Data) : Data[k] \in Nat
  BY Messages DEF TypeOK
<1>b. /\ Len(result) \in Nat /\ DOMAIN result = 1..Len(result)
      /\ \A k \in 1..Len(result) : result[k] \in Nat
  BY Messages DEF TypeOK
<1>c. /\ Len(forwarded) \in Nat /\ DOMAIN forwarded = 1..Len(forwarded)
      /\ \A k \in 1..Len(forwarded) : forwarded[k] \in Nat
  BY Messages DEF TypeOK
<1>d. /\ \A j, k \in 1..Len(Data) : j < k => Data[j] < Data[k]
      /\ \A j, k \in 1..Len(result) : j < k => result[j] < result[k]
      /\ (app # "idle") => /\ \A k \in 1..Len(forwarded) : forwarded[k] < sent
                           /\ \A j \in 1..Len(result) : result[j] < sent
  BY <1>a, <1>b, <1>c DEF InOrder, Increasing
<1>1. CASE UNCHANGED <<Data, rcovVars, forwarded>>
  BY <1>1 DEF rcovVars, TableAndBatch, NotPassed, Upcoming, Increasing, rows
<1>2. CASE InsertData
  <2>1. /\ UNCHANGED <<rcov, result, i, kept, visited, forwarded>>
        /\ ~ (rcov = "delete" /\ visited > 0)
    BY <1>2 DEF InsertData, rcovVars, history, MutexFree
  <2>2. /\ app = "insert"
        /\ Len(Data') \in Nat /\ DOMAIN Data' = 1..Len(Data')
        /\ Len(Data) <= Len(Data')
        /\ \A k \in 1..Len(Data) : Data'[k] = Data[k]
        /\ \A k \in 1..Len(Data') : k > Len(Data) => Data'[k] = sent
    BY <1>2, InsertDataEffect
  <2>3. \A k \in 1..Len(Data') :
          (k \in 1..Len(Data) /\ Data'[k] = Data[k]) \/ (k > Len(Data) /\ Data'[k] = sent)
    BY <2>2, <1>a
  <2>4. rcov \in {"poll", "select", "row"} =>
          \A k \in DOMAIN Data' : \A l \in DOMAIN forwarded : forwarded[l] < Data'[k]
    BY <2>2, <2>3, <1>a, <1>c, <1>d DEF TableAndBatch, NotPassed
  <2>5. rcov = "row" /\ i = 1 =>
          /\ rows <= Len(Data')
          /\ \A j \in DOMAIN result : Data'[j] = result[j]
    BY <2>2, <1>a, <1>b DEF TableAndBatch, rows
  <2>6. rcov = "delete" /\ i = 1 =>
          /\ rows <= Len(Data') + visited
          /\ \A k \in DOMAIN Data' : k + visited \in DOMAIN result => Data'[k] = result[k + visited]
          /\ \A k \in DOMAIN Data' : k + visited > rows => Data'[k] > result[rows]
    <3>. SUFFICES ASSUME rcov = "delete", i = 1
                  PROVE  /\ rows <= Len(Data') + visited
                         /\ \A k \in DOMAIN Data' : k + visited \in DOMAIN result => Data'[k] = result[k + visited]
                         /\ \A k \in DOMAIN Data' : k + visited > rows => Data'[k] > result[rows]
      OBVIOUS
    <3>1. /\ visited = 0
          /\ rows <= Len(Data)
          /\ \A k \in 1..Len(Data) : k \in 1..Len(result) => Data[k] = result[k]
          /\ \A k \in 1..Len(Data) : k > rows => Data[k] > result[rows]
      <4>1. visited = 0
        BY <2>1, <1>0
      <4>2. \A k \in 1..Len(Data) : k + visited = k
        BY <4>1, <1>a
      <4>3. /\ rows <= Len(Data) + visited
            /\ \A k \in 1..Len(Data) : k + visited \in 1..Len(result) => Data[k] = result[k + visited]
            /\ \A k \in 1..Len(Data) : k + visited > rows => Data[k] > result[rows]
        BY <2>1, <1>a, <1>b DEF TableAndBatch
      <4>4. rows <= Len(Data)
        BY <4>1, <4>3, <1>a
      <4>. QED  BY <4>1, <4>2, <4>3, <4>4
    <3>2. result[rows] < sent /\ rows = Len(result)
      BY <2>2, <1>0, <1>b, <1>d DEF rows
    <3>. QED  BY <3>1, <3>2, <2>2, <2>3, <1>a, <1>b
  <2>7. rcov \in {"row", "delete"} /\ i > 1 =>
          \A k \in DOMAIN Data', j \in DOMAIN result : Data'[k] > result[j]
    BY <2>2, <2>3, <1>a, <1>b, <1>d DEF TableAndBatch
  <2>. QED
    BY <2>1, <2>4, <2>5, <2>6, <2>7, Zenon
    DEF TableAndBatch, NotPassed, Upcoming, Increasing, rows
<1>3. CASE PollConnected
  BY <1>3 DEF PollConnected, history, TableAndBatch, NotPassed, Increasing
<1>4. CASE SelectRows
  <2>1. rcov = "select" /\ rcov' = "row" /\ i' = 1 /\ UNCHANGED <<Data, forwarded>>
    BY <1>4 DEF SelectRows, Batch, history
  <2>2. /\ Len(result') \in Nat /\ DOMAIN result' = 1..Len(result')
        /\ Len(result') <= Len(Data)
        /\ \A j \in 1..Len(result') : result'[j] = Data[j]
    BY <1>4, SelectRowsEffect
  <2>3. \A k \in 1..Len(Data) : \A l \in DOMAIN forwarded : forwarded[l] < Data[k]
    BY <2>1, <1>a DEF TableAndBatch, NotPassed
  <2>4. \A j \in 1..Len(result') : j \in 1..Len(Data)
    BY <2>2, <1>a
  <2>. QED
    BY <2>1, <2>2, <2>3, <2>4, <1>a
    DEF TableAndBatch, NotPassed, Upcoming, Increasing, rows
<1>5. CASE PublishRow
  <2>1. /\ rcov = "row" /\ rcov' = "delete" /\ kept' = 0 /\ visited' = 0
        /\ UNCHANGED <<Data, result, i>>
    BY <1>5 DEF PublishRow
  <2>2. /\ i \in 1..Len(result) /\ i < Len(result)
        /\ DOMAIN forwarded' = 1..Len(forwarded) + 1
        /\ forwarded' # << >>
        /\ \A k \in 1..Len(forwarded) : forwarded'[k] = forwarded[k]
        /\ forwarded'[Len(forwarded) + 1] = result[i]
    BY <1>5, PublishRowEffect
  <2>3. \A k \in 1..Len(forwarded) : forwarded[k] < result[i]
    <3>1. i \in Upcoming
      BY <2>1, <2>2, <1>b DEF Upcoming
    <3>. QED  BY <3>1, <2>1, <1>c DEF TableAndBatch, NotPassed
  <2>4. /\ \A k \in DOMAIN forwarded' : forwarded'[k] <= result[i]
        /\ \A j, k \in DOMAIN forwarded' : j < k => forwarded'[j] < forwarded'[k]
    <3>1. \A k \in 1..Len(forwarded) + 1 :
             \/ k \in 1..Len(forwarded) /\ forwarded'[k] = forwarded[k]
             \/ k = Len(forwarded) + 1 /\ forwarded'[k] = result[i]
      BY <2>2, <1>c
    <3>2. result[i] \in Nat
      BY <2>2, <1>b
    <3>3. \A j, k \in 1..Len(forwarded) : j < k => forwarded[j] < forwarded[k]
      BY <1>c DEF Increasing
    <3>. QED  BY <3>1, <3>2, <3>3, <2>2, <2>3, <1>c
  <2>5. i = 1 =>
          /\ Len(result) <= Len(Data)
          /\ \A k \in 1..Len(Data) : k + 0 \in 1..Len(result) => Data[k] = result[k + 0]
          /\ \A k \in 1..Len(Data) : k + 0 > Len(result) => Data[k] > result[Len(result)]
    <3>. SUFFICES ASSUME i = 1
                  PROVE  /\ Len(result) <= Len(Data)
                         /\ \A k \in 1..Len(Data) : k + 0 \in 1..Len(result) => Data[k] = result[k + 0]
                         /\ \A k \in 1..Len(Data) : k + 0 > Len(result) => Data[k] > result[Len(result)]
      OBVIOUS
    <3>1. /\ Len(result) <= Len(Data)
          /\ \A k \in 1..Len(result) : Data[k] = result[k]
      BY <2>1, <1>b DEF TableAndBatch, rows
    <3>2. \A k \in 1..Len(Data) : k + 0 = k
      BY <1>a
    <3>3. /\ Len(result) \in 1..Len(result) /\ Len(result) \in 1..Len(Data)
          /\ Data[Len(result)] = result[Len(result)]
      BY <3>1, <2>2, <1>a, <1>b
    <3>. QED  BY <3>1, <3>2, <3>3, <1>a, <1>b, <1>d
  <2>6. i > 1 => \A k \in 1..Len(Data), j \in 1..Len(result) : Data[k] > result[j]
    BY <2>1, <1>a, <1>b DEF TableAndBatch
  <2>. QED
    BY <2>1, <2>2, <2>4, <2>5, <2>6, <1>a, <1>b
    DEF TableAndBatch, Increasing, rows
<1>6. CASE EndBatch
  BY <1>6 DEF EndBatch, history, TableAndBatch, NotPassed, Increasing
<1>7. CASE DeleteRow
  <2>1. /\ rcov = "delete" /\ UNCHANGED <<rcov, result, i, kept, forwarded>>
        /\ visited' = visited + 1
    BY <1>7 DEF DeleteRow, history
  <2>2. kept = 0
    BY <2>1 DEF TableAndBatch
  <2>3. /\ DOMAIN Data' = 1..Len(Data) - 1 /\ Len(Data') = Len(Data) - 1
        /\ \A j \in 1..Len(Data) - 1 : j + 1 \in 1..Len(Data) /\ Data'[j] = Data[j + 1]
    <3>1. /\ DOMAIN Data' = 1..Len(Data) - 1 /\ Len(Data') = Len(Data) - 1
          /\ \A j \in 1..Len(Data) - 1 :
               Data'[j] = IF j < kept + 1 THEN Data[j] ELSE Data[j + 1]
      BY <1>7, DeleteRowEffect
    <3>. QED  BY <3>1, <2>2, <1>a
  <2>4. i = 1 =>
          /\ Len(result) <= Len(Data') + visited'
          /\ \A k \in 1..Len(Data) - 1 : k + visited' \in 1..Len(result) => Data'[k] = result[k + visited']
          /\ \A k \in 1..Len(Data) - 1 : k + visited' > Len(result) => Data'[k] > result[Len(result)]
    <3>. SUFFICES ASSUME i = 1
                  PROVE  /\ Len(result) <= Len(Data') + visited'
                         /\ \A k \in 1..Len(Data) - 1 : k + visited' \in 1..Len(result) => Data'[k] = result[k + visited']
                         /\ \A k \in 1..Len(Data) - 1 : k + visited' > Len(result) => Data'[k] > result[Len(result)]
      OBVIOUS
    <3>1. /\ Len(result) <= Len(Data) + visited
          /\ \A k \in 1..Len(Data) : k + visited \in 1..Len(result) => Data[k] = result[k + visited]
          /\ \A k \in 1..Len(Data) : k + visited > Len(result) => Data[k] > result[Len(result)]
      BY <2>1, <1>a, <1>b DEF TableAndBatch, rows
    <3>2. \A k \in 1..Len(Data) - 1 : k + visited' = (k + 1) + visited
      BY <2>1, <1>0, <1>a
    <3>3. Len(result) <= Len(Data') + visited'
      BY <3>1, <2>1, <2>3, <1>0, <1>a, <1>b
    <3>. SUFFICES ASSUME NEW k \in 1..Len(Data) - 1
                  PROVE  /\ k + visited' \in 1..Len(result) => Data'[k] = result[k + visited']
                         /\ k + visited' > Len(result) => Data'[k] > result[Len(result)]
      BY <3>3
    <3>4. k + 1 \in 1..Len(Data) /\ Data'[k] = Data[k + 1] /\ k + visited' = (k + 1) + visited
      BY <3>2, <2>3
    <3>. QED  BY <3>1, <3>4
  <2>5. i > 1 => \A k \in 1..Len(Data) - 1, j \in 1..Len(result) : Data'[k] > result[j]
    BY <2>1, <2>3, <1>a, <1>b DEF TableAndBatch
  <2>6. forwarded # << >> /\ \A k \in DOMAIN forwarded : forwarded[k] <= result[i]
    BY <2>1 DEF TableAndBatch
  <2>. QED
    BY <2>1, <2>2, <2>3, <2>4, <2>5, <2>6, <1>b
    DEF TableAndBatch, Increasing, rows
<1>8. CASE EndDelete
  <2>1. /\ rcov = "delete" /\ rcov' = "row" /\ i' = i + 1
        /\ UNCHANGED <<Data, result, forwarded>>
        /\ ~ (visited < RecoverLimit /\ kept < Len(Data))
    BY <1>8 DEF EndDelete, RowToVisit, history
  <2>2. i \in 1..Len(result) /\ i' > 1
    BY <2>1, <1>0, <1>b
  <2>3. \A k \in 1..Len(Data), j \in 1..Len(result) : Data[k] > result[j]
    <3>1. CASE i > 1
      BY <3>1, <2>1, <1>a, <1>b DEF TableAndBatch
    <3>2. CASE i = 1
      <4>. SUFFICES ASSUME NEW k \in 1..Len(Data), NEW j \in 1..Len(result)
                    PROVE  Data[k] > result[j]
        OBVIOUS
      <4>1. kept = 0 /\ \A l \in 1..Len(Data) : l + visited > Len(result) => Data[l] > result[Len(result)]
        BY <3>2, <2>1, <1>a DEF TableAndBatch, rows
      <4>2. visited >= RecoverLimit
        BY <4>1, <2>1, <1>0, <1>a
      <4>3. k + visited > Len(result)
        BY <4>2, <1>0, <1>a, <1>b
      <4>4. Data[k] > result[Len(result)]
        BY <4>1, <4>3
      <4>5. Len(result) \in 1..Len(result) /\ result[j] <= result[Len(result)]
        BY <1>b, <1>d
      <4>. QED  BY <4>4, <4>5, <1>a, <1>b
    <3>. QED  BY <3>1, <3>2, <2>2, <1>b
  <2>4. \A l \in 1..Len(forwarded) : forwarded[l] <= result[i]
    BY <2>1, <1>c DEF TableAndBatch
  <2>5. \A k \in 1..Len(Data) : \A l \in 1..Len(forwarded) : forwarded[l] < Data[k]
    BY <2>2, <2>3, <2>4, <1>a, <1>b, <1>c
  <2>6. \A j \in 1..Len(result) : j >= i + 1 =>
           \A l \in 1..Len(forwarded) : forwarded[l] < result[j]
    BY <2>2, <2>4, <1>b, <1>c, <1>d
  <2>. QED
    BY <2>1, <2>2, <2>3, <2>5, <2>6, <1>a, <1>b, <1>c
    DEF TableAndBatch, NotPassed, Upcoming, Increasing
<1>9. CASE DeleteRowFails \/ DeleteQueryFails
  BY <1>9 DEF DeleteRowFails, DeleteQueryFails
<1>10. CASE Crash
  <2>1. rcov' = "poll" /\ DOMAIN forwarded' = {}
    BY <1>10 DEF Crash
  <2>. QED  BY <2>1 DEF TableAndBatch, NotPassed, Increasing
<1>. QED
  <2>1. Network => UNCHANGED <<Data, rcovVars, forwarded>>
    BY DEF Network, connect_callback, disconnect_callback, history
  <2>2. SendData \/ PublishData => UNCHANGED <<Data, rcovVars, forwarded>>
    BY DEF SendData, PublishData, history
  <2>3. UNCHANGED vars => UNCHANGED <<Data, rcovVars, forwarded>>
    BY DEF vars, history
  <2>. QED
    BY <2>1, <2>2, <2>3, <1>1, <1>2, <1>3, <1>4, <1>5, <1>6, <1>7, <1>8, <1>9,
       <1>10 DEF Next, Application, Recovery

\* A row of the batch stays within reach of the delete query that follows its
\* publication: rows in front of it only leave, new ones only come behind it.
LEMMA NextRowWithinReach ==
  ASSUME TypeOK, InOrder, RowWithinReach, [Next]_vars
  PROVE  RowWithinReach'
<1>0. /\ RecoverLimit \in Nat \ {0}
      /\ rcov \in {"poll", "select", "row", "delete"}
      /\ i \in Nat \ {0}
      /\ (rcov = "delete") => i < Len(result)
      /\ Len(result) <= RecoverLimit
      /\ visited \in 0..RecoverLimit /\ kept \in 0..visited
  BY RecoverLimitAssumption DEF TypeOK, rows
<1>a. /\ Len(Data) \in Nat /\ DOMAIN Data = 1..Len(Data)
      /\ \A k \in 1..Len(Data) : Data[k] \in Nat
  BY Messages DEF TypeOK
<1>b. /\ Len(result) \in Nat /\ DOMAIN result = 1..Len(result)
      /\ \A k \in 1..Len(result) : result[k] \in Nat
  BY Messages DEF TypeOK
<1>c. /\ \A k \in 1..Len(Data), j \in 1..Len(result) : Data[k] = result[j] => k <= j
      /\ rcov = "delete" =>
           \A k \in 1..Len(Data) :
             k > kept /\ Data[k] = result[i] => k - kept <= RecoverLimit - visited
  BY <1>a, <1>b DEF RowWithinReach
<1>1. CASE UNCHANGED <<Data, rcovVars>>
  BY <1>1 DEF rcovVars, RowWithinReach
<1>2. CASE InsertData
  <2>1. UNCHANGED <<rcov, result, i, kept, visited>>
    BY <1>2 DEF InsertData, rcovVars
  <2>2. /\ app = "insert"
        /\ Len(Data') \in Nat /\ DOMAIN Data' = 1..Len(Data')
        /\ \A k \in 1..Len(Data) : Data'[k] = Data[k]
        /\ \A k \in 1..Len(Data') : k > Len(Data) => Data'[k] = sent
    BY <1>2, InsertDataEffect
  <2>3. \A j \in 1..Len(result) : result[j] < sent
    BY <2>2, <1>b DEF InOrder
  <2>4. \A k \in 1..Len(Data'), j \in 1..Len(result) :
           Data'[k] = result[j] => k \in 1..Len(Data) /\ Data[k] = result[j]
    <3>. SUFFICES ASSUME NEW k \in 1..Len(Data'), NEW j \in 1..Len(result), Data'[k] = result[j]
                  PROVE  k \in 1..Len(Data) /\ Data[k] = result[j]
      OBVIOUS
    <3>1. sent \in Nat
      BY DEF TypeOK
    <3>2. k <= Len(Data)
      BY <3>1, <2>2, <2>3, <1>a, <1>b
    <3>. QED  BY <3>2, <2>2, <1>a
  <2>5. rcov = "delete" => i \in 1..Len(result)
    BY <1>0, <1>b
  <2>. QED  BY <2>1, <2>2, <2>4, <2>5, <1>a, <1>b, <1>c DEF RowWithinReach
<1>3. CASE PollConnected \/ EndBatch \/ EndDelete \/ DeleteQueryFails
  <2>1. rcov' # "delete" /\ UNCHANGED <<Data, result>>
    BY <1>3 DEF PollConnected, EndBatch, EndDelete, DeleteQueryFails
  <2>. QED  BY <2>1, <1>a, <1>b, <1>c DEF RowWithinReach
<1>4. CASE SelectRows
  <2>1. rcov' = "row" /\ UNCHANGED Data
    BY <1>4 DEF SelectRows
  <2>2. /\ Len(result') \in Nat /\ DOMAIN result' = 1..Len(result')
        /\ Len(result') <= Len(Data)
        /\ \A j \in 1..Len(result') : result'[j] = Data[j]
    BY <1>4, SelectRowsEffect
  <2>3. \A j, k \in 1..Len(Data) : j < k => Data[j] < Data[k]
    BY <1>a DEF InOrder, Increasing
  <2>4. \A k \in 1..Len(Data), j \in 1..Len(result') : Data[k] = result'[j] => k <= j
    BY <2>2, <2>3, <1>a
  <2>. QED  BY <2>1, <2>2, <2>4, <1>a DEF RowWithinReach
<1>5. CASE PublishRow
  <2>1. /\ rcov' = "delete" /\ kept' = 0 /\ visited' = 0
        /\ UNCHANGED <<Data, result, i>>
    BY <1>5 DEF PublishRow
  <2>2. i \in 1..Len(result)
    BY <1>5, PublishRowEffect
  <2>3. \A k \in 1..Len(Data) : Data[k] = result[i] => k - 0 <= RecoverLimit - 0
    BY <2>2, <1>0, <1>a, <1>b, <1>c
  <2>. QED  BY <2>1, <2>3, <1>a, <1>b, <1>c DEF RowWithinReach
<1>6. CASE DeleteRow
  <2>1. /\ rcov = "delete" /\ visited' = visited + 1
        /\ UNCHANGED <<rcov, result, i, kept>>
    BY <1>6 DEF DeleteRow
  <2>2. /\ DOMAIN Data' = 1..Len(Data) - 1
        /\ \A j \in 1..Len(Data) - 1 :
             Data'[j] = IF j < kept + 1 THEN Data[j] ELSE Data[j + 1]
    BY <1>6, DeleteRowEffect
  <2>3. \A k \in 1..Len(Data) - 1, j \in 1..Len(result) : Data'[k] = result[j] => k <= j
    BY <2>2, <1>0, <1>a, <1>b, <1>c
  <2>4. \A k \in 1..Len(Data) - 1 :
           k > kept /\ Data'[k] = result[i] => k - kept <= RecoverLimit - visited'
    <3>. SUFFICES ASSUME NEW k \in 1..Len(Data) - 1, k > kept, Data'[k] = result[i]
                  PROVE  k - kept <= RecoverLimit - visited'
      OBVIOUS
    <3>1. k + 1 \in 1..Len(Data) /\ k + 1 > kept /\ Data[k + 1] = result[i]
      BY <2>2, <1>0, <1>a
    <3>2. \A a \in 1..Len(Data) :
             a > kept /\ Data[a] = result[i] => a - kept <= RecoverLimit - visited
      BY <2>1, <1>c
    <3>3. (k + 1) - kept <= RecoverLimit - visited
      BY <3>1, <3>2
    <3>. QED  BY <3>3, <2>1, <1>0
  <2>. QED  BY <2>1, <2>2, <2>3, <2>4, <1>b DEF RowWithinReach
<1>7. CASE DeleteRowFails
  <2>1. /\ rcov = "delete" /\ visited' = visited + 1 /\ kept' = kept + 1
        /\ UNCHANGED <<Data, rcov, result, i>>
    BY <1>7 DEF DeleteRowFails
  <2>2. \A k \in 1..Len(Data) :
           k > kept' /\ Data[k] = result[i] => k - kept' <= RecoverLimit - visited'
    BY <2>1, <1>0, <1>a, <1>c
  <2>. QED  BY <2>1, <2>2, <1>a, <1>b, <1>c DEF RowWithinReach
<1>8. CASE Crash
  <2>1. DOMAIN result' = {} /\ rcov' = "poll"
    BY <1>8 DEF Crash
  <2>. QED  BY <2>1 DEF RowWithinReach
<1>. QED
  <2>. DEFINE same == UNCHANGED <<Data, rcovVars>>
  <2>1. Network => same
    BY DEF Network, connect_callback, disconnect_callback
  <2>2. SendData \/ PublishData => same
    BY DEF SendData, PublishData
  <2>3. UNCHANGED vars => same
    BY DEF vars
  <2>. QED
    BY <2>1, <2>2, <2>3, <1>1, <1>2, <1>3, <1>4, <1>5, <1>6, <1>7, <1>8
    DEF Next, Application, Recovery

\* How many members a set loses or gains with one element.
LEMMA Counting ==
  ASSUME NEW S, IsFiniteSet(S), NEW T, NEW x
  PROVE  /\ Cardinality(S) \in Nat
         /\ T \subseteq S => Cardinality(T) \in Nat /\ Cardinality(T) <= Cardinality(S)
         /\ T \subseteq S \ {x} /\ x \in S =>
              Cardinality(T) \in Nat /\ Cardinality(T) + 1 <= Cardinality(S)
         /\ T \subseteq S \union {x} =>
              Cardinality(T) \in Nat /\ Cardinality(T) <= Cardinality(S) + 1
<1>1. Cardinality(S) \in Nat
  BY FS_CardinalityType
<1>2. /\ IsFiniteSet(S \ {x})
      /\ x \in S => Cardinality(S \ {x}) = Cardinality(S) - 1
  BY FS_RemoveElement
<1>3. /\ IsFiniteSet(S \union {x})
      /\ \/ Cardinality(S \union {x}) = Cardinality(S)
         \/ Cardinality(S \union {x}) = Cardinality(S) + 1
  BY FS_AddElement
<1>4. ASSUME NEW U, IsFiniteSet(U), T \subseteq U
      PROVE  Cardinality(T) \in Nat /\ Cardinality(T) <= Cardinality(U)
  <2>1. IsFiniteSet(T) /\ Cardinality(T) <= Cardinality(U)
    BY <1>4, FS_Subset
  <2>. QED  BY <2>1, FS_CardinalityType
<1>5. T \subseteq S => Cardinality(T) \in Nat /\ Cardinality(T) <= Cardinality(S)
  BY <1>4
<1>6. T \subseteq S \ {x} /\ x \in S =>
        Cardinality(T) \in Nat /\ Cardinality(T) + 1 <= Cardinality(S)
  BY <1>1, <1>2, <1>4
<1>7. T \subseteq S \union {x} =>
        Cardinality(T) \in Nat /\ Cardinality(T) <= Cardinality(S) + 1
  BY <1>1, <1>3, <1>4
<1>. QED  BY <1>1, <1>5, <1>6, <1>7

\* A step repeats a message only by using up one that could be repeated, and only
\* a crash or a refused deletion leaves one more message to repeat.
LEMMA NextRepetitionsCharged ==
  ASSUME TypeOK, InOrder, RowWithinReach, RepetitionsCharged, [Next]_vars
  PROVE  RepetitionsCharged'
<1>. DEFINE charges == crashes + deleteFailures
            InTable == {Data[k] : k \in DOMAIN Data}
            Fewer == /\ MayRepeat' \subseteq MayRepeat
                     /\ duplicates' = duplicates /\ charges' = charges
            Repeated(m) == /\ m \in MayRepeat /\ MayRepeat' \subseteq MayRepeat \ {m}
                           /\ duplicates' = duplicates + 1 /\ charges' = charges
            Charged(m) == /\ MayRepeat' \subseteq MayRepeat \union {m}
                          /\ duplicates' = duplicates /\ charges' = charges + 1
<1>0. /\ RecoverLimit \in Nat \ {0} /\ sent \in Nat
      /\ rcov \in {"poll", "select", "row", "delete"}
      /\ i \in Nat \ {0}
      /\ (rcov = "delete") => i < Len(result)
      /\ visited \in 0..RecoverLimit /\ kept \in 0..visited
      /\ published \subseteq 1..sent
      /\ duplicates \in Nat /\ crashes \in Nat /\ deleteFailures \in Nat
  BY RecoverLimitAssumption DEF TypeOK, rows
<1>a. Len(Data) \in Nat /\ DOMAIN Data = 1..Len(Data)
  BY Messages DEF TypeOK
<1>b. /\ Len(result) \in Nat /\ DOMAIN result = 1..Len(result)
      /\ \A k \in 1..Len(result) : result[k] \in Nat
  BY Messages DEF TypeOK
<1>c. BeingDeleted \subseteq {result[i]} /\ (rcov # "delete" => BeingDeleted = {})
  BY DEF BeingDeleted
<1>. SUFFICES Fewer \/ \E m : Repeated(m) \/ Charged(m)
  <2>1. IsFiniteSet(MayRepeat)
    <3>1. IsFiniteSet(1..sent)
      BY <1>0, FS_Interval
    <3>2. MayRepeat \subseteq 1..sent
      BY <1>0 DEF MayRepeat
    <3>. QED  BY <3>1, <3>2, FS_Subset
  <2>2. Cardinality(MayRepeat) \in Nat
    BY <2>1, Counting
  <2>3. charges \in Nat /\ duplicates + Cardinality(MayRepeat) <= charges
    BY <1>0 DEF RepetitionsCharged
  <2>4. ASSUME Fewer  PROVE  RepetitionsCharged'
    <3>1. Cardinality(MayRepeat') \in Nat /\ Cardinality(MayRepeat') <= Cardinality(MayRepeat)
      BY <2>1, <2>4, Counting
    <3>. QED  BY <3>1, <2>2, <2>3, <2>4, <1>0 DEF RepetitionsCharged
  <2>5. ASSUME NEW m, Repeated(m)  PROVE  RepetitionsCharged'
    <3>1. Cardinality(MayRepeat') \in Nat /\ Cardinality(MayRepeat') + 1 <= Cardinality(MayRepeat)
      BY <2>1, <2>5, Counting
    <3>. QED  BY <3>1, <2>2, <2>3, <2>5, <1>0 DEF RepetitionsCharged
  <2>6. ASSUME NEW m, Charged(m)  PROVE  RepetitionsCharged'
    <3>1. Cardinality(MayRepeat') \in Nat /\ Cardinality(MayRepeat') <= Cardinality(MayRepeat) + 1
      BY <2>1, <2>6, Counting
    <3>. QED  BY <3>1, <2>2, <2>3, <2>6, <1>0 DEF RepetitionsCharged
  <2>. HIDE DEF Fewer, Repeated, Charged
  <2>. QED  BY <2>4, <2>5, <2>6
<1>1. CASE UNCHANGED <<Data, rcovVars, published, duplicates, crashes, deleteFailures>>
  <2>1. MayRepeat' = MayRepeat
    BY <1>1 DEF rcovVars, MayRepeat, Upcoming, BeingDeleted
  <2>. QED  BY <2>1, <1>1
<1>2. CASE PublishData
  <2>1. /\ app # "idle" /\ Publish(sent)
        /\ UNCHANGED <<Data, rcov, result, i, kept, visited, crashes, deleteFailures>>
    BY <1>2 DEF PublishData, rcovVars
  <2>2. published' \subseteq published \union {sent} /\ duplicates' = duplicates
    BY <2>1 DEF Publish, InOrder
  <2>3. \A k \in DOMAIN Data : Data[k] # sent
    BY <2>1, <1>0, <1>a, Messages DEF InOrder, TypeOK
  <2>4. \A j \in DOMAIN result : result[j] # sent
    BY <2>1, <1>0, <1>b DEF InOrder
  <2>5. Upcoming' = Upcoming /\ Upcoming \subseteq DOMAIN result /\ BeingDeleted' = BeingDeleted
    BY <2>1 DEF Upcoming, BeingDeleted
  <2>6. MayRepeat' \subseteq MayRepeat
    BY <2>1, <2>2, <2>3, <2>4, <2>5, Zenon DEF MayRepeat
  <2>. QED  BY <2>1, <2>2, <2>6
<1>3. CASE InsertData
  <2>1. UNCHANGED <<rcov, result, i, kept, visited, published, duplicates, crashes, deleteFailures>>
    BY <1>3 DEF InsertData, rcovVars, history
  <2>2. /\ app = "insert"
        /\ Len(Data') \in Nat /\ DOMAIN Data' = 1..Len(Data') /\ Len(Data) <= Len(Data')
        /\ \A k \in 1..Len(Data) : Data'[k] = Data[k]
        /\ \A k \in 1..Len(Data') : k > Len(Data) => Data'[k] = sent
    BY <1>3, InsertDataEffect
  <2>3. sent \notin published /\ \A j \in 1..Len(result) : result[j] < sent
    BY <2>2, <1>b DEF InOrder
  <2>4. \A k \in DOMAIN Data' : Data'[k] = sent \/ (k \in DOMAIN Data /\ Data'[k] = Data[k])
    BY <2>2, <1>a
  <2>5. Upcoming' = Upcoming
    BY <2>1 DEF Upcoming
  <2>6. BeingDeleted \subseteq BeingDeleted'
    <3>1. rcov = "delete" => result[i] # sent
      BY <2>3, <1>0, <1>b
    <3>. QED  BY <2>1, <2>4, <3>1 DEF BeingDeleted
  <2>7. MayRepeat' \subseteq MayRepeat
    BY <2>1, <2>3, <2>4, <2>5, <2>6, Zenon DEF MayRepeat
  <2>. QED  BY <2>1, <2>7
<1>4. CASE PollConnected \/ EndBatch
  <2>1. /\ rcov # "delete" /\ rcov' # "delete"
        /\ rcov' = "row" => rcov = "row"
        /\ UNCHANGED <<Data, result, i, published, duplicates, crashes, deleteFailures>>
    BY <1>4 DEF PollConnected, EndBatch, history
  <2>2. Upcoming' \subseteq Upcoming
    BY <2>1, <1>0, <1>b DEF PollConnected, EndBatch, Upcoming
  <2>3. BeingDeleted' = {} /\ BeingDeleted = {}
    BY <2>1 DEF BeingDeleted
  <2>4. MayRepeat' \subseteq MayRepeat
    BY <2>1, <2>2, <2>3, Zenon DEF MayRepeat
  <2>. QED  BY <2>1, <2>4
<1>5. CASE SelectRows
  <2>1. /\ rcov = "select" /\ rcov' = "row"
        /\ UNCHANGED <<Data, published, duplicates, crashes, deleteFailures>>
    BY <1>5 DEF SelectRows, history
  <2>2. \A j \in DOMAIN result' : j \in DOMAIN Data /\ result'[j] = Data[j]
    BY <1>5, SelectRowsEffect
  <2>3. Upcoming' \subseteq DOMAIN result'
    BY DEF Upcoming
  <2>4. BeingDeleted' = {} /\ BeingDeleted = {}
    BY <2>1 DEF BeingDeleted
  <2>5. MayRepeat' \subseteq MayRepeat
    BY <2>1, <2>2, <2>3, <2>4, Zenon DEF MayRepeat
  <2>. QED  BY <2>1, <2>5
<1>6. CASE PublishRow
  <2>1. /\ rcov = "row" /\ rcov' = "delete" /\ kept' = 0 /\ Publish(result[i])
        /\ UNCHANGED <<Data, result, i, crashes, deleteFailures>>
    BY <1>6 DEF PublishRow
  <2>2. i \in 1..Len(result)
    BY <1>6, PublishRowEffect
  <2>3. i \in Upcoming /\ Upcoming' \subseteq Upcoming
    BY <2>1, <2>2, <1>0, <1>b DEF Upcoming
  <2>4. BeingDeleted = {} /\ BeingDeleted' = {result[i]}
    BY <2>1, <1>a DEF BeingDeleted
  <2>5. published' \subseteq published \union {result[i]}
    BY <2>1 DEF Publish
  <2>6. MayRepeat' \subseteq MayRepeat \ {result[i]}
    BY <2>1, <2>3, <2>4, <2>5, Zenon DEF MayRepeat
  <2>7. CASE duplicates' = duplicates
    BY <2>1, <2>6, <2>7
  <2>8. CASE result[i] \in published /\ duplicates' = duplicates + 1
    <3>1. result[i] \in MayRepeat
      BY <2>3, <2>4, <2>8, Zenon DEF MayRepeat
    <3>. QED  BY <3>1, <2>1, <2>6, <2>8
  <2>. QED  BY <2>1, <2>7, <2>8 DEF Publish
<1>7. CASE DeleteRow
  <2>1. /\ rcov = "delete"
        /\ UNCHANGED <<rcov, result, i, kept, published, duplicates, crashes, deleteFailures>>
    BY <1>7 DEF DeleteRow, history
  <2>2. /\ kept \in Nat /\ kept + 1 \in 1..Len(Data)
        /\ DOMAIN Data' = 1..Len(Data) - 1
        /\ \A j \in 1..Len(Data) - 1 :
             Data'[j] = IF j < kept + 1 THEN Data[j] ELSE Data[j + 1]
    BY <1>7, DeleteRowEffect
  <2>3. \A j \in DOMAIN Data' : \E k \in DOMAIN Data : Data'[j] = Data[k]
    BY <2>2, <1>a
  <2>4. Upcoming' = Upcoming
    BY <2>1 DEF Upcoming
  <2>5. BeingDeleted \subseteq BeingDeleted'
    <3>1. \A k \in DOMAIN Data' : k <= kept => k \in DOMAIN Data /\ Data'[k] = Data[k]
      BY <2>2, <1>a
    <3>. QED  BY <2>1, <3>1 DEF BeingDeleted
  <2>6. MayRepeat' \subseteq MayRepeat
    BY <2>1, <2>3, <2>4, <2>5, Zenon DEF MayRepeat
  <2>. QED  BY <2>1, <2>6
<1>8. CASE DeleteRowFails \/ DeleteQueryFails
  <2>1. /\ rcov = "delete" /\ deleteFailures' = deleteFailures + 1
        /\ UNCHANGED <<Data, result, published, duplicates, crashes>>
        /\ \/ rcov' = "delete" /\ i' = i
           \/ rcov' = "row" /\ i' = i + 1
    BY <1>8 DEF DeleteRowFails, DeleteQueryFails
  <2>2. Upcoming' = Upcoming
    BY <2>1, <1>0, <1>b DEF Upcoming
  <2>3. MayRepeat' \subseteq MayRepeat \union {result[i]}
    BY <2>1, <2>2, <1>c, Zenon DEF MayRepeat
  <2>4. charges' = charges + 1
    BY <2>1, <1>0
  <2>. QED  BY <2>1, <2>3, <2>4
<1>9. CASE EndDelete
  <2>1. /\ rcov = "delete" /\ rcov' = "row" /\ i' = i + 1
        /\ UNCHANGED <<Data, result, published, duplicates, crashes, deleteFailures>>
        /\ ~ (visited < RecoverLimit /\ kept < Len(Data))
    BY <1>9 DEF EndDelete, RowToVisit, history
  <2>2. Upcoming' = Upcoming
    BY <2>1, <1>0, <1>b DEF Upcoming
  <2>3. \A j \in Upcoming : result[j] # result[i]
    <3>1. i \in 1..Len(result) /\ \A j \in Upcoming : j > i /\ j \in 1..Len(result)
      BY <2>1, <1>0, <1>b DEF Upcoming
    <3>. QED  BY <3>1, <1>b DEF InOrder, Increasing
  <2>4. BeingDeleted # {} => \A k \in DOMAIN Data : Data[k] # result[i]
    <3>. SUFFICES ASSUME BeingDeleted # {}, NEW k \in DOMAIN Data, Data[k] = result[i]
                  PROVE  FALSE
      OBVIOUS
    <3>1. k > kept
      BY <1>0, <1>a DEF BeingDeleted
    <3>2. k - kept <= RecoverLimit - visited
      BY <3>1, <2>1 DEF RowWithinReach
    <3>. QED  BY <3>1, <3>2, <2>1, <1>0, <1>a
  <2>5. MayRepeat' \subseteq MayRepeat
    BY <2>1, <2>2, <2>3, <2>4, <1>c, Zenon DEF MayRepeat
  <2>. QED  BY <2>1, <2>5
<1>10. CASE Crash
  <2>1. /\ crashes' = crashes + 1 /\ DOMAIN result' = {}
        /\ UNCHANGED <<Data, published, duplicates, deleteFailures>>
    BY <1>10 DEF Crash
  <2>2. Upcoming' = {}
    BY <2>1 DEF Upcoming
  <2>3. MayRepeat' \subseteq MayRepeat \union {result[i]}
    BY <2>1, <2>2, <1>c, Zenon DEF MayRepeat
  <2>4. charges' = charges + 1
    BY <2>1, <1>0
  <2>. QED  BY <2>1, <2>3, <2>4
<1>. QED
  <2>. DEFINE same == UNCHANGED <<Data, rcovVars, published, duplicates, crashes, deleteFailures>>
  <2>. HIDE DEF Fewer, Repeated, Charged
  <2>1. Network => same
    BY DEF Network, connect_callback, disconnect_callback, history
  <2>2. SendData => same
    BY DEF SendData, history
  <2>3. UNCHANGED vars => same
    BY DEF vars, history
  <2>. QED
    BY <2>1, <2>2, <2>3, <1>1, <1>2, <1>3, <1>4, <1>5, <1>6, <1>7, <1>8, <1>9,
       <1>10 DEF Next, Application, Recovery

\* Every message that is handed over on the strength of a flag that has fallen
\* was pending when it fell: the sum of the two never grows while it is down.
LEMMA NextStaleInv == TypeOK /\ StaleInv /\ [Next]_vars => StaleInv'
<1>. SUFFICES ASSUME TypeOK, StaleInv, [Next]_vars
              PROVE  StaleInv'
  OBVIOUS
<1>0. /\ RecoverLimit \in Nat \ {0} /\ stale \in Nat
      /\ IsConnected \in BOOLEAN
      /\ app \in {"idle", "publish", "insert"}
      /\ rcov \in {"poll", "select", "row", "delete"}
      /\ i \in Nat \ {0} /\ Len(result) \in Nat /\ Len(result) <= RecoverLimit
      /\ (rcov = "delete") => i < Len(result)
  BY RecoverLimitAssumption, LenProperties DEF TypeOK, rows
<1>. USE <1>0 DEF StaleInv, AppPending, RcovPending, rows
<1>1. CASE Network
  <2>1. UNCHANGED <<app, rcov, result, i>>
    BY <1>1 DEF Network, connect_callback, disconnect_callback, appVars, rcovVars
  <2>2. \/ IsConnected' = TRUE /\ stale' = 0
        \/ IsConnected' = FALSE /\ stale' = stale
    BY <1>1 DEF Network, connect_callback, disconnect_callback, history
  <2>. QED  BY <2>1, <2>2
<1>2. CASE SendData
  BY <1>2 DEF SendData, rcovVars, history
<1>3. CASE PublishData
  BY <1>3 DEF PublishData, Publish, rcovVars
<1>4. CASE InsertData
  BY <1>4 DEF InsertData, rcovVars, history
<1>5. CASE PollConnected
  BY <1>5 DEF PollConnected, appVars, history
<1>6. CASE SelectRows
  <2>1. Len(result') \in Nat /\ Len(result') <= RecoverLimit
    BY <1>6, NextTypeOK, LenProperties DEF TypeOK
  <2>. QED  BY <1>6, <2>1 DEF SelectRows, appVars, history
<1>7. CASE PublishRow
  BY <1>7 DEF PublishRow, Publish, appVars
<1>8. CASE EndBatch
  BY <1>8 DEF EndBatch, appVars, history
<1>9. CASE DeleteRow \/ DeleteRowFails
  BY <1>9 DEF DeleteRow, DeleteRowFails, appVars, history
<1>10. CASE EndDelete \/ DeleteQueryFails
  BY <1>10 DEF EndDelete, DeleteQueryFails, appVars, history
<1>11. CASE Crash
  BY <1>11 DEF Crash
<1>12. CASE UNCHANGED vars
  BY <1>12 DEF vars, appVars, rcovVars, history
<1>. QED
  BY <1>1, <1>2, <1>3, <1>4, <1>5, <1>6, <1>7, <1>8, <1>9, <1>10, <1>11, <1>12
  DEF Next, Application, Recovery

-----------------------------------------------------------------------------
(* The theorems.                                                           *)

\* The strengthened invariant holds when the process starts.
LEMMA InitIInv == Init => IInv
<1>. SUFFICES ASSUME Init
              PROVE  IInv
  OBVIOUS
<1>1. TypeOK
  BY InitTypeOK
<1>2. /\ Data = << >> /\ DOMAIN Data = {} /\ DOMAIN result = {} /\ DOMAIN forwarded = {}
      /\ app = "idle" /\ rcov = "poll" /\ duplicates = 0 /\ crashes = 0
  BY DEF Init
<1>3. InOrder
  BY <1>2 DEF InOrder, Increasing
<1>4. TableAndBatch
  BY <1>2 DEF TableAndBatch
<1>5. RowWithinReach
  BY <1>2 DEF RowWithinReach
<1>8. RepetitionsCharged
  <2>1. published = {} /\ deleteFailures = 0
    BY DEF Init
  <2>2. MayRepeat = {}
    BY <2>1 DEF MayRepeat
  <2>. QED  BY <2>1, <2>2, <1>2, FS_EmptySet DEF RepetitionsCharged
<1>6. Increasing(forwarded)
  BY <1>2 DEF Increasing
<1>7. StaleInv
  BY <1>2, RecoverLimitAssumption DEF Init, StaleInv, AppPending, RcovPending
<1>. QED  BY <1>1, <1>3, <1>4, <1>5, <1>6, <1>7, <1>8 DEF IInv

\* SQLite's refusals are only ever counted up.
LEMMA FailuresCounted ==
  ASSUME TypeOK, [Next]_vars, deleteFailures' = 0
  PROVE  deleteFailures = 0
<1>1. deleteFailures \in Nat
  BY DEF TypeOK
<1>2. deleteFailures' = deleteFailures \/ deleteFailures' = deleteFailures + 1
  BY DEF Next, Network, Application, Recovery, connect_callback,
         disconnect_callback, SendData, PublishData, InsertData, PollConnected,
         SelectRows, PublishRow, EndBatch, DeleteRow, DeleteRowFails, EndDelete,
         DeleteQueryFails, Crash, vars, history
<1>. QED  BY <1>1, <1>2

\* Every step keeps the strengthened invariant.
LEMMA NextIInv == IInv /\ [Next]_vars => IInv'
<1>. SUFFICES ASSUME IInv, [Next]_vars
              PROVE  IInv'
  OBVIOUS
<1>1. TypeOK /\ InOrder /\ StaleInv /\ RowWithinReach /\ RepetitionsCharged
  BY DEF IInv
<1>2. TypeOK' /\ InOrder' /\ StaleInv' /\ RowWithinReach' /\ RepetitionsCharged'
  BY <1>1, NextTypeOK, NextInOrder, NextStaleInv, NextRowWithinReach,
     NextRepetitionsCharged
<1>3. ASSUME deleteFailures' = 0
      PROVE  TableAndBatch' /\ Increasing(forwarded)'
  <2>1. deleteFailures = 0
    BY <1>1, <1>3, FailuresCounted
  <2>2. TableAndBatch /\ Increasing(forwarded)
    BY <2>1 DEF IInv
  <2>. QED  BY <1>1, <1>3, <2>1, <2>2, NextTableAndBatch
<1>. QED  BY <1>2, <1>3 DEF IInv

\* The strengthened invariant holds in every reachable state.
THEOREM Invariance == Spec => []IInv
<1>. QED  BY InitIInv, NextIInv, PTL DEF Spec

\* One run of the process forwards cached messages in order and none twice, for
\* every batch size and whatever the application does meanwhile.
THEOREM InOrderForwarding == Spec => []ForwardedInOrder
<1>1. IInv => ForwardedInOrder
  BY DEF IInv, ForwardedInOrder
<1>. QED  BY <1>1, Invariance, PTL

\* However long the client stays away, at most RecoverLimit messages are handed to
\* it on the strength of a flag that was up when it was tested.
THEOREM FewStaleHandovers == Spec => []StaleHandovers
<1>1. IInv => StaleHandovers
  <2>. SUFFICES ASSUME IInv
                PROVE  StaleHandovers
    OBVIOUS
  <2>1. /\ RecoverLimit \in Nat \ {0} /\ stale \in Nat
        /\ rcov \in {"poll", "select", "row", "delete"}
        /\ i \in Nat \ {0} /\ Len(result) \in Nat
        /\ (rcov = "delete") => i < Len(result)
    BY RecoverLimitAssumption, LenProperties DEF IInv, TypeOK, rows
  <2>2. AppPending \in Nat /\ RcovPending \in Nat
    BY <2>1 DEF AppPending, RcovPending, rows
  <2>3. stale + AppPending + RcovPending <= RecoverLimit
    BY DEF IInv, StaleInv
  <2>. QED  BY <2>1, <2>2, <2>3 DEF StaleHandovers
<1>. QED  BY <1>1, Invariance, PTL

\* Every repeated message is the price of one crash or of one refused deletion, for
\* every batch size and any number of both, refused publications included.
THEOREM RepetitionsBounded == Spec => []DuplicatesBounded
<1>1. IInv => DuplicatesBounded
  <2>. SUFFICES ASSUME IInv
                PROVE  DuplicatesBounded
    OBVIOUS
  <2>1. /\ sent \in Nat /\ published \subseteq 1..sent
        /\ duplicates \in Nat /\ crashes \in Nat /\ deleteFailures \in Nat
    BY DEF IInv, TypeOK
  <2>2. IsFiniteSet(MayRepeat)
    <3>1. IsFiniteSet(1..sent)
      BY <2>1, FS_Interval
    <3>2. MayRepeat \subseteq 1..sent
      BY <2>1 DEF MayRepeat
    <3>. QED  BY <3>1, <3>2, FS_Subset
  <2>3. Cardinality(MayRepeat) \in Nat
    BY <2>2, FS_CardinalityType
  <2>4. duplicates + Cardinality(MayRepeat) <= crashes + deleteFailures
    BY DEF IInv, RepetitionsCharged
  <2>. QED  BY <2>1, <2>3, <2>4 DEF DuplicatesBounded
<1>. QED  BY <1>1, Invariance, PTL
=============================================================================
