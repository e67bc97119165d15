----------------------- MODULE DataRecovery_refinement ----------------------
(***************************************************************************)
(* Proof that DataRecovery implements Outbox, for every batch size, every  *)
(* number of messages and any number of crashes and refused deletions.     *)
(***************************************************************************)
EXTENDS DataRecovery_proofs

\* The batch in hand when the recovery thread is about to publish its row i, or
\* has just published row i - 1.
LEMMA RestOfBatch ==
  ASSUME TypeOK
  PROVE  /\ sent \in Nat /\ result \in Seq(1..sent) /\ Len(result) \in Nat
         /\ i \in Nat \ {0}
         /\ i > Len(result) => SubSeq(result, i, Len(result)) = << >>
         /\ i <= Len(result) =>
              /\ SubSeq(result, i, Len(result)) # << >>
              /\ Len(SubSeq(result, i, Len(result))) = Len(result) - i + 1
              /\ Head(SubSeq(result, i, Len(result))) = result[i]
              /\ Tail(SubSeq(result, i, Len(result))) = SubSeq(result, i + 1, Len(result))
<1>1. sent \in Nat /\ result \in Seq(1..sent) /\ Len(result) \in Nat /\ i \in Nat \ {0}
  BY LenProperties DEF TypeOK
<1>2. i > Len(result) => SubSeq(result, i, Len(result)) = << >>
  BY <1>1, SubSeqEmpty
<1>3. ASSUME i <= Len(result)
      PROVE  /\ SubSeq(result, i, Len(result)) # << >>
             /\ Len(SubSeq(result, i, Len(result))) = Len(result) - i + 1
             /\ Head(SubSeq(result, i, Len(result))) = result[i]
             /\ Tail(SubSeq(result, i, Len(result))) = SubSeq(result, i + 1, Len(result))
  <2>1. \A j \in i..Len(result) : result[j] \in 1..sent
    BY <1>1, ElementOfSeq
  <2>2. Len(SubSeq(result, i, Len(result))) = Len(result) - i + 1
    BY <2>1, <1>1, <1>3, SubSeqProperties, Z3
  <2>3. SubSeq(result, i, Len(result)) # << >>
    <3>1. Len(SubSeq(result, i, Len(result))) # 0
      BY <2>2, <1>1, <1>3
    <3>2. Len(<< >>) = 0
      BY EmptySeq
    <3>. QED  BY <3>1, <3>2, Zenon
  <2>4. /\ Head(SubSeq(result, i, Len(result))) = result[i]
        /\ Tail(SubSeq(result, i, Len(result))) = SubSeq(result, i + 1, Len(result))
    <3>1. i \in 1..Len(result) /\ Len(result) \in i..Len(result)
      BY <1>1, <1>3
    <3>. QED  BY <3>1, <1>1, HeadTailOfSubSeq
  <2>. QED  BY <2>2, <2>3, <2>4
<1>. QED  BY <1>1, <1>2, <1>3

\* The process starts with an empty outbox.
LEMMA InitOutbox == Init => O!Init
BY DEF Init, O!Init, InHand

\* Every step of the threads, and a crash, is a step of the outbox or none.
LEMMA NextOutbox == TypeOK /\ [Next]_vars => [O!Next]_(O!vars)
<1>. SUFFICES ASSUME TypeOK, [Next]_vars
              PROVE  O!Next \/ UNCHANGED O!vars
  OBVIOUS
<1>. DEFINE sending == IF app = "idle" THEN {} ELSE {sent}
            budget  == IF rcov = "delete" THEN RecoverLimit - visited ELSE 0
<1>0. /\ RecoverLimit \in Nat \ {0}
      /\ sent \in Nat /\ visited \in 0..RecoverLimit
      /\ app \in {"idle", "publish", "insert"}
      /\ rcov \in {"poll", "select", "row", "delete"}
      /\ (rcov = "delete") => i < Len(result)
  BY RecoverLimitAssumption DEF TypeOK, rows
<1>a. /\ result \in Seq(1..sent) /\ Len(result) \in Nat /\ i \in Nat \ {0}
      /\ i > Len(result) => SubSeq(result, i, Len(result)) = << >>
      /\ i <= Len(result) =>
           /\ SubSeq(result, i, Len(result)) # << >>
           /\ Len(SubSeq(result, i, Len(result))) = Len(result) - i + 1
           /\ Head(SubSeq(result, i, Len(result))) = result[i]
           /\ Tail(SubSeq(result, i, Len(result))) = SubSeq(result, i + 1, Len(result))
  BY RestOfBatch
<1>b. UNCHANGED <<rcov, result, i, visited>> => UNCHANGED <<InHand, budget>>
  BY DEF InHand, rows
<1>c. UNCHANGED <<app, sent>> => UNCHANGED sending
  OBVIOUS
<1>1. CASE Network \/ UNCHANGED vars
  <2>1. UNCHANGED <<app, sent, Data, rcov, result, i, visited, published>>
    BY <1>1 DEF Network, connect_callback, disconnect_callback,
                vars, appVars, rcovVars, history
  <2>. QED  BY <2>1, <1>b, <1>c, Zenon DEF O!vars
<1>2. CASE SendData
  <2>1. /\ app = "idle" /\ app' # "idle" /\ sent' = sent + 1
        /\ UNCHANGED <<Data, rcov, result, i, visited, published>>
    BY <1>2 DEF SendData, rcovVars, history
  <2>2. sending = {} /\ sending' = {sent + 1} /\ sent' = sent + 1
    BY <2>1
  <2>. QED  BY <2>1, <2>2, <1>b, Zenon DEF O!Next, O!Accept
<1>3. CASE PublishData
  <2>1. /\ app = "publish" /\ app' = "idle"
        /\ published' \in {published, published \union {sent}}
        /\ UNCHANGED <<sent, Data, rcov, result, i, visited>>
    BY <1>3 DEF PublishData, Publish, rcovVars
  <2>2. sending = {sent} /\ sending # {} /\ sending' = {}
    BY <2>1
  <2>. QED  BY <2>1, <2>2, <1>b, Zenon DEF O!Next, O!Send
<1>4. CASE InsertData
  <2>1. /\ app = "insert" /\ app' = "idle" /\ Data' \in {Data, Append(Data, sent)}
        /\ UNCHANGED <<sent, rcov, result, i, visited, published>>
    BY <1>4 DEF InsertData, rcovVars, history
  <2>2. sending = {sent} /\ sending # {} /\ sending' = {}
    BY <2>1
  <2>3. Data' \in {Data} \union {Append(Data, m) : m \in sending}
    BY <2>1, <2>2
  <2>. QED  BY <2>1, <2>2, <2>3, <1>b, Zenon DEF O!Next, O!Store
<1>5. CASE PollConnected
  <2>1. /\ rcov = "poll" /\ rcov' = "select"
        /\ UNCHANGED <<app, sent, Data, published>>
    BY <1>5 DEF PollConnected, appVars, history
  <2>2. InHand' = InHand /\ budget' = budget
    BY <2>1 DEF InHand
  <2>. QED  BY <2>1, <2>2, <1>c, Zenon DEF O!vars
<1>6. CASE SelectRows
  <2>. DEFINE n == Min({RecoverLimit, Len(Data)})
  <2>1. /\ rcov = "select" /\ rcov' = "row" /\ i' = 1
        /\ result' = << >> \/ result' = SubSeq(Data, 1, n)
        /\ UNCHANGED <<app, sent, Data, published>>
    BY <1>6 DEF SelectRows, Batch, appVars, history
  <2>2. result' \in Seq(1..sent)
    <3>1. TypeOK'
      BY NextTypeOK
    <3>. QED  BY <3>1, <2>1 DEF TypeOK
  <2>3. InHand = << >> /\ InHand' = SubSeq(result', 1, Len(result')) /\ budget = 0 /\ budget' = 0
    BY <2>1 DEF InHand, rows
  <2>4. InHand' = result'
    BY <2>2, <2>3, SubSeqFull
  <2>5. Len(Data) \in Nat
    BY LenProperties DEF TypeOK
  <2>6. n \in Nat /\ n <= RecoverLimit /\ n <= Len(Data)
    BY <1>0, <2>5, MinOfTwo
  <2>. HIDE DEF n
  <2>7. CASE result' = << >> \/ n = 0
    <3>1. n = 0 => SubSeq(Data, 1, n) = << >>
      BY <2>6, SubSeqEmpty
    <3>2. InHand' = << >>
      BY <3>1, <2>1, <2>4, <2>7, Zenon
    <3>. QED  BY <3>2, <2>1, <2>3, <1>c, Zenon DEF O!vars
  <2>8. CASE result' = SubSeq(Data, 1, n) /\ n # 0
    <3>1. n \in 1..RecoverLimit /\ n <= Len(Data)
      BY <2>6, <2>8, <1>0
    <3>2. InHand' = SubSeq(Data, 1, n)
      BY <2>4, <2>8, Zenon
    <3>. QED  BY <3>1, <3>2, <2>1, <2>3, <1>c, Zenon DEF O!Next, O!Take
  <2>. QED  BY <2>1, <2>7, <2>8, Zenon
<1>7. CASE PublishRow
  <2>1. /\ rcov = "row" /\ rcov' = "delete" /\ i < Len(result) /\ visited' = 0
        /\ published' \in {published, published \union {result[i]}}
        /\ UNCHANGED <<app, sent, Data, result, i>>
    BY <1>7 DEF PublishRow, Publish, rows, appVars
  <2>2. /\ InHand = SubSeq(result, i, Len(result))
        /\ InHand' = SubSeq(result, i + 1, Len(result))
    BY <2>1 DEF InHand, rows
  <2>6. budget = 0 /\ budget' = RecoverLimit
    <3>1. budget' = RecoverLimit - 0
      BY <2>1
    <3>. QED  BY <3>1, <2>1, <1>0
  <2>3. i <= Len(result)
    BY <2>1, <1>a
  <2>4. InHand # << >> /\ result[i] = Head(InHand) /\ InHand' = Tail(InHand)
    BY <2>2, <2>3, <1>a, Zenon
  <2>5. published' \in {published, published \union {Head(InHand)}}
    BY <2>1, <2>4, Zenon
  <2>. QED  BY <2>1, <2>2, <2>4, <2>5, <2>6, <1>c, Zenon DEF O!Next, O!HandOver
<1>8. CASE EndBatch
  <2>1. /\ rcov = "row" /\ rcov' = "poll" /\ i >= Len(result)
        /\ UNCHANGED <<app, sent, Data, published>>
    BY <1>8 DEF EndBatch, rows, appVars, history
  <2>2. /\ InHand = SubSeq(result, i, Len(result)) /\ InHand' = << >>
        /\ budget' = budget
    BY <2>1 DEF InHand, rows
  <2>3. CASE i = Len(result)
    <3>1. i <= Len(result) /\ Len(result) - i + 1 = 1
      BY <2>3, <1>a
    <3>2. Len(InHand) = Len(result) - i + 1
      BY <3>1, <2>2, <1>a, Zenon
    <3>3. Len(InHand) = 1
      BY <3>1, <3>2
    <3>. QED  BY <3>3, <2>1, <2>2, <1>c, Zenon DEF O!Next, O!GiveUp
  <2>4. CASE i > Len(result)
    <3>1. InHand' = InHand
      BY <2>2, <2>4, <1>a
    <3>. QED  BY <3>1, <2>1, <2>2, <1>c, Zenon DEF O!vars
  <2>. QED  BY <2>1, <2>3, <2>4, <1>a
<1>9. CASE DeleteRow
  <2>1. /\ rcov = "delete" /\ rcov' = "delete" /\ visited' = visited + 1
        /\ visited < RecoverLimit
        /\ Data' = RemoveAt(Data, kept + 1)
        /\ UNCHANGED <<app, sent, result, i, published>>
    BY <1>9 DEF DeleteRow, RowToVisit, appVars, history
  <2>2. kept + 1 \in DOMAIN Data
    BY <1>9, DeleteRowEffect
  <2>3. budget > 0 /\ budget' = budget - 1 /\ InHand' = InHand
    BY <2>1, <1>0 DEF InHand, rows
  <2>4. \E k \in DOMAIN Data : Data' = O!RemoveAt(Data, k)
    BY <2>1, <2>2 DEF RemoveAt, O!RemoveAt
  <2>. QED  BY <2>1, <2>3, <2>4, <1>c, Zenon DEF O!Next, O!RemoveStored
<1>10. CASE DeleteRowFails
  <2>1. /\ rcov = "delete" /\ rcov' = "delete" /\ visited' = visited + 1
        /\ visited < RecoverLimit
        /\ UNCHANGED <<app, sent, Data, result, i, published>>
    BY <1>10 DEF DeleteRowFails, RowToVisit, appVars
  <2>2. budget > 0 /\ budget' \in 0..budget - 1 /\ InHand' = InHand
    BY <2>1, <1>0 DEF InHand, rows
  <2>. QED  BY <2>1, <2>2, <1>c, Zenon DEF O!Next, O!Forgo
<1>11. CASE EndDelete \/ DeleteQueryFails
  <2>1. /\ rcov = "delete" /\ rcov' = "row" /\ i' = i + 1
        /\ UNCHANGED <<app, sent, Data, result, published>>
    BY <1>11 DEF EndDelete, DeleteQueryFails, appVars, history
  <2>2. InHand' = InHand
    BY <2>1 DEF InHand, rows
  <2>3. budget = RecoverLimit - visited /\ budget' = 0
    BY <2>1, Zenon
  <2>4. \/ budget > 0 /\ budget' \in 0..budget - 1
        \/ budget' = budget
    <3>. HIDE DEF budget
    <3>1. budget \in 0..RecoverLimit
      BY <2>3, <1>0
    <3>. QED  BY <2>3, <3>1
  <2>. QED  BY <2>1, <2>2, <2>4, <1>c, Zenon DEF O!Next, O!Forgo, O!vars
<1>12. CASE Crash
  <2>1. /\ app' = "idle" /\ rcov' = "poll"
        /\ UNCHANGED <<sent, Data, published>>
    BY <1>12 DEF Crash
  <2>2. sending' = {} /\ InHand' = << >> /\ budget' = 0
    BY <2>1 DEF InHand
  <2>. QED  BY <2>1, <2>2, Zenon DEF O!Next, O!Crash
<1>. QED
  BY <1>1, <1>2, <1>3, <1>4, <1>5, <1>6, <1>7, <1>8, <1>9, <1>10, <1>11, <1>12
  DEF Next, Application, Recovery

\* The store-and-forward path keeps the promises of the outbox, for every batch
\* size and any number of crashes and refused deletions.
THEOREM Refinement == Spec => Implements
<1>1. Spec => []TypeOK
  BY TypeCorrect
<1>. QED  BY <1>1, InitOutbox, NextOutbox, PTL DEF Spec, O!Spec, Implements
=============================================================================
