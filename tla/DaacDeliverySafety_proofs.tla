--------------------- MODULE DaacDeliverySafety_proofs ---------------------
(***************************************************************************)
(* The inductive invariant of the delivery, the safety properties that      *)
(* follow from it and the refinement of the ledger.  DaacDelivery_proofs    *)
(* says what one step may change; here each part of the invariant is        *)
(* carried over such a step.                                                *)
(***************************************************************************)
EXTENDS DaacDelivery_proofs

-----------------------------------------------------------------------------
(***************************************************************************)
(* Order: answers come after submissions.                                   *)
(***************************************************************************)

\* What the invariants compare with <= are natural numbers.
LEMMA TimesAreNat ==
  ASSUME TypeInv
  PROVE  /\ now \in Nat
         /\ \A row \in rows : row.datetime \in Nat /\ row.identifier \in Ids
         /\ \A r \in Requests : stamp[r] \in Nat
         /\ \A m \in Messages : mstamp[m] \in Nat
BY StoresAssumption DEF TypeInv, TypeOK, StoresTypeOK, SenderTypeOK, ReceiverTypeOK, Row

\* Both Lambdas stamp with the clock and the clock never goes back.
LEMMA NextNothingFromTheFuture ==
  ASSUME TypeInv, NothingFromTheFuture, [Next]_vars
  PROVE  NothingFromTheFuture'
<1>0. TypeInv'
  BY NextTypeInv
<1> USE TimesAreNat, StoresGrow DEF NothingFromTheFuture
<1>1. ASSUME NEW row \in rows' PROVE row.datetime <= now'
  <2>1. CASE row \in rows
    BY <2>1
  <2>2. CASE row \notin rows
    BY <2>2, NewRows DEF SubmitRow, ReceiveRow
  <2> QED
    BY <2>1, <2>2
<1>2. ASSUME NEW r \in Requests PROVE stamp'[r] <= now'
  <2>1. stamp'[r] \in {stamp[r], now}
    <3>1. stamp \in [Requests -> 0..MaxTime]
      BY DEF TypeInv, TypeOK, SenderTypeOK
    <3> QED
      BY <3>1, ArchiverMoves
      DEF Accept, Reject, ArchiverStep, Invoke, Stage, Trace, Publish, StampSubmit,
          InsertSubmit, StoreSubmit, Crash
  <2> QED
    BY <2>1
<1>3. ASSUME NEW m \in Messages PROVE mstamp'[m] <= now'
  <2>1. mstamp'[m] \in {mstamp[m], now}
    <3>1. mstamp \in [Messages -> 0..MaxTime]
      BY DEF TypeInv, TypeOK, ReceiverTypeOK
    <3> QED
      BY <3>1, HandlerMoves
      DEF HandlerStep, HandlerCrash, DaacAnswers, Enqueue, Receive, Redrive, Lookup,
          StampReceive, InsertReceive, WriteResult, StoreReceive
  <2> QED
    BY <2>1
<1> QED
  BY <1>1, <1>2, <1>3

\* An identifier that has rows has a submission among them.
LEMMA RowsBeginWithASubmission ==
  ASSUME TypeInv, AnswerFollowsSubmission, NEW i, NEW row \in Get(i)
  PROVE  \E q \in Get(i) : q.status \in SubmitStatuses
<1>1. row \in rows /\ row.identifier = i /\ row.status \in Statuses
  BY DEF Get, TypeInv, TypeOK, StoresTypeOK, Row
<1>2. CASE row.status \in SubmitStatuses
  BY <1>2
<1>3. CASE row.status \in ReceiveStatuses
  BY <1>1, <1>3 DEF AnswerFollowsSubmission
<1> QED
  BY <1>1, <1>2, <1>3 DEF Statuses

\* How a message comes to be past its lookup: it just passed it, it was
\* stamped, or it was past the lookup before.
LEMMA IdentifiedMoves ==
  ASSUME TypeInv, [Next]_vars, NEW m \in Messages, mpc'[m] \in Identified
  PROVE  /\ mid'[m] = mid[m]
         /\ \/ Lookup(m) /\ Get(mid[m]) # {} /\ mpc'[m] = "stamp"
               /\ subject'[m] = Earliest(mid[m]).subject
            \/ /\ mpc[m] = "stamp" /\ mpc'[m] = "insert"
               /\ mstamp'[m] = now /\ subject'[m] = subject[m]
            \/ /\ mpc[m] \in Identified /\ mstamp'[m] = mstamp[m] /\ subject'[m] = subject[m]
               /\ mpc[m] = "stamp" <=> mpc'[m] = "stamp"
<1> USE DEF TypeInv, TypeOK, ReceiverTypeOK, Identified
<1>1. CASE Receive(m) \/ Redrive(m) \/ HandlerCrash(m) \/ StoreReceive(m) \/ DaacAnswers(m)
  BY <1>1 DEF Receive, Redrive, HandlerCrash, StoreReceive, DaacAnswers, Enqueue
<1>2. CASE Lookup(m)
  BY <1>2 DEF Lookup
<1>3. CASE StampReceive(m)
  BY <1>3 DEF StampReceive
<1>4. CASE InsertReceive(m)
  BY <1>4 DEF InsertReceive
<1>5. CASE WriteResult(m)
  <2>1. mpc'[m] \in {"visible", "store"}
    BY <1>5 DEF WriteResult
  <2> QED
    BY <1>5, <2>1 DEF WriteResult
<1>6. CASE /\ mpc'[m] = mpc[m] /\ mid'[m] = mid[m] /\ outcome'[m] = outcome[m]
           /\ subject'[m] = subject[m] /\ mstamp'[m] = mstamp[m] /\ failed'[m] = failed[m]
  BY <1>6
<1> QED
  BY <1>1, <1>2, <1>3, <1>4, <1>5, <1>6, HandlerMoves DEF HandlerStep

\* One step inserts one row.
LEMMA OneNewRow ==
  ASSUME TypeInv, [Next]_vars, NEW x \in rows', x \notin rows, NEW y \in rows'
  PROVE  y = x \/ y \in rows
<1>1. ASSUME NEW r \in Requests, InsertSubmit(r) PROVE y = x \/ y \in rows
  BY <1>1 DEF InsertSubmit, AddRow, AddRowRaises
<1>2. ASSUME NEW m \in Messages, InsertReceive(m) PROVE y = x \/ y \in rows
  BY <1>2 DEF InsertReceive, AddRow, AddRowRaises
<1> QED
  BY <1>1, <1>2, NewRows

\* Every step keeps the order of submissions and answers.
LEMMA NextOrderInv ==
  ASSUME TypeInv, OrderInv, [Next]_vars
  PROVE  OrderInv'
<1> USE DEF OrderInv
<1>1. NothingFromTheFuture'
  BY NextNothingFromTheFuture
<1>2. ASSUME NEW m \in Messages, mpc'[m] \in Identified
      PROVE  \E q \in Get(mid[m])' :
               q.status \in SubmitStatuses /\ (mpc'[m] # "stamp" => q.datetime <= mstamp'[m])
  <2>1. CASE Lookup(m) /\ Get(mid[m]) # {} /\ mpc'[m] = "stamp" /\ mid'[m] = mid[m]
    <3>1. PICK q \in Get(mid[m]) : q.status \in SubmitStatuses
      BY <2>1, RowsBeginWithASubmission
    <3>2. q \in Get(mid[m])'
      BY StoresGrow, <2>1 DEF Get
    <3> QED
      BY <2>1, <3>1, <3>2
  <2>2. CASE mpc[m] \in Identified
    <3>1. PICK q \in Get(mid[m]) :
             q.status \in SubmitStatuses /\ (mpc[m] # "stamp" => q.datetime <= mstamp[m])
      BY <2>2 DEF HandlersFollowASubmission
    <3>2. q \in rows /\ q.datetime <= now /\ q.identifier = mid[m]
      BY <3>1 DEF Get, NothingFromTheFuture
    <3>3. q \in Get(mid[m])'
      BY <1>2, <3>2, StoresGrow, IdentifiedMoves DEF Get
    <3>4. mpc'[m] # "stamp" => q.datetime <= mstamp'[m]
      BY <1>2, <2>2, <3>1, <3>2, IdentifiedMoves DEF Lookup, Identified
    <3> QED
      BY <3>1, <3>3, <3>4
  <2> QED
    BY <1>2, <2>1, <2>2, IdentifiedMoves DEF Identified
<1>3. ASSUME NEW row \in rows', row.status \in ReceiveStatuses
      PROVE  \E q \in Get(row.identifier)' :
               q.status \in SubmitStatuses /\ q.datetime < row.datetime
  <2>1. CASE row \in rows
    <3>1. PICK q \in Get(row.identifier) : q.status \in SubmitStatuses /\ q.datetime < row.datetime
      BY <1>3, <2>1 DEF AnswerFollowsSubmission
    <3> QED
      BY <3>1, StoresGrow DEF Get
  <2>2. ASSUME NEW m \in Messages, InsertReceive(m), row = ReceiveRow(m), ~Collides(row)
        PROVE  \E q \in Get(row.identifier)' :
                 q.status \in SubmitStatuses /\ q.datetime < row.datetime
    <3>1. mpc[m] = "insert" /\ row.identifier = mid[m] /\ row.datetime = mstamp[m]
      BY <2>2 DEF InsertReceive, ReceiveRow
    <3>2. PICK q \in Get(mid[m]) : q.status \in SubmitStatuses /\ q.datetime <= mstamp[m]
      BY <3>1 DEF HandlersFollowASubmission, Identified
    <3>3. q \in rows /\ q.identifier = mid[m]
      BY <3>2 DEF Get
    <3>4. q.datetime # mstamp[m]
      BY <2>2, <3>1, <3>3 DEF Collides
    <3>5. q.datetime < mstamp[m]
      BY <3>2, <3>3, <3>4, TimesAreNat
    <3> QED
      BY <3>1, <3>2, <3>3, <3>5, StoresGrow DEF Get
  <2>3. ASSUME NEW r \in Requests, row = SubmitRow(r) PROVE FALSE
    BY <1>3, <2>3 DEF SubmitRow, TypeInv, TypeOK, SenderTypeOK, SubmitStatuses, ReceiveStatuses
  <2> QED
    BY <2>1, <2>2, <2>3, NewRows
<1>4. ASSUME NEW q \in rows', NEW row \in rows', q # row,
             q.identifier = row.identifier, q.datetime = row.datetime
      PROVE  FALSE
  <2>1. ASSUME NEW x \in rows', x \notin rows, NEW y \in rows' PROVE y = x \/ y \in rows
    BY <2>1, OneNewRow
  <2>2. ASSUME NEW x \in rows', x \notin rows PROVE ~Collides(x)
    BY <2>2, NewRows
  <2> QED
    BY <1>4, <2>1, <2>2 DEF OneRowPerDatetime, Collides
<1> QED
  BY <1>1, <1>2, <1>3, <1>4
  DEF HandlersFollowASubmission, AnswerFollowsSubmission, OneRowPerDatetime

\* Nothing is recorded initially.
LEMMA InitOrderInv == Init => OrderInv
BY DEF OneRowPerDatetime, Init, StoresInit, SenderInit, ReceiverInit, OrderInv, NothingFromTheFuture,
       HandlersFollowASubmission, AnswerFollowsSubmission, Identified, Get

\* An answer is on record only after a submission of the same identifier, with
\* a later datetime, so existing_statuses[0] is the row of the submission.
THEOREM AnswersFollowSubmissions == Spec => []AnswerFollowsSubmission
<1>1. Init => TypeInv /\ OrderInv
  BY InitTypeInv, InitOrderInv
<1>2. TypeInv /\ OrderInv /\ [Next]_vars => (TypeInv /\ OrderInv)'
  BY NextTypeInv, NextOrderInv
<1>3. OrderInv => AnswerFollowsSubmission
  BY DEF OrderInv
<1> QED
  BY <1>1, <1>2, <1>3, PTL DEF Spec

-----------------------------------------------------------------------------
(***************************************************************************)
(* Ownership: every row names what its identifier was generated for.        *)
(***************************************************************************)

\* Once issued, an identifier keeps its place in its request.
LEMMA PlacesStay ==
  ASSUME TypeInv, IdsIssuedOnce, [Next]_vars, NEW r \in Requests, NEW k \in DOMAIN sending[r]
  PROVE  k \in DOMAIN sending'[r] /\ sending'[r][k] = sending[r][k]
<1>1. sending[r] # << >>
  BY DEF TypeInv, TypeOK, SenderTypeOK
<1>2. pc[r] # "new"
  BY <1>1 DEF IdsIssuedOnce
<1>3. ASSUME NEW q \in Requests, NEW s, pc[q] = "new", sending' = [sending EXCEPT ![q] = s]
      PROVE  sending'[r] = sending[r]
  BY <1>2, <1>3 DEF TypeInv, TypeOK, SenderTypeOK
<1>4. sending'[r] = sending[r]
  BY <1>3, SendingMoves
<1> QED
  BY <1>4

\* What an identifier was generated for never changes.
LEMMA StandsStays ==
  ASSUME TypeInv, IdsIssuedOnce, [Next]_vars, NEW i, NEW s, Stands(i, s)
  PROVE  \E r \in Requests : \E k \in DOMAIN sending'[r] :
           sending'[r][k].id = i /\ s = <<ItemOf[r], sending'[r][k].target>>
<1>0. PICK r \in Requests : \E k \in DOMAIN sending[r] :
        sending[r][k].id = i /\ s = <<ItemOf[r], sending[r][k].target>>
  BY DEF Stands
<1>1. PICK k \in DOMAIN sending[r] :
        sending[r][k].id = i /\ s = <<ItemOf[r], sending[r][k].target>>
  BY <1>0
<1>2. k \in DOMAIN sending'[r] /\ sending'[r][k] = sending[r][k]
  BY PlacesStay
<1> QED
  BY <1>1, <1>2

\* Only Publish publishes, and only the identifier under the cursor.
LEMMA PublishedMoves ==
  ASSUME TypeInv, [Next]_vars, NEW i \in Ids, published'[i] > 0, ~(published[i] > 0)
  PROVE  \E r \in Requests : Publish(r) /\ Current(r) = i
<1> USE DEF TypeInv, TypeOK, SenderTypeOK, storeVars, senderVars, receiverVars
<1>1. ASSUME NEW r \in Requests, Publish(r), Current(r) # i PROVE FALSE
  BY <1>1 DEF Publish
<1>2. CASE SenderNext
  BY <1>1, <1>2 DEF SenderNext, ArchiverStep, Accept, Reject, Invoke, Stage, Trace,
                StampSubmit, InsertSubmit, StoreSubmit, Crash, Administer
<1>3. CASE UNCHANGED senderVars
  BY <1>3
<1>4. ASSUME NEW m \in Messages, DaacAnswers(m) PROVE UNCHANGED senderVars
  BY <1>4 DEF DaacAnswers
<1> QED
  BY <1>2, <1>3, <1>4 DEF Next, vars

\* What is published after a step was issued before it.
LEMMA PublishedWasIssued ==
  ASSUME TypeInv, IdsIssuedOnce, [Next]_vars, NEW i \in Ids, published'[i] > 0
  PROVE  Issued(i)
<1>1. CASE published[i] > 0
  BY <1>1 DEF IdsIssuedOnce
<1>2. CASE ~(published[i] > 0)
  <2>1. PICK r \in Requests : Publish(r) /\ Current(r) = i
    BY <1>2, PublishedMoves
  <2>2. pos[r] \in DOMAIN sending[r]
    BY <2>1, CurrentTyped DEF Publish, InLoop
  <2> QED
    BY <2>1, <2>2 DEF Current, Issued
<1> QED
  BY <1>1, <1>2

\* A step of the delivery is one of the sender, or leaves the sender alone.
LEMMA SenderMoves == [Next]_vars => SenderNext \/ UNCHANGED senderVars
  BY DEF Next, DaacAnswers, vars

\* Every step keeps the identifiers of all requests apart.
LEMMA NextIdsIssuedOnce ==
  ASSUME TypeInv, IdsIssuedOnce, [Next]_vars
  PROVE  IdsIssuedOnce'
<1>1. CASE UNCHANGED senderVars
  BY <1>1 DEF senderVars, IdsIssuedOnce, Issued
<1> QED
  BY <1>1, SenderMoves, TypeInvOfSender, SenderKeepsIds

\* Every step keeps each row, and each handler, to its identifier's subject.
LEMMA NextOwnerInv ==
  ASSUME TypeInv, OwnerInv, [Next]_vars
  PROVE  OwnerInv'
<1> USE DEF OwnerInv
<1>1. IdsIssuedOnce'
  BY NextIdsIssuedOnce
<1>2. ASSUME NEW row \in rows PROVE Stands(row.identifier, row.subject)
  BY DEF RowsNameTheirOwner, Stands
<1>3. ASSUME NEW m \in Messages, mpc'[m] \in Identified
      PROVE  Stands(mid[m], subject[m])'
  <2>1. Stands(mid[m], subject'[m])
    <3>1. CASE Lookup(m) /\ Get(mid[m]) # {} /\ subject'[m] = Earliest(mid[m]).subject
      <4>1. Earliest(mid[m]) \in rows /\ Earliest(mid[m]).identifier = mid[m]
        BY <3>1, EarliestIsLeast DEF Get
      <4> QED
        BY <1>2, <3>1, <4>1
    <3>2. CASE mpc[m] \in Identified /\ subject'[m] = subject[m]
      BY <3>2 DEF HandlersKnowTheSubject
    <3> QED
      BY <1>3, <3>1, <3>2, IdentifiedMoves DEF Identified
  <2>2. mid'[m] = mid[m]
    BY <1>3, IdentifiedMoves
  <2>3. \E r \in Requests : \E k \in DOMAIN sending'[r] :
          sending'[r][k].id = mid[m] /\ subject'[m] = <<ItemOf[r], sending'[r][k].target>>
    BY <2>1, StandsStays
  <2> QED
    BY <2>2, <2>3 DEF Stands
<1>4. ASSUME NEW row \in rows' PROVE Stands(row.identifier, row.subject)'
  <2>1. Stands(row.identifier, row.subject)
    <3>1. CASE row \in rows
      BY <1>2, <3>1
    <3>2. ASSUME NEW r \in Requests, InsertSubmit(r), row = SubmitRow(r)
          PROVE  Stands(row.identifier, row.subject)
      <4>1. pos[r] \in DOMAIN sending[r]
        BY <3>2, CurrentTyped DEF InsertSubmit, InLoop
      <4> QED
        BY <3>2, <4>1 DEF SubmitRow, Current, Stands
    <3>3. ASSUME NEW m \in Messages, InsertReceive(m), row = ReceiveRow(m)
          PROVE  Stands(row.identifier, row.subject)
      BY <3>3 DEF InsertReceive, ReceiveRow, HandlersKnowTheSubject, Identified
    <3> QED
      BY <3>1, <3>2, <3>3, NewRows
  <2>2. \E r \in Requests : \E k \in DOMAIN sending'[r] :
          /\ sending'[r][k].id = row.identifier
          /\ row.subject = <<ItemOf[r], sending'[r][k].target>>
    BY <2>1, StandsStays
  <2> QED
    BY <2>2 DEF Stands
<1> QED
  BY <1>1, <1>3, <1>4 DEF HandlersKnowTheSubject, RowsNameTheirOwner, Stands

\* No identifier is issued initially.
LEMMA InitOwnerInv == Init => OwnerInv
BY DEF Init, StoresInit, SenderInit, ReceiverInit, OwnerInv, IdsIssuedOnce,
       HandlersKnowTheSubject, RowsNameTheirOwner, Identified

\* Every status row names the item and target collection its identifier was
\* generated for, also the rows the receiver derives from earlier rows.
THEOREM RowsBelongToTheirIdentifier == Spec => []RowsNameTheirOwner
<1>1. Init => TypeInv /\ OwnerInv
  BY InitTypeInv, InitOwnerInv
<1>2. TypeInv /\ OwnerInv /\ [Next]_vars => (TypeInv /\ OwnerInv)'
  BY NextTypeInv, NextOwnerInv
<1>3. OwnerInv => RowsNameTheirOwner
  BY DEF OwnerInv
<1> QED
  BY <1>1, <1>2, <1>3, PTL DEF Spec

-----------------------------------------------------------------------------
(***************************************************************************)
(* The send loop and the truth of what it records.                          *)
(***************************************************************************)

\* Requests keep the identifiers they were accepted with.
LEMMA SendingStays ==
  ASSUME TypeInv, [Next]_vars, NEW r \in Requests, pc[r] # "new"
  PROVE  sending'[r] = sending[r]
<1>1. ASSUME NEW q \in Requests, NEW s, pc[q] = "new", sending' = [sending EXCEPT ![q] = s]
      PROVE  sending'[r] = sending[r]
  BY <1>1 DEF TypeInv, TypeOK, SenderTypeOK
<1> QED
  BY <1>1, SendingMoves

\* A submission on record stays on record.
LEMMA SubmittedStays ==
  ASSUME TypeInv, [Next]_vars, NEW r \in Requests, pc[r] # "new",
         NEW j, Submitted(sending[r][j].id)
  PROVE  \E row \in rows' : row.identifier = sending'[r][j].id /\ row.status \in SubmitStatuses
<1>1. sending'[r] = sending[r]
  BY SendingStays
<1> QED
  BY <1>1, StoresGrow DEF Submitted, Get

\* A place in a request's sequence is a positive number with an identifier.
LEMMA PlacesTyped ==
  ASSUME TypeInv, NEW r \in Requests, NEW k \in DOMAIN sending[r]
  PROVE  k \in Nat \ {0} /\ sending[r][k].id \in Ids /\ DOMAIN sending[r] = 1..Len(sending[r])
<1>1. sending[r] \in Seq(PreReq)
  BY DEF TypeInv, TypeOK, SenderTypeOK
<1>2. sending[r][k] \in PreReq /\ DOMAIN sending[r] = 1..Len(sending[r]) /\ Len(sending[r]) \in Nat
  BY <1>1
<1> QED
  BY <1>2 DEF PreReq

\* A published identifier is not one that was issued by this very step.
LEMMA PublishedPlacesAreOld ==
  ASSUME TypeInv, IdsIssuedOnce, [Next]_vars, NEW r \in Requests,
         NEW k \in DOMAIN sending'[r], published'[sending'[r][k].id] > 0
  PROVE  k \in DOMAIN sending[r] /\ sending'[r][k] = sending[r][k]
<1> DEFINE i == sending'[r][k].id
<1>1. i \in Ids
  <2>1. TypeInv'
    BY NextTypeInv
  <2>2. sending'[r] \in Seq(PreReq)
    BY <2>1 DEF TypeInv, TypeOK, SenderTypeOK
  <2>3. sending'[r][k] \in PreReq
    BY <2>2
  <2> QED
    BY <2>3 DEF PreReq
<1>2. Issued(i)
  BY <1>1, PublishedWasIssued
<1>3. PICK q \in Requests : \E j \in DOMAIN sending[q] : sending[q][j].id = i
  BY <1>2 DEF Issued
<1>4. PICK j \in DOMAIN sending[q] : sending[q][j].id = i
  BY <1>3
<1>5. j \in DOMAIN sending'[q] /\ sending'[q][j] = sending[q][j]
  BY PlacesStay
<1>6. q = r /\ j = k
  <2>1. IdsIssuedOnce'
    BY NextIdsIssuedOnce
  <2> QED
    BY <1>4, <1>5, <2>1 DEF IdsIssuedOnce
<1> QED
  BY <1>5, <1>6

\* A publish that happens in this step is of the identifier under the cursor
\* of its own request.
LEMMA FreshlyPublished ==
  ASSUME TypeInv, IdsIssuedOnce, [Next]_vars, NEW r \in Requests, NEW k \in DOMAIN sending[r],
         published'[sending[r][k].id] > 0, ~(published[sending[r][k].id] > 0)
  PROVE  Publish(r) /\ k = pos[r]
<1>1. PICK q \in Requests : Publish(q) /\ Current(q) = sending[r][k].id
  BY PublishedMoves, PlacesTyped
<1>2. pos[q] \in DOMAIN sending[q]
  BY <1>1, CurrentTyped DEF Publish, InLoop
<1> QED
  BY <1>1, <1>2 DEF Current, IdsIssuedOnce

\* Every step keeps the progress condition of the send loop.
LEMMA NextLoopInv ==
  ASSUME TypeInv, IdsIssuedOnce, LoopInv, [Next]_vars
  PROVE  LoopInv'
<1> SUFFICES ASSUME NEW r \in Requests
             PROVE  /\ pc'[r] \in InLoop => \A j \in 1..(pos'[r] - 1) : Submitted(sending[r][j].id)'
                    /\ pc'[r] = "store" => Submitted(sending[r][pos[r]].id)'
                    /\ pc'[r] \in {"stamp", "insert"} /\ status'[r] = "cnm-submit-success"
                         => published'[sending'[r][pos'[r]].id] > 0
                    /\ pc'[r] \in {"new", "staging"} => pos'[r] = 1
  BY DEF LoopInv
<1> USE DEF TypeInv, TypeOK, SenderTypeOK
<1>1. pc[r] # "new" => sending'[r] = sending[r]
  BY SendingStays
<1>2. CASE Accept(r) \/ Reject(r) \/ Crash(r) \/ Invoke(r)
  BY <1>2 DEF Accept, Reject, Crash, Invoke, InLoop, Running, LoopInv
<1>3. CASE Stage(r)
  <2>1. pos'[r] = 1 /\ pc'[r] \in {"trace", "finished", "aborted"}
    BY <1>3 DEF Stage, LoopFrom, LoopInv
  <2> QED
    BY <2>1 DEF InLoop
<1>4. CASE /\ pos'[r] = pos[r] /\ pc[r] # "new" /\ pc'[r] # "new"
           /\ pc'[r] = "staging" => pc[r] = "staging"
           /\ pc'[r] \in InLoop => pc[r] \in InLoop
           /\ pc'[r] = "store" => pc[r] = "store" \/ SubmitRow(r) \in rows'
           /\ pc'[r] \in {"stamp", "insert"} /\ status'[r] = "cnm-submit-success" =>
                \/ pc[r] \in {"stamp", "insert"} /\ status[r] = "cnm-submit-success"
                \/ published'[Current(r)] > 0
  <2>1. pc'[r] \in InLoop => \A j \in 1..(pos'[r] - 1) : Submitted(sending[r][j].id)'
    <3> SUFFICES ASSUME pc'[r] \in InLoop, NEW j \in 1..(pos'[r] - 1)
                 PROVE  Submitted(sending[r][j].id)'
      OBVIOUS
    <3>1. Submitted(sending[r][j].id)
      BY <1>4 DEF LoopInv
    <3> QED
      BY <1>4, <3>1, SubmittedStays DEF Submitted, Get
  <2>2. pc'[r] = "store" => Submitted(sending[r][pos[r]].id)'
    <3>1. CASE pc[r] = "store"
      <4>1. Submitted(sending[r][pos[r]].id)
        BY <3>1 DEF LoopInv
      <4> QED
        BY <1>4, <4>1, SubmittedStays DEF Submitted, Get
    <3>2. CASE SubmitRow(r) \in rows'
      <4>1. SubmitRow(r).identifier = sending'[r][pos'[r]].id
        BY <1>1, <1>4 DEF SubmitRow, Current
      <4>2. SubmitRow(r).status \in SubmitStatuses
        BY DEF SubmitRow
      <4> QED
        BY <3>2, <4>1, <4>2 DEF Submitted, Get
    <3> QED
      BY <1>4, <3>1, <3>2
  <2>3. pc'[r] \in {"stamp", "insert"} /\ status'[r] = "cnm-submit-success"
          => published'[sending'[r][pos'[r]].id] > 0
    <3>1. CASE pc[r] \in {"stamp", "insert"} /\ status[r] = "cnm-submit-success"
      <4>1. Current(r) \in Ids /\ published[Current(r)] > 0
        BY <3>1, CurrentTyped DEF InLoop, LoopInv, Current
      <4> QED
        BY <1>1, <1>4, <4>1, StoresGrow DEF Current
    <3>2. CASE published'[Current(r)] > 0
      BY <1>1, <1>4, <3>2 DEF Current
    <3> QED
      BY <1>4, <3>1, <3>2
  <2> QED
    BY <1>4, <2>1, <2>2, <2>3 DEF LoopInv
<1>5. CASE Trace(r)
  BY <1>4, <1>5 DEF Trace, InLoop
<1>6. CASE Publish(r)
  <2>1. Current(r) \in Ids
    BY <1>6, CurrentTyped DEF Publish, InLoop
  <2>2. status'[r] = "cnm-submit-success" => published'[Current(r)] > 0
    BY <1>6, <2>1 DEF Publish
  <2> QED
    BY <1>4, <1>6, <2>2 DEF Publish, InLoop
<1>7. CASE StampSubmit(r)
  BY <1>4, <1>7 DEF StampSubmit, InLoop
<1>8. CASE InsertSubmit(r)
  BY <1>4, <1>8 DEF InsertSubmit, InLoop, AddRow
<1>9. CASE StoreSubmit(r)
  <2>1. CASE pc'[r] = "aborted"
    BY <2>1 DEF InLoop
  <2>2. CASE pos'[r] = pos[r] + 1 /\ pc'[r] = LoopFrom(r, pos[r] + 1)
    <3>1. pc[r] = "store" /\ pos[r] \in Nat \ {0} /\ pc'[r] \in {"trace", "finished"}
      BY <1>9, <2>2 DEF StoreSubmit, LoopFrom
    <3>2. /\ \A j \in 1..(pos[r] - 1) : Submitted(sending[r][j].id)
          /\ Submitted(sending[r][pos[r]].id)
      BY <3>1 DEF LoopInv, InLoop
    <3>3. ASSUME NEW j \in 1..pos[r] PROVE Submitted(sending[r][j].id)'
      <4>1. j = pos[r] \/ j \in 1..(pos[r] - 1)
        BY <3>1
      <4>2. Submitted(sending[r][j].id)
        BY <3>2, <4>1
      <4> QED
        BY <3>1, <4>2, SubmittedStays DEF Submitted, Get
    <3> QED
      BY <2>2, <3>1, <3>3
  <2> QED
    BY <1>9, <2>1, <2>2 DEF StoreSubmit
<1>10. CASE pc[r] # "new" /\ pc'[r] = pc[r] /\ pos'[r] = pos[r] /\ status'[r] = status[r]
  BY <1>4, <1>10
<1>11. CASE pc[r] = "new" /\ pc'[r] = pc[r] /\ pos'[r] = pos[r]
  BY <1>11 DEF InLoop, LoopInv
<1> QED
  BY <1>2, <1>3, <1>5, <1>6, <1>7, <1>8, <1>9, <1>10, <1>11, ArchiverMoves DEF ArchiverStep

\* How a request comes to its end.
LEMMA FinishMoves ==
  ASSUME TypeInv, LoopInv, [Next]_vars, NEW r \in Requests, pc'[r] = "finished",
         NEW k \in DOMAIN sending[r]
  PROVE  pc[r] = "finished" \/ (StoreSubmit(r) /\ k \in 1..pos[r])
<1> USE DEF TypeInv, TypeOK, SenderTypeOK
<1>0. k \in 1..Len(sending[r])
  BY PlacesTyped
<1>1. CASE Stage(r)
  <2>1. pos[r] = 1 /\ LoopFrom(r, pos[r]) = "finished"
    BY <1>1 DEF Stage, LoopInv
  <2> QED
    BY <1>0, <2>1 DEF LoopFrom
<1>2. CASE StoreSubmit(r)
  <2>1. LoopFrom(r, pos[r] + 1) = "finished" /\ pos[r] \in Nat \ {0}
    BY <1>2 DEF StoreSubmit
  <2>2. Len(sending[r]) \in Nat
    OBVIOUS
  <2>3. ~(pos[r] + 1 <= Len(sending[r]))
    BY <2>1 DEF LoopFrom
  <2> QED
    BY <1>0, <1>2, <2>1, <2>2, <2>3
<1> QED
  BY <1>1, <1>2, ArchiverMoves
  DEF Accept, Reject, ArchiverStep, Invoke, Trace, Publish, StampSubmit, InsertSubmit, Crash

\* Every step, a crash or a retry included, keeps the send loop gapless.
LEMMA NextSendLoopLeavesNoGap ==
  ASSUME TypeInv, IdsIssuedOnce, LoopInv, SendLoopLeavesNoGap, [Next]_vars
  PROVE  SendLoopLeavesNoGap'
<1> USE DEF TypeInv, TypeOK, SenderTypeOK
<1>1. ASSUME NEW r \in Requests, NEW k \in DOMAIN sending'[r],
             published'[sending'[r][k].id] > 0, NEW j \in 1..(k - 1)
      PROVE  Submitted(sending[r][j].id)'
  <2>1. k \in DOMAIN sending[r] /\ sending'[r][k] = sending[r][k]
    BY <1>1, PublishedPlacesAreOld
  <2>2. pc[r] # "new"
    BY <2>1 DEF IdsIssuedOnce
  <2>3. CASE published[sending[r][k].id] > 0
    <3>1. Submitted(sending[r][j].id)
      BY <1>1, <2>1, <2>3 DEF SendLoopLeavesNoGap
    <3> QED
      BY <2>2, <3>1, SubmittedStays DEF Submitted, Get
  <2>4. CASE ~(published[sending[r][k].id] > 0)
    <3>1. Publish(r) /\ k = pos[r]
      BY <1>1, <2>1, <2>4, FreshlyPublished
    <3>2. Submitted(sending[r][j].id)
      BY <1>1, <3>1 DEF Publish, LoopInv, InLoop
    <3> QED
      BY <2>2, <3>2, SubmittedStays DEF Submitted, Get
  <2> QED
    BY <2>3, <2>4
<1>2. ASSUME NEW r \in Requests, NEW k \in DOMAIN sending'[r], pc'[r] = "finished"
      PROVE  Submitted(sending[r][k].id)'
  <2>1. pc[r] # "new"
    <3>1. pc[r] # "new" \/ pc'[r] # "finished"
      BY ArchiverMoves
      DEF Accept, Reject, ArchiverStep, Invoke, Stage, Trace, Publish, StampSubmit,
          InsertSubmit, StoreSubmit, Crash, Running
    <3> QED
      BY <1>2, <3>1
  <2>2. sending'[r] = sending[r] /\ k \in DOMAIN sending[r]
    BY <2>1, SendingStays
  <2>3. Submitted(sending[r][k].id)
    <3>1. CASE pc[r] = "finished"
      BY <2>2, <3>1 DEF SendLoopLeavesNoGap
    <3>2. CASE StoreSubmit(r) /\ k \in 1..pos[r]
      <4>1. pc[r] = "store" /\ pos[r] \in Nat
        BY <3>2 DEF StoreSubmit
      <4>2. k = pos[r] \/ k \in 1..(pos[r] - 1)
        BY <3>2, <4>1
      <4> QED
        BY <4>1, <4>2 DEF LoopInv, InLoop
    <3> QED
      BY <1>2, <2>2, <3>1, <3>2, FinishMoves
  <2> QED
    BY <2>1, <2>3, SubmittedStays DEF Submitted, Get
<1>3. ASSUME NEW r \in Requests, NEW k \in DOMAIN sending'[r], pc'[r] = "finished",
             NEW j \in 1..(k - 1)
      PROVE  Submitted(sending[r][j].id)'
  <2>1. j \in DOMAIN sending'[r]
    <3>1. TypeInv'
      BY NextTypeInv
    <3>2. sending'[r] \in Seq(PreReq)
      BY <3>1
    <3>3. DOMAIN sending'[r] = 1..Len(sending'[r]) /\ Len(sending'[r]) \in Nat
      BY <3>2
    <3> QED
      BY <1>3, <3>3
  <2> QED
    BY <1>2, <1>3, <2>1
<1> QED
  BY <1>1, <1>2, <1>3 DEF SendLoopLeavesNoGap

\* A message that has been sent keeps its identifier and its outcome.
LEMMA MessagesStay ==
  ASSUME TypeInv, [Next]_vars, NEW m \in Messages
  PROVE  \/ /\ mpc[m] # "unsent"
            /\ mpc'[m] # "unsent" /\ mid'[m] = mid[m] /\ outcome'[m] = outcome[m]
         \/ mpc'[m] = "unsent"
         \/ mpc[m] = "unsent" /\ mpc'[m] = "visible" /\ published[mid'[m]] > 0 /\ mid'[m] \in Ids
            /\ UNCHANGED <<storeVars, published>>
<1> USE DEF TypeInv, TypeOK, ReceiverTypeOK, Handling
<1>1. CASE DaacAnswers(m)
  BY <1>1 DEF DaacAnswers, Enqueue, senderVars
<1>2. CASE HandlerStep(m) \/ HandlerCrash(m)
  BY <1>2 DEF HandlerStep, HandlerCrash, Receive, Redrive, Lookup, StampReceive,
              InsertReceive, WriteResult, StoreReceive
<1> QED
  BY <1>1, <1>2, HandlerMoves

\* A response keeps its identifier and outcome through every retry.
LEMMA SentMessagesStay ==
  ASSUME TypeInv, [Next]_vars, NEW m \in Messages, mpc[m] # "unsent"
  PROVE  mpc'[m] # "unsent" /\ mid'[m] = mid[m] /\ ReceiveStatus(m)' = ReceiveStatus(m)
<1>1. mpc'[m] # "unsent"
  BY HandlerMoves
  DEF DaacAnswers, Enqueue, HandlerStep, HandlerCrash, Receive, Redrive, Lookup,
      StampReceive, InsertReceive, WriteResult, StoreReceive, TypeInv, TypeOK, ReceiverTypeOK
<1> QED
  BY <1>1, MessagesStay DEF ReceiveStatus

\* A response in the system answers a message the DAAC was sent.
LEMMA NextAnswersWereAsked ==
  ASSUME TypeInv, AnswersWereAsked, [Next]_vars
  PROVE  AnswersWereAsked'
<1> SUFFICES ASSUME NEW m \in Messages, mpc'[m] # "unsent"
             PROVE  published'[mid'[m]] > 0
  BY DEF AnswersWereAsked
<1>1. mid[m] \in Ids
  BY DEF TypeInv, TypeOK, ReceiverTypeOK
<1> QED
  BY <1>1, MessagesStay, StoresGrow DEF AnswersWereAsked

\* Every step keeps recorded statuses true.
LEMMA NextStatusesAreTrue ==
  ASSUME TypeInv, LoopInv, StatusesAreTrue, [Next]_vars
  PROVE  StatusesAreTrue'
<1> SUFFICES ASSUME NEW row \in rows'
             PROVE  /\ row.status = "cnm-submit-success" => published'[row.identifier] > 0
                    /\ row.status \in ReceiveStatuses =>
                         \E m \in Messages : /\ mpc'[m] # "unsent"
                                             /\ mid'[m] = row.identifier
                                             /\ ReceiveStatus(m)' = row.status
  BY DEF StatusesAreTrue
<1>1. ASSUME NEW m \in Messages, mpc[m] # "unsent"
      PROVE  mpc'[m] # "unsent" /\ mid'[m] = mid[m] /\ ReceiveStatus(m)' = ReceiveStatus(m)
  BY <1>1, SentMessagesStay
<1>2. CASE row \in rows
  <2>1. row.identifier \in Ids
    BY <1>2, TimesAreNat
  <2> QED
    BY <1>1, <1>2, <2>1, StoresGrow DEF StatusesAreTrue
<1>3. ASSUME NEW r \in Requests, InsertSubmit(r), row = SubmitRow(r)
      PROVE  /\ row.status = "cnm-submit-success" => published'[row.identifier] > 0
             /\ row.status \notin ReceiveStatuses
  <2>1. row.status = status[r] /\ row.identifier = Current(r) /\ pc[r] = "insert"
    BY <1>3 DEF SubmitRow, InsertSubmit
  <2>2. row.status \notin ReceiveStatuses
    BY <2>1 DEF TypeInv, TypeOK, SenderTypeOK, SubmitStatuses, ReceiveStatuses
  <2>3. Current(r) \in Ids
    BY <2>1, CurrentTyped DEF InLoop
  <2> QED
    BY <2>1, <2>2, <2>3, StoresGrow DEF LoopInv, Current
<1>4. ASSUME NEW m \in Messages, InsertReceive(m), row = ReceiveRow(m)
      PROVE  /\ row.status # "cnm-submit-success"
             /\ mpc[m] # "unsent" /\ mid[m] = row.identifier /\ ReceiveStatus(m) = row.status
  BY <1>4 DEF InsertReceive, ReceiveRow, ReceiveStatus
<1> QED
  BY <1>1, <1>2, <1>3, <1>4, NewRows

\* A submission about to be inserted is the latest of its identifier.
LEMMA NextInsertsTheLatest ==
  ASSUME TypeInv, IdsIssuedOnce, NothingFromTheFuture, InsertsTheLatest, [Next]_vars
  PROVE  InsertsTheLatest'
<1> SUFFICES ASSUME NEW r \in Requests, pc'[r] = "insert",
                    NEW q \in rows', q.identifier = Current(r)', q.status \in SubmitStatuses
             PROVE  q.datetime <= stamp'[r]
  BY DEF InsertsTheLatest, Get
<1> USE DEF TypeInv, TypeOK, SenderTypeOK
<1>1. \/ StampSubmit(r)
      \/ pc[r] = "insert" /\ pos'[r] = pos[r] /\ stamp'[r] = stamp[r] /\ ~InsertSubmit(r)
  BY ArchiverMoves
  DEF Accept, Reject, ArchiverStep, Invoke, Stage, LoopFrom, Trace, Publish, StampSubmit,
      InsertSubmit, StoreSubmit, Crash
<1>2. CASE StampSubmit(r)
  BY <1>2, NewRows DEF StampSubmit, InsertSubmit, InsertReceive, storeVars, NothingFromTheFuture
<1>3. CASE pc[r] = "insert" /\ pos'[r] = pos[r] /\ stamp'[r] = stamp[r] /\ ~InsertSubmit(r)
  <2>1. Current(r)' = Current(r) /\ pos[r] \in DOMAIN sending[r]
    BY <1>3, SendingStays, CurrentTyped DEF Current, InLoop
  <2>2. CASE q \in rows
    BY <1>3, <2>1, <2>2 DEF InsertsTheLatest, Get
  <2>3. ASSUME NEW p \in Requests, InsertSubmit(p), q = SubmitRow(p) PROVE FALSE
    <3>1. pos[p] \in DOMAIN sending[p] /\ Current(p) = Current(r)
      BY <2>1, <2>3, CurrentTyped DEF InsertSubmit, InLoop, SubmitRow
    <3>2. p = r
      BY <2>1, <3>1 DEF IdsIssuedOnce, Current
    <3> QED
      BY <1>3, <2>3, <3>2
  <2>4. ASSUME NEW m \in Messages, q = ReceiveRow(m) PROVE FALSE
    BY <2>4 DEF ReceiveRow, ReceiveStatus, SubmitStatuses
  <2> QED
    BY <2>2, <2>3, <2>4, NewRows
<1> QED
  BY <1>1, <1>2, <1>3

-----------------------------------------------------------------------------
(***************************************************************************)
(* What a handler has done, and the traces it relies on.                    *)
(***************************************************************************)

\* Only Trace adds to the traces table, and only what is under its cursor.
LEMMA NextTraceInv ==
  ASSUME TypeInv, IdsIssuedOnce, TraceInv, [Next]_vars
  PROVE  TraceInv'
<1> SUFFICES ASSUME NEW r \in Traced
             PROVE  /\ pc'[r] = "publish" => sending'[r][pos'[r]].id \in traces'
                    /\ \A k \in DOMAIN sending'[r] :
                         published'[sending'[r][k].id] > 0 => sending'[r][k].id \in traces'
  BY DEF TraceInv
<1>0. r \in Requests
  BY SenderAssumption
<1>1. ASSUME pc'[r] = "publish" PROVE sending'[r][pos'[r]].id \in traces'
  <2>1. /\ pc[r] # "new" /\ pos'[r] = pos[r]
        /\ pc[r] = "publish" \/ Current(r) \in traces'
    BY <1>0, <1>1, ArchiverMoves
    DEF Accept, Reject, ArchiverStep, Invoke, Stage, LoopFrom, Trace, Noted, Publish, StampSubmit,
        InsertSubmit, StoreSubmit, Crash, TypeInv, TypeOK, SenderTypeOK
  <2>2. sending'[r] = sending[r]
    BY <1>0, <2>1, SendingStays
  <2> QED
    BY <2>1, <2>2, StoresGrow DEF TraceInv, Current
<1>2. ASSUME NEW k \in DOMAIN sending'[r], published'[sending'[r][k].id] > 0
      PROVE  sending'[r][k].id \in traces'
  <2>1. k \in DOMAIN sending[r] /\ sending'[r][k] = sending[r][k]
    BY <1>0, <1>2, PublishedPlacesAreOld
  <2>2. CASE published[sending[r][k].id] > 0
    BY <2>1, <2>2, StoresGrow DEF TraceInv
  <2>3. CASE ~(published[sending[r][k].id] > 0)
    <3>1. Publish(r) /\ k = pos[r]
      BY <1>0, <1>2, <2>1, <2>3, FreshlyPublished
    <3> QED
      BY <2>1, <3>1, StoresGrow DEF Publish, TraceInv
  <2> QED
    BY <2>2, <2>3
<1> QED
  BY <1>1, <1>2

\* Records of a message that is past its insert stay.
LEMMA RecordedStays ==
  ASSUME TypeInv, [Next]_vars, NEW m \in Messages, Recorded(m),
         mid'[m] = mid[m], outcome'[m] = outcome[m]
  PROVE  \E row \in rows' : row.identifier = mid'[m] /\ row.status = ReceiveStatus(m)'
BY StoresGrow DEF Recorded, Get, ReceiveStatus

\* An answered identifier is not traced later than it was published.
LEMMA AnsweredTracesStay ==
  ASSUME TypeInv, IdsIssuedOnce, TraceInv, AnswersWereAsked, [Next]_vars,
         NEW m \in Messages, mpc[m] # "unsent", mid[m] \in traces'
  PROVE  mid[m] \in traces
<1>1. CASE \E r \in Traced : pc[r] = "trace" /\ Current(r) = mid[m]
  <2>1. PICK r \in Traced : pc[r] = "trace" /\ Current(r) = mid[m]
    BY <1>1
  <2>2. r \in Requests
    BY <2>1, SenderAssumption
  <2>3. pos[r] \in DOMAIN sending[r]
    BY <2>1, <2>2, CurrentTyped DEF InLoop
  <2> QED
    BY <2>1, <2>2, <2>3 DEF Current, TraceInv, AnswersWereAsked
<1>2. CASE mid[m] \notin traces
  <2> USE DEF storeVars, senderVars, receiverVars
  <2>1. ASSUME NEW r \in Requests, Accept(r) \/ Reject(r) \/ ArchiverStep(r) \/ Crash(r)
        PROVE  traces' = traces \/ (r \in Traced /\ pc[r] = "trace" /\ traces' = traces \union {Current(r)})
    BY <2>1 DEF ArchiverStep, Accept, Reject, Invoke, Stage, Trace, Noted, Publish,
                StampSubmit, InsertSubmit, StoreSubmit, Crash
  <2>2. CASE SenderNext
    BY <1>1, <1>2, <2>1, <2>2 DEF SenderNext, Administer
  <2>3. ASSUME NEW n \in Messages, HandlerStep(n) \/ HandlerCrash(n) \/ DaacAnswers(n)
        PROVE  UNCHANGED traces
    BY <2>3 DEF HandlerStep, HandlerCrash, DaacAnswers, Receive, Redrive, Lookup, StampReceive,
                InsertReceive, WriteResult, StoreReceive
  <2>4. CASE Tick \/ UNCHANGED vars
    BY <1>2, <2>4 DEF Tick, vars
  <2> QED
    BY <1>2, <2>2, <2>3, <2>4 DEF Next, ReceiverNext
<1> QED
  BY <1>2

\* A handler reaches its store step from the result step.
LEMMA NextHandlerInv ==
  ASSUME TypeInv, IdsIssuedOnce, TraceInv, AnswersWereAsked, HandlerInv, [Next]_vars
  PROVE  HandlerInv'
<1> SUFFICES ASSUME NEW m \in Messages
             PROVE  /\ mpc'[m] = "result" /\ ~failed'[m] => Recorded(m)'
                    /\ mpc'[m] = "store" =>
                         /\ Recorded(m)'
                         /\ outcome'[m] = "SUCCESS" /\ mid'[m] \in traces' =>
                              \E f \in results' : f.identifier = mid'[m]
  BY DEF HandlerInv
<1> USE DEF TypeInv, TypeOK, ReceiverTypeOK
<1>1. CASE InsertReceive(m)
  <2>1. mid'[m] = mid[m] /\ outcome'[m] = outcome[m] /\ mpc'[m] = "result"
    BY <1>1 DEF InsertReceive
  <2>2. ~failed'[m] => ReceiveRow(m) \in rows'
    BY <1>1 DEF InsertReceive, AddRow
  <2> QED
    BY <2>1, <2>2 DEF Recorded, Get, ReceiveRow, ReceiveStatus
<1>2. CASE WriteResult(m)
  <2>1. mid'[m] = mid[m] /\ outcome'[m] = outcome[m] /\ traces' = traces /\ mpc[m] = "result"
    BY <1>2 DEF WriteResult
  <2>2. mpc'[m] \in {"visible", "store"}
    BY <1>2 DEF WriteResult
  <2>3. mpc'[m] = "store" =>
          /\ ~failed[m]
          /\ outcome[m] = "SUCCESS" /\ mid[m] \in traces =>
               [identifier |-> mid[m], datetime |-> mstamp[m]] \in results'
    BY <1>2 DEF WriteResult
  <2>4. mpc'[m] = "store" => Recorded(m)'
    BY <2>1, <2>3, RecordedStays DEF HandlerInv, Recorded, Get
  <2> QED
    BY <2>1, <2>2, <2>3, <2>4
<1>3. CASE \/ Receive(m) \/ Redrive(m) \/ Lookup(m) \/ StampReceive(m) \/ StoreReceive(m)
           \/ HandlerCrash(m) \/ DaacAnswers(m)
  BY <1>3 DEF Receive, Redrive, Lookup, StampReceive, StoreReceive, HandlerCrash,
              DaacAnswers, Enqueue
<1>4. CASE /\ mpc'[m] = mpc[m] /\ mid'[m] = mid[m] /\ outcome'[m] = outcome[m]
           /\ failed'[m] = failed[m]
  <2>1. mpc'[m] = "result" /\ ~failed'[m] => Recorded(m)'
    BY <1>4, RecordedStays DEF HandlerInv, Recorded, Get
  <2>2. mpc'[m] = "store" => Recorded(m)'
    BY <1>4, RecordedStays DEF HandlerInv, Recorded, Get
  <2>3. mpc'[m] = "store" /\ outcome'[m] = "SUCCESS" /\ mid'[m] \in traces' =>
          \E f \in results' : f.identifier = mid'[m]
    BY <1>4, AnsweredTracesStay, StoresGrow DEF HandlerInv
  <2> QED
    BY <2>1, <2>2, <2>3
<1> QED
  BY <1>1, <1>2, <1>3, <1>4, HandlerMoves DEF HandlerStep

\* A response is deleted only by a handler that has left all its effects.
LEMMA NextDeletedMeansRecorded ==
  ASSUME TypeInv, IdsIssuedOnce, TraceInv, AnswersWereAsked, HandlerInv,
         DeletedMeansRecorded, [Next]_vars
  PROVE  DeletedMeansRecorded'
<1> SUFFICES ASSUME NEW m \in Messages, mpc'[m] = "deleted"
             PROVE  /\ Recorded(m)'
                    /\ \E object \in raw' : object[1] = mid'[m]
                    /\ outcome'[m] = "SUCCESS" =>
                         \A r \in Traced : \A k \in DOMAIN sending'[r] :
                           sending'[r][k].id = mid'[m] =>
                             \E f \in results' : f.identifier = mid'[m]
  BY DEF DeletedMeansRecorded, Recorded
<1> USE DEF TypeInv, TypeOK, ReceiverTypeOK
<1>1. \/ /\ mpc[m] = "deleted" /\ mid'[m] = mid[m] /\ outcome'[m] = outcome[m]
      \/ /\ mpc[m] = "store" /\ mid'[m] = mid[m] /\ outcome'[m] = outcome[m]
         /\ StoreRaw(mid[m])
  BY HandlerMoves
  DEF HandlerStep, HandlerCrash, DaacAnswers, Enqueue, Receive, Redrive, Lookup, StampReceive,
      InsertReceive, WriteResult, StoreReceive
<1>2. Recorded(m)'
  BY <1>1, RecordedStays DEF HandlerInv, DeletedMeansRecorded, Recorded, Get
<1>3. \E object \in raw' : object[1] = mid'[m]
  <2>1. CASE mpc[m] = "deleted"
    BY <1>1, <2>1, StoresGrow DEF DeletedMeansRecorded
  <2>2. CASE StoreRaw(mid[m])
    <3> DEFINE object == <<mid[m], now \div SecondLength>>
    <3>1. object \in raw' /\ object[1] = mid[m]
      BY <2>2 DEF StoreRaw
    <3> HIDE DEF object
    <3> QED
      BY <1>1, <3>1
  <2> QED
    BY <1>1, <2>1, <2>2
<1>4. ASSUME outcome'[m] = "SUCCESS", NEW r \in Traced, NEW k \in DOMAIN sending'[r],
             sending'[r][k].id = mid'[m]
      PROVE  \E f \in results' : f.identifier = mid'[m]
  <2>0. r \in Requests /\ mid[m] \in Ids
    BY SenderAssumption
  <2>1. published[mid[m]] > 0 /\ published'[mid'[m]] > 0
    BY <1>1, <2>0, StoresGrow DEF AnswersWereAsked
  <2>2. k \in DOMAIN sending[r] /\ sending'[r][k] = sending[r][k]
    BY <1>4, <2>0, <2>1, PublishedPlacesAreOld
  <2>3. mid[m] \in traces
    BY <1>1, <1>4, <2>1, <2>2 DEF TraceInv
  <2> QED
    BY <1>1, <1>4, <2>2, <2>3, StoresGrow DEF HandlerInv, DeletedMeansRecorded
<1> QED
  BY <1>2, <1>3, <1>4

-----------------------------------------------------------------------------
(***************************************************************************)
(* The inductive invariant as a whole, and what follows from it.            *)
(***************************************************************************)

\* The inductive invariant holds initially.
LEMMA InitDeliveryInv == Init => DeliveryInv
<1>1. Init => LoopInv /\ TraceInv /\ SendLoopLeavesNoGap /\ InsertsTheLatest
  BY SenderAssumption
  DEF Init, SenderInit, LoopInv, TraceInv, SendLoopLeavesNoGap, InLoop,
      InsertsTheLatest
<1>2. Init => AnswersWereAsked /\ HandlerInv /\ StatusesAreTrue /\ DeletedMeansRecorded
  BY DEF Init, StoresInit, ReceiverInit, AnswersWereAsked, HandlerInv, StatusesAreTrue,
         DeletedMeansRecorded
<1> QED
  BY <1>1, <1>2, InitTypeInv, InitOwnerInv, InitOrderInv DEF DeliveryInv

\* The inductive invariant is kept by every step: the lemmas above, together.
LEMMA NextDeliveryInv == DeliveryInv /\ [Next]_vars => DeliveryInv'
BY NextTypeInv, NextOwnerInv, NextOrderInv, NextLoopInv, NextTraceInv, NextAnswersWereAsked,
   NextHandlerInv, NextStatusesAreTrue, NextInsertsTheLatest, NextSendLoopLeavesNoGap, NextDeletedMeansRecorded
DEF DeliveryInv, OwnerInv, OrderInv

\* The strengthened invariant holds in every reachable state.
THEOREM DeliveryInvariant == Spec => []DeliveryInv
BY InitDeliveryInv, NextDeliveryInv, PTL DEF Spec

\* The row of a submission or of an answer that a step inserts is later than
\* the earliest row its identifier already has.
LEMMA NewRowsAreLater ==
  ASSUME DeliveryInv, [Next]_vars, NEW row \in rows', row \notin rows,
         NEW first \in Get(row.identifier),
         \A q \in Get(row.identifier) : first.datetime <= q.datetime
  PROVE  first.datetime < row.datetime
<1> USE DEF DeliveryInv, OrderInv, OwnerInv
<1>1. /\ TypeInv /\ first \in rows /\ first.identifier = row.identifier
      /\ first.datetime \in Nat
  BY TimesAreNat DEF Get
<1>2. ASSUME NEW m \in Messages, InsertReceive(m), row = ReceiveRow(m), ~Collides(row)
      PROVE  first.datetime < row.datetime
  <2>1. /\ mpc[m] = "insert" /\ row.identifier = mid[m] /\ row.datetime = mstamp[m]
        /\ mstamp[m] \in Nat
    BY <1>1, <1>2, TimesAreNat DEF InsertReceive, ReceiveRow
  <2>2. PICK q \in Get(mid[m]) : q.datetime <= mstamp[m]
    BY <2>1 DEF HandlersFollowASubmission, Identified
  <2>3. q.datetime \in Nat /\ first.datetime <= q.datetime
    BY <1>1, <2>1, <2>2, TimesAreNat DEF Get
  <2>4. first.datetime # mstamp[m]
    BY <1>1, <1>2, <2>1 DEF Collides
  <2> QED
    BY <1>1, <2>1, <2>2, <2>3, <2>4
<1>3. ASSUME NEW r \in Requests, InsertSubmit(r), row = SubmitRow(r), ~Collides(row)
      PROVE  first.datetime < row.datetime
  <2>1. /\ pc[r] = "insert" /\ row.identifier = Current(r) /\ row.datetime = stamp[r]
        /\ stamp[r] \in Nat
    BY <1>1, <1>3, TimesAreNat DEF InsertSubmit, SubmitRow
  <2>2. PICK q \in Get(Current(r)) : q.status \in SubmitStatuses
    BY <1>1, <2>1, RowsBeginWithASubmission
  <2>3. q.datetime <= stamp[r]
    BY <2>1, <2>2 DEF InsertsTheLatest
  <2>4. q.datetime \in Nat /\ first.datetime <= q.datetime
    BY <1>1, <2>1, <2>2, TimesAreNat DEF Get
  <2>5. first.datetime # stamp[r]
    BY <1>1, <1>3, <2>1 DEF Collides
  <2> QED
    BY <1>1, <2>1, <2>3, <2>4, <2>5
<1> QED
  BY <1>1, <1>2, <1>3, NewRows

\* existing_statuses[0] never changes: rows are inserted out of the order of
\* their stamps, but never before the first row of their identifier.
THEOREM FirstRowsStand == Spec => FirstRowStands
<1>1. ASSUME DeliveryInv, [Next]_vars, NEW i \in Ids, Get(i) # {}
      PROVE  Get(i)' # {} /\ Earliest(i)' = Earliest(i)
  <2>0. TypeInv /\ OrderInv
    BY <1>1 DEF DeliveryInv
  <2>1. PICK first \in Get(i) :
          first = Earliest(i) /\ \A q \in Get(i) : first.datetime <= q.datetime
    BY <1>1, <2>0, EarliestIsLeast
  <2> DEFINE Least(x) == \A q \in Get(i)' : x.datetime <= q.datetime
  <2>2. first \in Get(i)' /\ first \in rows
    BY <1>1, <2>0, <2>1, StoresGrow DEF Get
  <2>3. ASSUME NEW q \in Get(i)' PROVE q = first \/ first.datetime < q.datetime
    <3>1. CASE q \in rows
      <4>1. q \in Get(i) /\ q.datetime \in Nat /\ first.datetime \in Nat
        BY <2>0, <2>2, <3>1, TimesAreNat DEF Get
      <4>2. first.datetime # q.datetime \/ q = first
        BY <2>0, <2>1, <4>1 DEF Get, OrderInv, OneRowPerDatetime
      <4> QED
        BY <2>1, <4>1, <4>2
    <3>2. CASE q \notin rows
      <4>1. q.identifier = i /\ q \in rows'
        BY DEF Get
      <4> QED
        BY <1>1, <2>1, <3>2, <4>1, NewRowsAreLater
    <3> QED
      BY <3>1, <3>2
  <2>4. first.datetime \in Nat /\ \A q \in Get(i)' : q.datetime \in Nat
    <3>1. TypeInv'
      BY <1>1, <2>0, NextTypeInv
    <3>2. \A q \in rows' : q.datetime \in Nat
      BY <3>1 DEF TypeInv, TypeOK, StoresTypeOK, Row
    <3> QED
      BY <2>0, <2>2, <3>2, TimesAreNat DEF Get
  <2>5. Least(first)
    BY <2>3, <2>4
  <2>6. ASSUME NEW x \in Get(i)', Least(x) PROVE x = first
    BY <2>2, <2>3, <2>4, <2>6
  <2>7. (CHOOSE x \in Get(i)' : Least(x)) = first
    BY <2>2, <2>5, <2>6
  <2> QED
    BY <2>1, <2>2, <2>7 DEF Earliest
<1>2. DeliveryInv /\ [Next]_vars =>
        [\A i \in Ids : Get(i) # {} => Get(i)' # {} /\ Earliest(i)' = Earliest(i)]_rows
  BY <1>1
<1> QED
  BY <1>2, DeliveryInvariant, PTL DEF Spec, FirstRowStands

\* No status on record is invented: a success to submit was published, an
\* answer was given by the DAAC for that identifier.
THEOREM RecordedStatusesAreTrue == Spec => []StatusesAreTrue
<1>1. DeliveryInv => StatusesAreTrue
  BY DEF DeliveryInv
<1> QED
  BY <1>1, DeliveryInvariant, PTL

\* The send loop leaves no gap behind it, through failures, crashes, retries.
THEOREM SendLoopIsGapless == Spec => []SendLoopLeavesNoGap
<1>1. DeliveryInv => SendLoopLeavesNoGap
  BY DEF DeliveryInv
<1> QED
  BY <1>1, DeliveryInvariant, PTL

\* A response is deleted only when all its effects exist.
THEOREM DeletedResponsesAreRecorded == Spec => []DeletedMeansRecorded
<1>1. DeliveryInv => DeletedMeansRecorded
  BY DEF DeliveryInv
<1> QED
  BY <1>1, DeliveryInvariant, PTL

\* An identifier is published once per run of its event, whatever failed.
THEOREM SendsAreBounded == Spec => []SendsBoundedByRuns
<1>1. Init => RunsInv
  BY RunsInvInit DEF Init
<1>2. DeliveryInv /\ RunsInv /\ [Next]_vars => RunsInv'
  <2> SUFFICES ASSUME DeliveryInv, RunsInv, [Next]_vars PROVE RunsInv'
    OBVIOUS
  <2>1. SenderInv /\ IdsIssuedOnce
    BY TypeInvOfSender DEF DeliveryInv, OwnerInv
  <2>2. CASE UNCHANGED senderVars
    BY <2>2 DEF senderVars, RunsInv, SendsOf, ToSend, Runs
  <2> QED
    BY <2>1, <2>2, SenderMoves, SenderKeepsRuns
<1> QED
  BY <1>1, <1>2, RunsInvBounds, DeliveryInvariant, PTL DEF Spec

-----------------------------------------------------------------------------
(***************************************************************************)
(* The pipeline implements the abstract ledger: a publish is a Send, an     *)
(* insert records, an enqueued response is an Answer, an acceptance issues, *)
(* and every other step of either Lambda is invisible to the ledger.        *)
(***************************************************************************)

\* The answers of the refinement mapping; the sender's three are in
\* DaacSender_proofs.
answerSet == {<<mid[m], ReceiveStatus(m)>> : m \in {n \in Messages : mpc[n] # "unsent"}}

\* A step that enqueues no response leaves the answers alone.
LEMMA AnswersUnchanged ==
  ASSUME TypeInv, [Next]_vars,
         \A m \in Messages : mpc[m] = "unsent" => mpc'[m] = "unsent"
  PROVE  UNCHANGED answerSet
<1>1. ASSUME NEW m \in Messages, mpc[m] # "unsent"
      PROVE  mpc'[m] # "unsent" /\ mid'[m] = mid[m] /\ ReceiveStatus(m)' = ReceiveStatus(m)
  BY <1>1, SentMessagesStay
<1>2. \A m \in Messages : mpc'[m] # "unsent" <=> mpc[m] # "unsent"
  BY <1>1
<1> QED
  BY <1>1, <1>2 DEF answerSet

ledgerVars == <<issuedIds, sentIds, answerSet, ledgerSet>>

\* The next-state relation of the ledger, over the mapped variables.
LedgerStep ==
  \/ /\ \E new \in SUBSET (Ids \ issuedIds) : issuedIds' = issuedIds \union new
     /\ UNCHANGED <<sentIds, answerSet, ledgerSet>>
  \/ \E i \in issuedIds :
       /\ sentIds' = sentIds \union {i}
       /\ UNCHANGED <<issuedIds, answerSet, ledgerSet>>
  \/ \E i \in sentIds, s \in ReceiveStatuses :
       /\ answerSet' = answerSet \union {<<i, s>>}
       /\ UNCHANGED <<issuedIds, sentIds, ledgerSet>>
  \/ \E i \in issuedIds, s \in SubmitStatuses :
       /\ s = "cnm-submit-success" => i \in sentIds
       /\ ledgerSet' = ledgerSet \union {<<i, s>>}
       /\ UNCHANGED <<issuedIds, sentIds, answerSet>>
  \/ \E i \in Ids, s \in ReceiveStatuses :
       /\ <<i, s>> \in answerSet
       /\ \E t \in SubmitStatuses : <<i, t>> \in ledgerSet
       /\ ledgerSet' = ledgerSet \union {<<i, s>>}
       /\ UNCHANGED <<issuedIds, sentIds, answerSet>>

\* The sender's insert records a submission.
LEMMA SubmitStep ==
  ASSUME DeliveryInv, [Next]_vars, NEW r \in Requests, InsertSubmit(r), UNCHANGED receiverVars
  PROVE  LedgerStep \/ UNCHANGED ledgerVars
<1> USE DEF DeliveryInv
<1>1. UNCHANGED <<issuedIds, sentIds, answerSet>>
  BY IssuedUnchanged, SentUnchanged, AnswersUnchanged DEF InsertSubmit, receiverVars
<1>2. status[r] = "cnm-submit-success" => published[Current(r)] > 0
  BY DEF InsertSubmit, LoopInv, Current
<1>3. \/ UNCHANGED ledgerSet
      \/ /\ Current(r) \in issuedIds /\ status[r] \in SubmitStatuses
         /\ status[r] = "cnm-submit-success" => Current(r) \in sentIds
         /\ ledgerSet' = ledgerSet \union {<<Current(r), status[r]>>}
  BY <1>2, TypeInvOfSender, InsertSubmits
<1> QED
  BY <1>1, <1>3 DEF LedgerStep, ledgerVars

\* The receiver's insert records an answer that follows a submission.
LEMMA AnswerRecordStep ==
  ASSUME DeliveryInv, [Next]_vars, NEW m \in Messages, InsertReceive(m), UNCHANGED senderVars
  PROVE  LedgerStep \/ UNCHANGED ledgerVars
<1> USE DEF DeliveryInv
<1>0. mpc[m] = "insert" /\ mid[m] \in Ids /\ mpc' = [mpc EXCEPT ![m] = "result"]
  BY DEF InsertReceive, TypeInv, TypeOK, ReceiverTypeOK
<1>1. UNCHANGED <<issuedIds, sentIds, answerSet>>
  <2>1. \A n \in Messages : mpc[n] = "unsent" => mpc'[n] = "unsent"
    BY <1>0 DEF TypeInv, TypeOK, ReceiverTypeOK
  <2> QED
    BY <2>1, IssuedUnchanged, SentUnchanged, AnswersUnchanged DEF senderVars
<1>2. CASE UNCHANGED rows
  BY <1>1, <1>2, LedgerUnchanged DEF ledgerVars
<1>3. CASE rows' = rows \union {ReceiveRow(m)}
  <2>1. ledgerSet' = ledgerSet \union {<<mid[m], ReceiveStatus(m)>>}
    <3>1. ReceiveRow(m).identifier = mid[m] /\ ReceiveRow(m).status = ReceiveStatus(m)
      BY DEF ReceiveRow
    <3> QED
      BY <1>3, <3>1, InsertRecords
  <2>2. <<mid[m], ReceiveStatus(m)>> \in answerSet /\ ReceiveStatus(m) \in ReceiveStatuses
    BY <1>0 DEF answerSet, ReceiveStatus, ReceiveStatuses
  <2>3. \E t \in SubmitStatuses : <<mid[m], t>> \in ledgerSet
    <3>1. PICK q \in Get(mid[m]) : q.status \in SubmitStatuses
      BY <1>0 DEF OrderInv, HandlersFollowASubmission, Identified
    <3>2. q \in rows /\ q.identifier = mid[m]
      BY DEF Get
    <3>3. <<q.identifier, q.status>> \in ledgerSet
      BY <3>2 DEF ledgerSet
    <3> QED
      BY <3>1, <3>2, <3>3
  <2> QED
    BY <1>0, <1>1, <2>1, <2>2, <2>3 DEF LedgerStep
<1> QED
  BY <1>2, <1>3 DEF InsertReceive, AddRow, AddRowRaises

\* A response that reaches the queue is an answer to a sent identifier.
LEMMA AnswerStep ==
  ASSUME DeliveryInv, [Next]_vars, NEW m \in Messages, DaacAnswers(m)
  PROVE  LedgerStep
<1> USE DEF DeliveryInv, TypeInv, TypeOK, ReceiverTypeOK
<1>1. UNCHANGED <<issuedIds, sentIds, ledgerSet>>
  BY IssuedUnchanged, SentUnchanged, LedgerUnchanged DEF DaacAnswers, storeVars, senderVars
<1>2. PICK i \in Ids, o \in {"SUCCESS", "FAILURE"} : published[i] > 0 /\ Enqueue(m, i, o)
  BY DEF DaacAnswers
<1>3. /\ mpc[m] = "unsent" /\ mpc' = [mpc EXCEPT ![m] = "visible"]
      /\ mid' = [mid EXCEPT ![m] = i] /\ outcome' = [outcome EXCEPT ![m] = o]
  BY <1>2 DEF Enqueue
<1>4. \A n \in Messages : n # m =>
        mpc'[n] = mpc[n] /\ mid'[n] = mid[n] /\ ReceiveStatus(n)' = ReceiveStatus(n)
  BY <1>3 DEF ReceiveStatus
<1>5. mpc'[m] = "visible" /\ mid'[m] = i
  BY <1>3
<1>6. PICK s \in ReceiveStatuses : s = ReceiveStatus(m)'
  BY DEF ReceiveStatus, ReceiveStatuses
<1>7. answerSet' = answerSet \union {<<i, s>>}
  BY <1>3, <1>4, <1>5, <1>6 DEF answerSet
<1>8. i \in sentIds
  BY <1>2 DEF sentIds
<1> QED
  BY <1>1, <1>6, <1>7, <1>8 DEF LedgerStep

\* Every step of the pipeline is a step of the ledger or invisible to it.
LEMMA StepSimulation == DeliveryInv /\ [Next]_vars => LedgerStep \/ UNCHANGED ledgerVars
<1> SUFFICES ASSUME DeliveryInv, [Next]_vars PROVE LedgerStep \/ UNCHANGED ledgerVars
  OBVIOUS
<1>0. TypeInv /\ IdsIssuedOnce
  BY DEF DeliveryInv, OwnerInv
<1>1. ASSUME UNCHANGED receiverVars PROVE UNCHANGED answerSet
  BY <1>0, <1>1, AnswersUnchanged DEF receiverVars
<1>2. CASE SenderNext /\ UNCHANGED receiverVars
  <2>1. ASSUME NEW r \in Requests, Accept(r) PROVE LedgerStep
    <3>1. UNCHANGED <<sentIds, ledgerSet>>
      BY <2>1, SentUnchanged, LedgerUnchanged DEF Accept, storeVars
    <3>2. SenderInv /\ sending[r] = << >>
      BY <1>0, <2>1, TypeInvOfSender DEF Accept, IdsIssuedOnce
    <3> QED
      BY <1>1, <1>2, <2>1, <3>1, <3>2, AcceptIssues DEF LedgerStep
  <2>2. ASSUME NEW r \in Requests, Publish(r) PROVE LedgerStep \/ UNCHANGED ledgerVars
    <3>1. UNCHANGED <<issuedIds, ledgerSet>>
      BY <2>2, IssuedUnchanged, LedgerUnchanged DEF Publish, storeVars
    <3>2. SenderInv
      BY <1>0, TypeInvOfSender
    <3> QED
      BY <1>1, <1>2, <2>2, <3>1, <3>2, PublishSends DEF LedgerStep, ledgerVars
  <2>3. ASSUME NEW r \in Requests, InsertSubmit(r) PROVE LedgerStep \/ UNCHANGED ledgerVars
    BY <1>2, <2>3, SubmitStep
  <2>4. ASSUME UNCHANGED <<sending, published, rows>> PROVE UNCHANGED ledgerVars
    BY <1>1, <1>2, <2>4, IssuedUnchanged, SentUnchanged, LedgerUnchanged DEF ledgerVars
  <2>5. ASSUME NEW r \in Requests,
               \/ Reject(r) \/ Invoke(r) \/ Stage(r) \/ Trace(r) \/ StampSubmit(r)
               \/ StoreSubmit(r) \/ Crash(r)
        PROVE  UNCHANGED ledgerVars
    BY <2>4, <2>5 DEF Reject, Invoke, Stage, Trace, StampSubmit, StoreSubmit, Crash, storeVars
  <2>6. ASSUME Administer PROVE UNCHANGED ledgerVars
    BY <2>4, <2>6 DEF Administer, storeVars
  <2> QED
    BY <1>2, <2>1, <2>2, <2>3, <2>5, <2>6 DEF SenderNext, ArchiverStep
<1>3. CASE ReceiverNext /\ UNCHANGED senderVars
  <2>1. PICK m \in Messages : HandlerStep(m) \/ HandlerCrash(m)
    BY <1>3 DEF ReceiverNext
  <2>2. CASE InsertReceive(m)
    BY <1>3, <2>2, AnswerRecordStep
  <2>3. CASE /\ UNCHANGED rows
             /\ \A n \in Messages : mpc[n] = "unsent" => mpc'[n] = "unsent"
    BY <1>0, <1>3, <2>3, IssuedUnchanged, SentUnchanged, AnswersUnchanged, LedgerUnchanged
    DEF senderVars, ledgerVars
  <2>4. CASE \/ Receive(m) \/ Redrive(m) \/ Lookup(m) \/ StampReceive(m) \/ WriteResult(m)
             \/ StoreReceive(m) \/ HandlerCrash(m)
    <3>1. UNCHANGED rows
      BY <2>4 DEF Receive, Redrive, Lookup, StampReceive, WriteResult, StoreReceive,
                  HandlerCrash, storeVars
    <3>2. ASSUME NEW n \in Messages, mpc[n] = "unsent" PROVE mpc'[n] = "unsent"
      BY <1>0, <2>4, <3>2
      DEF Receive, Redrive, Lookup, StampReceive, WriteResult, StoreReceive, HandlerCrash,
          Handling, TypeInv, TypeOK, ReceiverTypeOK
    <3> QED
      BY <2>3, <3>1, <3>2
  <2> QED
    BY <2>1, <2>2, <2>4 DEF HandlerStep
<1>4. CASE \E m \in Messages : DaacAnswers(m)
  BY <1>4, AnswerStep
<1>5. ASSUME UNCHANGED <<sending, published, rows, receiverVars>> PROVE UNCHANGED ledgerVars
  BY <1>1, <1>5, IssuedUnchanged, SentUnchanged, LedgerUnchanged DEF ledgerVars
<1>6. CASE (Tick /\ UNCHANGED <<senderVars, receiverVars>>) \/ UNCHANGED vars
  BY <1>5, <1>6 DEF Tick, vars, storeVars, senderVars, receiverVars
<1> QED
  BY <1>2, <1>3, <1>4, <1>5, <1>6 DEF Next

\* The initial states of the pipeline are those of the ledger.
LEMMA InitSimulation == Init => Ledger!Init
BY DEF Init, StoresInit, SenderInit, ReceiverInit, Ledger!Init, Issued

\* The step over the mapped variables is the ledger's next-state relation.
LEMMA LedgerStepRefines == LedgerStep => Ledger!Next
BY DEF LedgerStep, issuedIds, sentIds, answerSet, ledgerSet, Ledger!Next, Ledger!Issue,
       Ledger!Send, Ledger!Answer, Ledger!Submitted, Ledger!RecordSubmit, Ledger!RecordAnswer

\* The pipeline implements the ledger: what it records is what a queue-less,
\* crash-less delivery service could have recorded.
THEOREM DeliveryImplementsLedger == Spec => ImplementsLedger
<1>1. DeliveryInv /\ [Next]_vars => [Ledger!Next]_Ledger!vars
  BY StepSimulation, LedgerStepRefines
  DEF ledgerVars, issuedIds, sentIds, answerSet, ledgerSet, Ledger!vars
<1> QED
  BY <1>1, InitSimulation, DeliveryInvariant, PTL DEF Spec, ImplementsLedger, Ledger!Spec
=============================================================================
