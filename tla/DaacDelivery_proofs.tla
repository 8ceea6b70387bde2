------------------------ MODULE DaacDelivery_proofs ------------------------
(***************************************************************************)
(* Machine-checked safety of the delivery, for every number of requests,    *)
(* identifiers, responses, retries and receives and every set of failing    *)
(* services.                                                                *)
(***************************************************************************)
EXTENDS DaacDeliveryInv, DaacSender_proofs, WellFoundedInduction, TLAPS

\* What the delivery's types say of the request side.
LEMMA TypeInvOfSender == TypeInv <=> SenderInv /\ ReceiverTypeOK
  BY DEF TypeInv, TypeOK, SenderInv

LEMMA SendingIdsDictFresh ==
  ASSUME TypeInv, NEW s \in SendingIdsDict
  PROVE  /\ s \in Seq(PreReq)
         /\ \A j, k \in DOMAIN s : s[j].id = s[k].id => j = k
         /\ \A k \in DOMAIN s : ~Issued(s[k].id)
  BY TypeInvOfSender, SendingIdsAreFresh

LEMMA CurrentTyped ==
  ASSUME TypeInv, NEW r \in Requests, pc[r] \in InLoop
  PROVE  /\ pos[r] \in DOMAIN sending[r]
         /\ sending[r][pos[r]] \in PreReq
         /\ Current(r) \in Ids
         /\ SubmitRow(r) \in Row
  BY TypeInvOfSender, CursorTyped

\* The type invariant holds initially.
LEMMA InitTypeInv == Init => TypeInv
<1>1. Init => ReceiverTypeOK
  BY StoresAssumption, ReceiverAssumption DEF Init, ReceiverInit, ReceiverTypeOK
<1>2. Init => SenderInv
  BY SenderInitTyped DEF Init
<1> QED
  BY <1>1, <1>2, TypeInvOfSender

\* The archiver and its API keep the type invariant.
LEMMA SenderTypeInv == TypeInv /\ SenderNext /\ UNCHANGED receiverVars => TypeInv'
<1> SUFFICES ASSUME TypeInv, SenderNext, UNCHANGED receiverVars PROVE TypeInv'
  OBVIOUS
<1>1. SenderInv'
  BY TypeInvOfSender, SenderKeepsTypes
<1>2. ReceiverTypeOK'
  BY DEF ReceiverTypeOK, receiverVars, TypeInv, TypeOK
<1> QED
  BY <1>1, <1>2 DEF TypeInv, TypeOK, SenderInv

\* A set of naturals has a least element.
LEMMA LeastNatural ==
  ASSUME NEW T \in SUBSET Nat, T # {}
  PROVE  \E x \in T : \A y \in T : x <= y
<1> DEFINE Before == OpToRel(<, Nat)
<1>1. PICK x \in T : \A y \in T : ~(<<y, x>> \in Before)
  <2>1. IsWellFoundedOn(Before, Nat)
    BY NatLessThanWellFounded
  <2> HIDE DEF Before
  <2> QED
    BY <2>1, WFMin
<1>2. \A y \in T : ~(y < x)
  BY <1>1, Zenon DEF OpToRel
<1>3. \A y \in T : y \in Nat /\ x \in Nat
  OBVIOUS
<1> QED
  BY <1>2, <1>3

\* The least element of a non-empty set of rows.
LEMMA EarliestRow ==
  ASSUME NEW S \in SUBSET Row, S # {}
  PROVE  \E r \in S : \A q \in S : r.datetime <= q.datetime
<1> DEFINE T == {r.datetime : r \in S}
<1>1. T \in SUBSET Nat /\ T # {}
  BY DEF Row
<1>2. \A q \in S : q.datetime \in T
  OBVIOUS
<1>3. \A t \in T : \E r \in S : r.datetime = t
  OBVIOUS
<1> HIDE DEF T
<1>4. PICK t \in T : \A u \in T : t <= u
  BY <1>1, LeastNatural
<1> QED
  BY <1>2, <1>3, <1>4

\* Of one identifier.
LEMMA EarliestIsLeast ==
  ASSUME TypeInv, NEW i, Get(i) # {}
  PROVE  Earliest(i) \in Get(i) /\ \A q \in Get(i) : Earliest(i).datetime <= q.datetime
<1>1. Get(i) \in SUBSET Row
  BY DEF Get, TypeInv, TypeOK, StoresTypeOK
<1> QED
  BY <1>1, EarliestRow DEF Earliest

\* The row a handler is about to insert is well formed.
LEMMA ReceiveRowTyped ==
  ASSUME TypeInv, NEW m \in Messages
  PROVE  ReceiveRow(m) \in Row
BY StoresAssumption
DEF TypeInv, TypeOK, ReceiverTypeOK, ReceiveRow, Row, ReceiveStatus, Statuses, ReceiveStatuses

\* The queue and the response Lambda keep the type invariant.
LEMMA ReceiverTypeInv == TypeInv /\ ReceiverNext /\ UNCHANGED senderVars => TypeInv'
<1> SUFFICES ASSUME TypeInv, NEW m \in Messages, HandlerStep(m) \/ HandlerCrash(m),
                    UNCHANGED senderVars
             PROVE TypeInv'
  BY DEF ReceiverNext
<1>0. SenderTypeOK' /\ PosNamesAnIdentifier'
  BY DEF TypeInv, TypeOK, SenderTypeOK, PosNamesAnIdentifier, senderVars
<1> SUFFICES StoresTypeOK' /\ ReceiverTypeOK'
  BY <1>0 DEF TypeInv, TypeOK
<1> USE DEF TypeInv, TypeOK, ReceiverTypeOK, storeVars, Handling
<1>1. CASE Receive(m)
  BY <1>1, ReceiverAssumption DEF Receive, StoresTypeOK
<1>2. CASE Redrive(m)
  BY <1>2 DEF Redrive, StoresTypeOK
<1>3. CASE Lookup(m)
  <2>1. Get(mid[m]) # {} => Earliest(mid[m]).subject \in Subject
    BY EarliestIsLeast DEF Get, StoresTypeOK, Row
  <2> QED
    BY <1>3, <2>1 DEF Lookup, StoresTypeOK
<1>4. CASE StampReceive(m)
  BY <1>4 DEF StampReceive, StoresTypeOK
<1>5. CASE InsertReceive(m)
  BY <1>5, ReceiveRowTyped DEF InsertReceive, AddRow, AddRowRaises, StoresTypeOK
<1>6. CASE WriteResult(m)
  <2>1. [identifier |-> mid[m], datetime |-> mstamp[m]] \in [identifier: Ids, datetime: Nat]
    BY StoresAssumption
  <2>2. StoresTypeOK'
    BY <1>6, <2>1 DEF WriteResult, StoresTypeOK
  <2>3. mpc' \in [Messages -> {"unsent", "visible", "deleted", "dlq"} \union Handling]
    BY <1>6 DEF WriteResult
  <2> QED
    BY <1>6, <2>2, <2>3 DEF WriteResult
<1>7. CASE StoreReceive(m)
  <2>1. now \div SecondLength \in Nat
    BY TypeInvOfSender, SecondIsNatural
  <2> QED
    BY <1>7, <2>1 DEF StoreReceive, StoreRaw, StoresTypeOK
<1>8. CASE HandlerCrash(m)
  BY <1>8 DEF HandlerCrash, StoresTypeOK
<1> QED
  BY <1>1, <1>2, <1>3, <1>4, <1>5, <1>6, <1>7, <1>8 DEF HandlerStep

\* Every step of the delivery keeps the type invariant.
LEMMA NextTypeInv == TypeInv /\ [Next]_vars => TypeInv'
<1> SUFFICES ASSUME TypeInv, [Next]_vars PROVE TypeInv'
  OBVIOUS
<1>1. CASE SenderNext /\ UNCHANGED receiverVars
  BY <1>1, SenderTypeInv
<1>2. CASE ReceiverNext /\ UNCHANGED senderVars
  BY <1>2, ReceiverTypeInv
<1>3. ASSUME NEW m \in Messages, DaacAnswers(m) PROVE TypeInv'
  <2>1. UNCHANGED <<storeVars, senderVars>>
    BY <1>3 DEF DaacAnswers, Enqueue
  <2>2. StoresTypeOK' /\ SenderTypeOK' /\ PosNamesAnIdentifier'
    BY <2>1 DEF TypeInv, TypeOK, StoresTypeOK, SenderTypeOK, PosNamesAnIdentifier, storeVars,
                senderVars
  <2>3. ReceiverTypeOK'
    BY <1>3 DEF DaacAnswers, Enqueue, TypeInv, TypeOK, ReceiverTypeOK
  <2> QED
    BY <2>2, <2>3 DEF TypeInv, TypeOK
<1>4. CASE Tick /\ UNCHANGED <<senderVars, receiverVars>>
  BY <1>4, StoresAssumption DEF Tick, TypeInv, TypeOK, StoresTypeOK, SenderTypeOK, ReceiverTypeOK,
              PosNamesAnIdentifier, senderVars, receiverVars
<1>5. CASE UNCHANGED vars
  BY <1>5 DEF vars, TypeInv, TypeOK, StoresTypeOK, SenderTypeOK, ReceiverTypeOK,
              PosNamesAnIdentifier, storeVars, senderVars, receiverVars
<1> QED
  BY <1>1, <1>2, <1>3, <1>4, <1>5 DEF Next

\* Every reachable state is well typed, whatever the sizes of the instance.
THEOREM TypeCorrect == Spec => []TypeOK
<1>1. TypeInv => TypeOK
  BY DEF TypeInv
<1> QED
  BY <1>1, InitTypeInv, NextTypeInv, PTL DEF Spec

-----------------------------------------------------------------------------
(***************************************************************************)
(* What one step of the whole system may do to the stores, to one archiver  *)
(* and to one handler.                                                      *)
(***************************************************************************)

\* Nothing leaves the stores, nothing is unpublished, and time moves forward.
LEMMA StoresGrow ==
  ASSUME TypeInv, [Next]_vars
  PROVE  /\ now \in Nat /\ now' \in Nat /\ now <= now'
         /\ rows \subseteq rows'
         /\ traces \subseteq traces'
         /\ results \subseteq results'
         /\ raw \subseteq raw'
         /\ \A i \in Ids : published[i] > 0 => published'[i] > 0
<1> USE DEF TypeInv, TypeOK, StoresTypeOK, SenderTypeOK, storeVars, senderVars, receiverVars
<1>0. now \in Nat /\ now' \in Nat
  BY NextTypeInv, StoresAssumption
<1>1. ASSUME NEW r \in Requests,
             Accept(r) \/ Reject(r) \/ Invoke(r) \/ Stage(r) \/ Crash(r) \/ StampSubmit(r)
      PROVE  UNCHANGED <<storeVars, published>>
  BY <1>1 DEF Accept, Reject, Invoke, Stage, Crash, StampSubmit
<1>2. ASSUME NEW r \in Requests, Publish(r)
      PROVE  UNCHANGED storeVars /\ \A i \in Ids : published[i] > 0 => published'[i] > 0
  <2>1. Current(r) \in Ids
    BY <1>2, CurrentTyped DEF Publish, InLoop
  <2> QED
    BY <1>2, <2>1 DEF Publish
<1>3. ASSUME NEW r \in Requests, Trace(r) \/ InsertSubmit(r) \/ StoreSubmit(r)
      PROVE  /\ UNCHANGED <<now, results, published>>
             /\ rows \subseteq rows' /\ traces \subseteq traces' /\ raw \subseteq raw'
  BY <1>3 DEF Trace, Noted, InsertSubmit, StoreSubmit, AddRow, AddRowRaises, StoreRaw
<1>4. ASSUME NEW m \in Messages, HandlerStep(m) \/ HandlerCrash(m), UNCHANGED senderVars
      PROVE  /\ UNCHANGED <<now, traces, published>>
             /\ rows \subseteq rows' /\ results \subseteq results' /\ raw \subseteq raw'
  BY <1>4 DEF HandlerStep, HandlerCrash, Receive, Redrive, Lookup, StampReceive,
              InsertReceive, WriteResult, StoreReceive, AddRow, AddRowRaises, StoreRaw
<1>5. CASE SenderNext /\ UNCHANGED receiverVars
  BY <1>0, <1>1, <1>2, <1>3, <1>5 DEF SenderNext, ArchiverStep, Administer
<1>6. CASE ReceiverNext /\ UNCHANGED senderVars
  BY <1>0, <1>4, <1>6 DEF ReceiverNext
<1>7. CASE \E m \in Messages : DaacAnswers(m)
  BY <1>0, <1>7 DEF DaacAnswers
<1>8. CASE Tick /\ UNCHANGED <<senderVars, receiverVars>>
  BY <1>0, <1>8 DEF Tick
<1>9. CASE UNCHANGED vars
  BY <1>0, <1>9 DEF vars
<1> QED
  BY <1>5, <1>6, <1>7, <1>8, <1>9 DEF Next

\* Only the two inserts add rows, each its own, and only under a free datetime.
LEMMA NewRows ==
  ASSUME TypeInv, [Next]_vars, NEW row \in rows', row \notin rows
  PROVE  \/ \E r \in Requests : InsertSubmit(r) /\ row = SubmitRow(r) /\ ~Collides(row)
         \/ \E m \in Messages : InsertReceive(m) /\ row = ReceiveRow(m) /\ ~Collides(row)
<1> USE DEF storeVars, senderVars, receiverVars
<1>1. CASE SenderNext /\ UNCHANGED receiverVars
  <2>1. PICK r \in Requests : InsertSubmit(r)
    BY <1>1 DEF SenderNext, ArchiverStep, Accept, Reject, Invoke, Stage, Trace, Publish,
                StampSubmit, StoreSubmit, Crash, Administer
  <2> QED
    BY <2>1 DEF InsertSubmit, AddRow, AddRowRaises
<1>2. CASE ReceiverNext /\ UNCHANGED senderVars
  <2>1. PICK m \in Messages : InsertReceive(m)
    BY <1>2 DEF ReceiverNext, HandlerStep, HandlerCrash, Receive, Redrive, Lookup,
                StampReceive, WriteResult, StoreReceive
  <2> QED
    BY <2>1 DEF InsertReceive, AddRow, AddRowRaises
<1>3. CASE \E m \in Messages : DaacAnswers(m)
  BY <1>3 DEF DaacAnswers
<1>4. CASE Tick /\ UNCHANGED <<senderVars, receiverVars>>
  BY <1>4 DEF Tick
<1>5. CASE UNCHANGED vars
  BY <1>5 DEF vars
<1> QED
  BY <1>1, <1>2, <1>3, <1>4, <1>5 DEF Next

\* A message moves by a step of its own queue or handler, or stays as it is.
LEMMA HandlerMoves ==
  ASSUME TypeInv, [Next]_vars, NEW m \in Messages
  PROVE  \/ HandlerStep(m) /\ UNCHANGED senderVars
         \/ HandlerCrash(m) /\ UNCHANGED senderVars
         \/ DaacAnswers(m)
         \/ /\ mpc'[m] = mpc[m] /\ mid'[m] = mid[m] /\ outcome'[m] = outcome[m]
            /\ subject'[m] = subject[m] /\ mstamp'[m] = mstamp[m] /\ failed'[m] = failed[m]
<1> USE DEF TypeInv, TypeOK, ReceiverTypeOK, storeVars, senderVars, receiverVars
<1>1. ASSUME NEW n \in Messages, n # m, HandlerStep(n) \/ HandlerCrash(n) \/ DaacAnswers(n)
      PROVE  /\ mpc'[m] = mpc[m] /\ mid'[m] = mid[m] /\ outcome'[m] = outcome[m]
             /\ subject'[m] = subject[m] /\ mstamp'[m] = mstamp[m] /\ failed'[m] = failed[m]
  BY <1>1 DEF HandlerStep, HandlerCrash, DaacAnswers, Enqueue, Receive, Redrive, Lookup,
              StampReceive, InsertReceive, WriteResult, StoreReceive
<1>2. CASE ReceiverNext /\ UNCHANGED senderVars
  BY <1>1, <1>2 DEF ReceiverNext
<1>3. CASE \E n \in Messages : DaacAnswers(n)
  BY <1>1, <1>3
<1>4. CASE UNCHANGED receiverVars
  BY <1>4
<1> QED
  BY <1>2, <1>3, <1>4 DEF Next, vars

\* A request moves by a step of its own, or stays as it is.
LEMMA ArchiverMoves ==
  ASSUME TypeInv, [Next]_vars, NEW r \in Requests
  PROVE  \/ Accept(r) \/ Reject(r) \/ ArchiverStep(r) \/ Crash(r)
         \/ /\ pc'[r] = pc[r] /\ pos'[r] = pos[r] /\ status'[r] = status[r]
            /\ stamp'[r] = stamp[r] /\ sending'[r] = sending[r]
<1> USE DEF TypeInv, TypeOK, SenderTypeOK, storeVars, senderVars, receiverVars
<1>1. ASSUME NEW q \in Requests, q # r,
             Accept(q) \/ Reject(q) \/ ArchiverStep(q) \/ Crash(q)
      PROVE  /\ pc'[r] = pc[r] /\ pos'[r] = pos[r] /\ status'[r] = status[r]
             /\ stamp'[r] = stamp[r] /\ sending'[r] = sending[r]
  BY <1>1 DEF Accept, Reject, ArchiverStep, Invoke, Stage, Trace, Publish, StampSubmit,
              InsertSubmit, StoreSubmit, Crash
<1>2. CASE SenderNext
  BY <1>1, <1>2 DEF SenderNext, Administer
<1>3. CASE UNCHANGED senderVars
  BY <1>3
<1>4. ASSUME NEW m \in Messages, DaacAnswers(m) PROVE UNCHANGED senderVars
  BY <1>4 DEF DaacAnswers
<1> QED
  BY <1>2, <1>3, <1>4 DEF Next, vars

\* Identifiers are only ever given to a request that had none.
LEMMA SendingMoves ==
  ASSUME TypeInv, [Next]_vars
  PROVE  \/ sending' = sending
         \/ \E r \in Requests : \E s \in SendingIdsDict :
              /\ pc[r] = "new" /\ pc'[r] # "new"
              /\ sending' = [sending EXCEPT ![r] = s]
<1> USE DEF TypeInv, TypeOK, SenderTypeOK, storeVars, senderVars, receiverVars
<1>1. ASSUME NEW r \in Requests, Accept(r)
      PROVE  \E s \in SendingIdsDict :
               pc[r] = "new" /\ pc'[r] # "new" /\ sending' = [sending EXCEPT ![r] = s]
  BY <1>1 DEF Accept
<1>2. CASE SenderNext
  BY <1>1, <1>2 DEF SenderNext, ArchiverStep, Reject, Invoke, Stage, Trace, Publish,
                StampSubmit, InsertSubmit, StoreSubmit, Crash, Administer
<1>3. CASE UNCHANGED senderVars
  BY <1>3
<1>4. ASSUME NEW m \in Messages, DaacAnswers(m) PROVE UNCHANGED senderVars
  BY <1>4 DEF DaacAnswers
<1> QED
  BY <1>2, <1>3, <1>4 DEF Next, vars
=============================================================================
