-------------------------- MODULE DaacSender_proofs --------------------------
(***************************************************************************)
(* The request side, for both specifications that run it (the delivery and  *)
(* the collection job): its types, that identifiers are issued once, and    *)
(* how often each is sent.                                                  *)
(***************************************************************************)
EXTENDS DaacSender, FiniteSetTheorems, TLAPS

\* The stores and the archivers are well typed, and the cursor of a send loop is
\* on an identifier.
SenderInv == StoresTypeOK /\ SenderTypeOK /\ PosNamesAnIdentifier

\* The uuid dictionary of generate_sending_ids_dict is a sequence of
\* prerequisites with pairwise different, never issued identifiers.
LEMMA SendingIdsAreFresh ==
  ASSUME SenderInv, NEW s \in SendingIdsDict
  PROVE  /\ s \in Seq(PreReq)
         /\ \A j, k \in DOMAIN s : s[j].id = s[k].id => j = k
         /\ \A k \in DOMAIN s : ~Issued(s[k].id)
<1>1. Cardinality(Wanted) \in Nat
  <2>1. authorised \subseteq Targets
    BY DEF SenderInv, SenderTypeOK
  <2>2. IsFiniteSet(authorised)
    BY <2>1, FS_Subset, StoresAssumption
  <2>3. IsFiniteSet(authorised \X Files)
    BY <2>2, FS_Product, SenderAssumption
  <2>4. Wanted \subseteq authorised \X Files
    BY DEF Wanted
  <2> QED
    BY <2>3, <2>4, FS_Subset, FS_CardinalityType
<1> DEFINE n == Cardinality(Wanted)
           fresh == {i \in Ids : ~Issued(i)}
<1>2. PICK order \in Injection(1..n, Wanted), ids \in Injection(1..n, fresh) :
        s = [k \in 1..n |-> [id |-> ids[k], target |-> order[k][1], file |-> order[k][2]]]
  BY DEF SendingIdsDict, Injection
<1>3. \A k \in 1..n : order[k] \in authorised \X Files /\ ids[k] \in fresh
  BY <1>2 DEF Wanted, Injection
<1>4. \A k \in 1..n : s[k] \in PreReq
  BY <1>2, <1>3 DEF PreReq, SenderInv, SenderTypeOK
<1>5. DOMAIN s = 1..n /\ s \in [1..n -> PreReq]
  BY <1>2, <1>4
<1>6. s \in Seq(PreReq)
  BY <1>1, <1>5
<1>7. \A k \in DOMAIN s : s[k].id = ids[k]
  BY <1>2, <1>5
<1> QED
  BY <1>2, <1>3, <1>5, <1>6, <1>7 DEF Injection, IsInjective

\* The one-second stamp of a raw object is a natural number.
LEMMA SecondIsNatural ==
  ASSUME SenderInv
  PROVE  now \div SecondLength \in Nat
<1>1. ASSUME NEW a \in Nat, NEW b \in Nat \ {0} PROVE a \div b \in Nat
  OBVIOUS
<1>2. now \in Nat
  BY StoresAssumption DEF SenderInv, StoresTypeOK
<1> QED
  BY <1>1, <1>2, StoresAssumption

\* The prerequisite under the cursor, while the archiver is in its loop.
LEMMA CursorTyped ==
  ASSUME SenderInv, NEW r \in Requests, pc[r] \in InLoop
  PROVE  /\ pos[r] \in DOMAIN sending[r]
         /\ sending[r][pos[r]] \in PreReq
         /\ Current(r) \in Ids
         /\ SubmitRow(r) \in Row
<1>1. pos[r] \in DOMAIN sending[r]
  BY DEF SenderInv, PosNamesAnIdentifier
<1>2. sending[r] \in Seq(PreReq)
  BY DEF SenderInv, SenderTypeOK
<1>3. sending[r][pos[r]] \in PreReq
  BY <1>1, <1>2
<1>4. ItemOf[r] \in Items /\ stamp[r] \in Nat /\ status[r] \in Statuses
  BY StoresAssumption, SenderAssumption DEF SenderInv, SenderTypeOK, StoresTypeOK, Statuses
<1> QED
  BY <1>1, <1>3, <1>4 DEF PreReq, Current, SubmitRow, Row, Subject

\* LoopFrom only enters the loop where there is an identifier.
LEMMA LoopStaysTyped ==
  ASSUME SenderInv, NEW r \in Requests, NEW k \in Nat \ {0}
  PROVE  /\ LoopFrom(r, k) \in {"trace", "finished"}
         /\ LoopFrom(r, k) \in InLoop => k \in DOMAIN sending[r]
<1>1. sending[r] \in Seq(PreReq)
  BY DEF SenderInv, SenderTypeOK
<1>2. DOMAIN sending[r] = 1..Len(sending[r]) /\ Len(sending[r]) \in Nat
  BY <1>1
<1> QED
  BY <1>2 DEF LoopFrom, InLoop

\* They are so initially.
LEMMA SenderInitTyped == StoresInit /\ SenderInit => SenderInv
  BY StoresAssumption, SenderAssumption
  DEF StoresInit, StoresTypeOK, SenderInit, SenderTypeOK, SubmitStatuses, SenderInv,
      PosNamesAnIdentifier, InLoop

\* The archiver and its API keep the type invariant: one step per handler.
LEMMA SenderKeepsTypes == SenderInv /\ SenderNext => SenderInv'
<1> SUFFICES ASSUME SenderInv, SenderNext PROVE SenderInv'
  OBVIOUS
<1> USE DEF SenderInv, SenderTypeOK, PosNamesAnIdentifier, storeVars
<1>1. ASSUME NEW r \in Requests, Accept(r) PROVE SenderInv'
  <2>1. PICK s \in SendingIdsDict : sending' = [sending EXCEPT ![r] = s]
    BY <1>1 DEF Accept
  <2>2. s \in Seq(PreReq)
    BY SendingIdsAreFresh
  <2>3. pc'[r] \notin InLoop /\ pc[r] \notin InLoop
    BY <1>1 DEF Accept, InLoop
  <2> QED
    BY <1>1, <2>1, <2>2, <2>3 DEF Accept, StoresTypeOK, Running, Settled
<1>2. ASSUME NEW r \in Requests, Reject(r) PROVE SenderInv'
  BY <1>2 DEF Reject, StoresTypeOK, Running, Settled, InLoop
<1>3. ASSUME NEW r \in Requests, Invoke(r) PROVE SenderInv'
  BY <1>3, SenderAssumption DEF Invoke, StoresTypeOK, Running, Settled, InLoop
<1>4. ASSUME NEW r \in Requests, Stage(r) PROVE SenderInv'
  <2>1. /\ LoopFrom(r, pos[r]) \in {"trace", "finished"}
        /\ LoopFrom(r, pos[r]) \in InLoop => pos[r] \in DOMAIN sending[r]
    BY LoopStaysTyped
  <2>2. /\ \A q \in Requests : q # r => pc'[q] = pc[q]
        /\ pc'[r] \in {LoopFrom(r, pos[r]), "aborted"}
        /\ pc' \in [Requests -> {"new", "queued"} \union Running \union Settled]
        /\ UNCHANGED <<storeVars, authorised, sending, pos, status, stamp, attempts, published>>
    BY <1>4, <2>1 DEF Stage, Running, Settled
  <2>3. PosNamesAnIdentifier'
    BY <2>1, <2>2 DEF InLoop
  <2> QED
    BY <2>2, <2>3 DEF StoresTypeOK
<1>5. ASSUME NEW r \in Requests, Trace(r) PROVE SenderInv'
  <2>1. Current(r) \in Ids /\ pos[r] \in DOMAIN sending[r]
    BY <1>5, CursorTyped DEF Trace, InLoop
  <2>2. StoresTypeOK'
    BY <1>5, <2>1 DEF Trace, Noted, StoresTypeOK
  <2> QED
    BY <1>5, <2>1, <2>2 DEF Trace, Running, Settled, InLoop, SubmitStatuses
<1>6. ASSUME NEW r \in Requests, Publish(r) PROVE SenderInv'
  <2>1. Current(r) \in Ids /\ pos[r] \in DOMAIN sending[r]
    BY <1>6, CursorTyped DEF Publish, InLoop
  <2>2. published' \in [Ids -> Nat]
    BY <1>6, <2>1 DEF Publish
  <2>3. pc' = [pc EXCEPT ![r] = "stamp"] /\ status' \in [Requests -> SubmitStatuses]
    BY <1>6 DEF Publish, SubmitStatuses
  <2> QED
    BY <1>6, <2>1, <2>2, <2>3 DEF Publish, StoresTypeOK, Running, Settled, InLoop
<1>7. ASSUME NEW r \in Requests, StampSubmit(r) PROVE SenderInv'
  BY <1>7 DEF StampSubmit, StoresTypeOK, Running, Settled, InLoop
<1>8. ASSUME NEW r \in Requests, InsertSubmit(r) PROVE SenderInv'
  <2>1. SubmitRow(r) \in Row /\ pos[r] \in DOMAIN sending[r]
    BY <1>8, CursorTyped DEF InsertSubmit, InLoop
  <2>2. StoresTypeOK'
    BY <1>8, <2>1 DEF InsertSubmit, AddRow, AddRowRaises, StoresTypeOK
  <2> QED
    BY <1>8, <2>1, <2>2 DEF InsertSubmit, Running, Settled, InLoop
<1>9. ASSUME NEW r \in Requests, StoreSubmit(r) PROVE SenderInv'
  <2>1. Current(r) \in Ids
    BY <1>9, CursorTyped DEF StoreSubmit, InLoop
  <2>2. StoresTypeOK'
    <3>1. now \div SecondLength \in Nat
      BY SecondIsNatural
    <3> QED
      BY <1>9, <2>1, <3>1 DEF StoreSubmit, StoreRaw, StoresTypeOK
  <2>3. /\ LoopFrom(r, pos[r] + 1) \in {"trace", "finished"}
        /\ LoopFrom(r, pos[r] + 1) \in InLoop => pos[r] + 1 \in DOMAIN sending[r]
    BY LoopStaysTyped
  <2>4. /\ \A q \in Requests : q # r => pc'[q] = pc[q] /\ pos'[q] = pos[q]
        /\ \/ pc'[r] = LoopFrom(r, pos[r] + 1) /\ pos'[r] = pos[r] + 1
           \/ pc'[r] = "aborted"
        /\ pc' \in [Requests -> {"new", "queued"} \union Running \union Settled]
        /\ pos' \in [Requests -> Nat \ {0}]
        /\ UNCHANGED <<authorised, sending, status, stamp, attempts, published>>
    <3>1. CASE /\ pos' = [pos EXCEPT ![r] = @ + 1]
               /\ pc' = [pc EXCEPT ![r] = LoopFrom(r, pos[r] + 1)]
      BY <1>9, <2>3, <3>1 DEF StoreSubmit, Running, Settled
    <3>2. CASE pc' = [pc EXCEPT ![r] = "aborted"] /\ UNCHANGED pos
      BY <1>9, <3>2 DEF StoreSubmit, Running, Settled
    <3> QED
      BY <1>9, <3>1, <3>2 DEF StoreSubmit
  <2>5. PosNamesAnIdentifier'
    BY <2>3, <2>4 DEF InLoop
  <2> QED
    BY <2>2, <2>4, <2>5
<1>10. ASSUME NEW r \in Requests, Crash(r) PROVE SenderInv'
  BY <1>10 DEF Crash, StoresTypeOK, Running, Settled, InLoop
<1>11. ASSUME Administer PROVE SenderInv'
  BY <1>11 DEF Administer, StoresTypeOK
<1> QED
  BY <1>1, <1>2, <1>3, <1>4, <1>5, <1>6, <1>7, <1>8, <1>9, <1>10, <1>11
  DEF SenderNext, ArchiverStep

-----------------------------------------------------------------------------
(***************************************************************************)
(* Identifiers, and how often each is sent.                                 *)
(***************************************************************************)

\* Every step of the request side keeps the identifiers of all requests apart.
LEMMA SenderKeepsIds ==
  ASSUME SenderInv, IdsIssuedOnce, SenderNext
  PROVE  IdsIssuedOnce'
<1> USE DEF SenderInv, SenderTypeOK
<1>1. ASSUME NEW p \in Requests, Accept(p) PROVE IdsIssuedOnce'
  <2>1. PICK s \in SendingIdsDict : sending' = [sending EXCEPT ![p] = s]
    BY <1>1 DEF Accept
  <2>2. /\ \A a, b \in DOMAIN s : s[a].id = s[b].id => a = b
        /\ \A a \in DOMAIN s : ~Issued(s[a].id)
    BY SendingIdsAreFresh
  <2>3. /\ sending[p] = << >> /\ sending'[p] = s /\ pc'[p] # "new" /\ UNCHANGED published
        /\ \A q \in Requests \ {p} : sending'[q] = sending[q] /\ pc'[q] = pc[q]
    BY <1>1, <2>1 DEF Accept, IdsIssuedOnce
  <2>4. ASSUME NEW r \in Requests, NEW q \in Requests,
               NEW j \in DOMAIN sending'[r], NEW k \in DOMAIN sending'[q],
               sending'[r][j].id = sending'[q][k].id
        PROVE  r = q /\ j = k
    <3>1. CASE r = p /\ q = p
      <4>1. j \in DOMAIN s /\ k \in DOMAIN s /\ s[j].id = s[k].id
        BY <2>3, <2>4, <3>1, Zenon
      <4> QED
        BY <2>2, <3>1, <4>1, Zenon
    <3>2. CASE r # p /\ q # p
      <4>1. sending'[r] = sending[r] /\ sending'[q] = sending[q]
        BY <2>3, <3>2
      <4>2. j \in DOMAIN sending[r] /\ k \in DOMAIN sending[q]
            /\ sending[r][j].id = sending[q][k].id
        BY <2>4, <4>1, Zenon
      <4> QED
        BY <4>2 DEF IdsIssuedOnce
    <3>3. CASE r = p /\ q # p
      BY <2>2, <2>3, <2>4, <3>3 DEF Issued
    <3>4. CASE r # p /\ q = p
      BY <2>2, <2>3, <2>4, <3>4 DEF Issued
    <3> QED
      BY <3>1, <3>2, <3>3, <3>4
  <2>5. ASSUME NEW i \in Ids, published'[i] > 0 PROVE Issued(i)'
    <3>1. PICK q \in Requests : \E k \in DOMAIN sending[q] : sending[q][k].id = i
      BY <2>3, <2>5 DEF IdsIssuedOnce, Issued
    <3>2. q # p
      BY <2>3, <3>1
    <3> QED
      BY <2>3, <3>1, <3>2 DEF Issued
  <2>6. \A r \in Requests : pc'[r] = "new" => sending'[r] = << >>
    BY <2>3 DEF IdsIssuedOnce
  <2> QED
    BY <2>4, <2>5, <2>6 DEF IdsIssuedOnce
<1>2. ASSUME NEW p \in Requests, Publish(p) PROVE IdsIssuedOnce'
  <2>1. pos[p] \in DOMAIN sending[p] /\ Current(p) \in Ids
    BY <1>2, CursorTyped DEF Publish, InLoop
  <2>2. /\ UNCHANGED sending /\ pc' = [pc EXCEPT ![p] = "stamp"]
        /\ published' = published \/ published' = [published EXCEPT ![Current(p)] = @ + 1]
    BY <1>2 DEF Publish
  <2>3. ASSUME NEW i \in Ids, published'[i] > 0 PROVE Issued(i)
    <3>1. CASE i = Current(p)
      BY <2>1, <3>1 DEF Issued, Current
    <3>2. CASE i # Current(p)
      <4>1. published'[i] = published[i]
        BY <2>1, <2>2, <3>2
      <4> QED
        BY <2>3, <4>1 DEF IdsIssuedOnce
    <3> QED
      BY <3>1, <3>2
  <2>4. \A r \in Requests : pc'[r] = "new" => pc[r] = "new"
    BY <2>2
  <2> QED
    BY <2>2, <2>3, <2>4 DEF IdsIssuedOnce, Issued
<1>3. ASSUME UNCHANGED <<sending, published>>, \A r \in Requests : pc'[r] = "new" => pc[r] = "new"
      PROVE  IdsIssuedOnce'
  BY <1>3 DEF IdsIssuedOnce, Issued
<1>4. ASSUME NEW p \in Requests,
             \/ Reject(p) \/ Invoke(p) \/ Stage(p) \/ Trace(p) \/ StampSubmit(p) \/ InsertSubmit(p)
             \/ StoreSubmit(p) \/ Crash(p)
      PROVE  IdsIssuedOnce'
  <2>1. LoopFrom(p, pos[p]) # "new" /\ LoopFrom(p, pos[p] + 1) # "new"
    BY DEF LoopFrom
  <2>2. UNCHANGED <<sending, published>> /\ \A r \in Requests : pc'[r] = "new" => pc[r] = "new"
    BY <1>4, <2>1
    DEF Reject, Invoke, Stage, Trace, StampSubmit, InsertSubmit, StoreSubmit, Crash
  <2> QED
    BY <1>3, <2>2
<1>5. CASE Administer
  BY <1>3, <1>5 DEF Administer
<1> QED
  BY <1>1, <1>2, <1>4, <1>5 DEF SenderNext, ArchiverStep

\* The identifiers that the archiver at work for r has still to send.
ToSend(r, k) ==
  \/ pc[r] \in {"staging", "trace", "publish"} /\ k >= pos[r]
  \/ pc[r] \in {"stamp", "insert", "store"} /\ k > pos[r]

\* What the bound rests on: an identifier still to be sent in this run was sent
\* in the earlier runs only.
SendsOf(r) ==
  /\ pc[r] = "queued" => r \in Async
  /\ pc[r] \in {"new", "staging"} => pos[r] = 1
  /\ \A k \in DOMAIN sending[r] :
       /\ published[sending[r][k].id] <= Runs(r)
       /\ ToSend(r, k) => published[sending[r][k].id] < Runs(r)

RunsInv == \A r \in Requests : SendsOf(r)

LEMMA RunsInvInit == SenderInit => RunsInv
  BY DEF SenderInit, RunsInv, SendsOf, ToSend

LEMMA RunsInvBounds == RunsInv => SendsBoundedByRuns
  BY DEF RunsInv, SendsOf, SendsBoundedByRuns

\* Every step of the request side keeps the bound.
LEMMA SenderKeepsRuns ==
  ASSUME SenderInv, IdsIssuedOnce, RunsInv, SenderNext
  PROVE  RunsInv'
<1>0. /\ published \in [Ids -> Nat] /\ attempts \in [Requests -> Nat]
      /\ pos \in [Requests -> Nat \ {0}] /\ sending \in [Requests -> Seq(PreReq)]
      /\ pc \in [Requests -> {"new", "queued"} \union Running \union Settled]
  BY SenderAssumption DEF SenderInv, SenderTypeOK
<1>1. \A r \in Requests : \A k \in DOMAIN sending[r] : k \in Nat /\ sending[r][k].id \in Ids
  <2>1. ASSUME NEW r \in Requests, NEW k \in DOMAIN sending[r]
        PROVE  k \in Nat /\ sending[r][k] \in PreReq
    BY <1>0
  <2> QED
    BY <2>1 DEF PreReq
<1>2. ASSUME NEW r \in Requests, NEW q \in Requests, q # r, UNCHANGED published,
             /\ sending'[q] = sending[q] /\ pc'[q] = pc[q] /\ pos'[q] = pos[q]
             /\ attempts'[q] = attempts[q]
      PROVE  SendsOf(q)'
  BY <1>2 DEF RunsInv, SendsOf, ToSend, Runs
<1>3. ASSUME NEW r \in Requests, Accept(r) PROVE RunsInv'
  <2>1. PICK s \in SendingIdsDict : sending' = [sending EXCEPT ![r] = s]
    BY <1>3 DEF Accept
  <2>2. s \in Seq(PreReq) /\ \A k \in DOMAIN s : ~Issued(s[k].id)
    BY SendingIdsAreFresh
  <2>3. \A k \in DOMAIN s : k \in Nat /\ s[k].id \in Ids
    <3>1. \A k \in DOMAIN s : k \in Nat /\ s[k] \in PreReq
      BY <2>2
    <3> QED
      BY <3>1 DEF PreReq
  <2>4. \A k \in DOMAIN s : published[s[k].id] = 0
    BY <1>0, <2>2, <2>3 DEF IdsIssuedOnce
  <2>5. /\ sending'[r] = s /\ pc[r] = "new" /\ UNCHANGED <<pos, attempts, published>>
        /\ pc'[r] = IF r \in Async THEN "queued" ELSE "staging"
    BY <1>0, <1>3, <2>1 DEF Accept
  <2>6. SendsOf(r)'
    <3>1. CASE r \in Async
      BY <1>0, <2>4, <2>5, <3>1 DEF SendsOf, ToSend, Runs
    <3>2. CASE r \notin Async
      <4>1. pos'[r] = 1
        BY <2>5 DEF RunsInv, SendsOf
      <4> QED
        BY <2>4, <2>5, <3>2, <4>1 DEF SendsOf, ToSend, Runs
    <3> QED
      BY <3>1, <3>2
  <2>7. \A q \in Requests \ {r} : SendsOf(q)'
    BY <1>0, <1>2, <1>3, <2>1 DEF Accept
  <2> QED
    BY <2>6, <2>7 DEF RunsInv
<1>4. ASSUME NEW r \in Requests, Invoke(r) PROVE RunsInv'
  <2>1. /\ r \in Async /\ attempts'[r] = attempts[r] + 1 /\ pos'[r] = 1
        /\ pc'[r] \in {"denied", "staging"} /\ UNCHANGED <<sending, published>>
    BY <1>0, <1>4 DEF Invoke, RunsInv, SendsOf
  <2>2. \A k \in DOMAIN sending[r] : published[sending[r][k].id] < attempts[r] + 1
    <3>1. \A k \in DOMAIN sending[r] : published[sending[r][k].id] <= attempts[r]
      BY <2>1 DEF RunsInv, SendsOf, Runs
    <3> QED
      BY <1>0, <1>1, <3>1
  <2>3. \A k \in DOMAIN sending[r] : published[sending[r][k].id] <= attempts[r] + 1
    BY <1>0, <1>1, <2>2
  <2>4. SendsOf(r)'
    BY <2>1, <2>2, <2>3 DEF SendsOf, Runs
  <2>5. \A q \in Requests \ {r} : SendsOf(q)'
    BY <1>0, <1>2, <1>4 DEF Invoke
  <2> QED
    BY <2>4, <2>5 DEF RunsInv
<1>5. ASSUME NEW r \in Requests, Publish(r) PROVE RunsInv'
  <2> DEFINE c == Current(r)
  <2>1. pos[r] \in DOMAIN sending[r] /\ c \in Ids /\ c = sending[r][pos[r]].id
    BY <1>5, CursorTyped DEF Publish, InLoop, Current
  <2>2. /\ UNCHANGED <<sending, pos, attempts>> /\ pc[r] = "publish"
        /\ pc' = [pc EXCEPT ![r] = "stamp"]
        /\ published' = published \/ published' = [published EXCEPT ![c] = @ + 1]
    BY <1>5 DEF Publish
  <2> HIDE DEF c
  <2>3. \A i \in Ids : i # c => published'[i] = published[i]
    BY <1>0, <2>1, <2>2
  <2>4. published'[c] = published[c] \/ published'[c] = published[c] + 1
    BY <1>0, <2>1, <2>2
  <2>5. ASSUME NEW q \in Requests, NEW k \in DOMAIN sending[q], ~(q = r /\ k = pos[r])
        PROVE  published'[sending[q][k].id] = published[sending[q][k].id]
    <3>1. sending[q][k].id # c
      BY <2>1, <2>5 DEF IdsIssuedOnce
    <3> QED
      BY <1>1, <2>3, <3>1
  <2>6. ASSUME NEW q \in Requests, q # r PROVE SendsOf(q)'
    <3>1. pc'[q] = pc[q]
      BY <1>0, <2>2, <2>6
    <3>2. \A k \in DOMAIN sending[q] : published'[sending[q][k].id] = published[sending[q][k].id]
      BY <2>5, <2>6
    <3> QED
      BY <2>2, <3>1, <3>2 DEF RunsInv, SendsOf, ToSend, Runs
  <2>7. SendsOf(r)'
    <3>1. pc'[r] = "stamp"
      BY <1>0, <2>2
    <3>2. published[c] < Runs(r) /\ Runs(r)' = Runs(r) /\ Runs(r) \in Nat
      BY <1>0, <1>1, <2>1, <2>2 DEF RunsInv, SendsOf, ToSend, Runs
    <3>3. published'[c] <= Runs(r)
      BY <1>0, <2>1, <2>4, <3>2
    <3>4. ASSUME NEW k \in DOMAIN sending[r]
          PROVE  /\ published'[sending[r][k].id] <= Runs(r)
                 /\ k > pos[r] => published'[sending[r][k].id] < Runs(r)
      <4>1. CASE k = pos[r]
        BY <1>0, <2>1, <3>3, <4>1
      <4>2. CASE k # pos[r]
        <5>1. published'[sending[r][k].id] = published[sending[r][k].id]
          BY <2>5, <4>2
        <5>2. /\ published[sending[r][k].id] <= Runs(r)
              /\ k >= pos[r] => published[sending[r][k].id] < Runs(r)
          BY <2>2 DEF RunsInv, SendsOf, ToSend
        <5>3. k > pos[r] => k >= pos[r]
          BY <1>0, <1>1
        <5> QED
          BY <5>1, <5>2, <5>3
      <4> QED
        BY <4>1, <4>2
    <3> QED
      BY <2>2, <3>1, <3>2, <3>4 DEF SendsOf, ToSend
  <2> QED
    BY <2>6, <2>7 DEF RunsInv
<1>6. ASSUME NEW r \in Requests,
             \/ Reject(r) \/ Stage(r) \/ Trace(r) \/ StampSubmit(r) \/ InsertSubmit(r)
             \/ StoreSubmit(r) \/ Crash(r)
      PROVE  RunsInv'
  <2>1. /\ UNCHANGED <<sending, attempts, published>>
        /\ \A q \in Requests \ {r} : pc'[q] = pc[q] /\ pos'[q] = pos[q]
    BY <1>0, <1>6
    DEF Reject, Stage, Trace, StampSubmit, InsertSubmit, StoreSubmit, Crash
  <2>2. /\ pc'[r] = "queued" => r \in Async
        /\ pc'[r] \notin {"new", "staging"}
        /\ \A k \in DOMAIN sending[r] : ToSend(r, k)' => ToSend(r, k)
    <3>1. CASE Reject(r) \/ Crash(r)
      BY <1>0, <3>1 DEF Reject, Crash, ToSend
    <3>2. CASE Stage(r) \/ Trace(r)
      <4>1. /\ pc[r] \in {"staging", "trace"} /\ UNCHANGED pos
            /\ pc'[r] \in {"trace", "publish", "finished", "aborted"}
        BY <1>0, <3>2 DEF Stage, Trace, LoopFrom
      <4> QED
        BY <4>1 DEF ToSend
    <3>3. CASE StampSubmit(r) \/ InsertSubmit(r)
      <4>1. /\ pc[r] \in {"stamp", "insert"} /\ UNCHANGED pos
            /\ pc'[r] \in {"insert", "store", "aborted"}
        BY <1>0, <3>3 DEF StampSubmit, InsertSubmit
      <4> QED
        BY <4>1 DEF ToSend
    <3>4. CASE StoreSubmit(r)
      <4>1. /\ pc[r] = "store"
            /\ \/ pos'[r] = pos[r] + 1 /\ pc'[r] \in {"trace", "finished"}
               \/ pc'[r] = "aborted"
        BY <1>0, <3>4 DEF StoreSubmit, LoopFrom
      <4>2. \A k \in DOMAIN sending[r] : k >= pos[r] + 1 => k > pos[r]
        BY <1>0, <1>1
      <4> QED
        BY <4>1, <4>2 DEF ToSend
    <3> QED
      BY <1>6, <3>1, <3>2, <3>3, <3>4
  <2>3. SendsOf(r)'
    BY <2>1, <2>2 DEF RunsInv, SendsOf, Runs
  <2>4. \A q \in Requests \ {r} : SendsOf(q)'
    BY <1>2, <2>1
  <2> QED
    BY <2>3, <2>4 DEF RunsInv
<1>7. CASE Administer
  BY <1>7 DEF Administer, RunsInv, SendsOf, ToSend, Runs
<1> QED
  BY <1>3, <1>4, <1>5, <1>6, <1>7 DEF SenderNext, ArchiverStep

-----------------------------------------------------------------------------
(***************************************************************************)
(* What the abstract ledger (DeliveryLedger) sees of the request side.      *)
(***************************************************************************)

issuedIds == {i \in Ids : Issued(i)}
sentIds   == {i \in Ids : published[i] > 0}
ledgerSet == {<<row.identifier, row.status>> : row \in rows}

\* What a step leaves alone, variable by variable.
LEMMA IssuedUnchanged == ASSUME UNCHANGED sending PROVE UNCHANGED issuedIds
BY DEF issuedIds, Issued

\* A step that publishes nothing leaves the sent identifiers alone.
LEMMA SentUnchanged == ASSUME UNCHANGED published PROVE UNCHANGED sentIds
BY DEF sentIds

\* A step that inserts no row leaves the ledger alone.
LEMMA LedgerUnchanged == ASSUME UNCHANGED rows PROVE UNCHANGED ledgerSet
BY DEF ledgerSet

\* An acceptance issues identifiers nobody else has.
LEMMA AcceptIssues ==
  ASSUME SenderInv, NEW r \in Requests, Accept(r), sending[r] = << >>
  PROVE  \E new \in SUBSET (Ids \ issuedIds) : issuedIds' = issuedIds \union new
<1>1. PICK s \in SendingIdsDict : sending' = [sending EXCEPT ![r] = s]
  BY DEF Accept
<1>2. /\ s \in Seq(PreReq)
      /\ \A k \in DOMAIN s : ~Issued(s[k].id)
  BY SendingIdsAreFresh
<1> DEFINE new == {s[k].id : k \in DOMAIN s}
<1>3. \A k \in DOMAIN s : s[k].id \in Ids
  <2>1. \A k \in DOMAIN s : s[k] \in PreReq
    BY <1>2
  <2> QED
    BY <2>1 DEF PreReq
<1>4. new \subseteq Ids \ issuedIds
  BY <1>2, <1>3 DEF issuedIds
<1>5. sending'[r] = s /\ \A q \in Requests : q # r => sending'[q] = sending[q]
  BY <1>1 DEF SenderInv, SenderTypeOK
<1>6. ASSUME NEW i \in Ids PROVE Issued(i)' <=> Issued(i) \/ i \in new
  <2>1. ASSUME Issued(i)' PROVE Issued(i) \/ i \in new
    BY <1>5, <2>1 DEF Issued
  <2>2. ASSUME Issued(i) PROVE Issued(i)'
    <3>1. PICK q \in Requests : \E k \in DOMAIN sending[q] : sending[q][k].id = i
      BY <2>2 DEF Issued
    <3>2. q # r
      BY <3>1
    <3> QED
      BY <1>5, <3>1, <3>2 DEF Issued
  <2>3. ASSUME i \in new PROVE Issued(i)'
    BY <1>5, <2>3 DEF Issued
  <2> QED
    BY <2>1, <2>2, <2>3
<1> HIDE DEF new
<1>7. issuedIds' = issuedIds \union new
  BY <1>4, <1>6 DEF issuedIds
<1> QED
  BY <1>4, <1>7

\* A publish sends the message of one issued identifier, or nothing.
LEMMA PublishSends ==
  ASSUME SenderInv, NEW r \in Requests, Publish(r)
  PROVE  \/ UNCHANGED sentIds
         \/ Current(r) \in issuedIds /\ sentIds' = sentIds \union {Current(r)}
<1>1. pos[r] \in DOMAIN sending[r] /\ Current(r) \in Ids
  BY CursorTyped DEF Publish, InLoop
<1>2. Current(r) \in issuedIds
  BY <1>1 DEF issuedIds, Issued, Current
<1>3. CASE UNCHANGED published
  BY <1>3, SentUnchanged
<1>4. CASE published' = [published EXCEPT ![Current(r)] = @ + 1]
  <2>1. published'[Current(r)] > 0 /\ \A i \in Ids : i # Current(r) => published'[i] = published[i]
    BY <1>1, <1>4 DEF SenderInv, SenderTypeOK
  <2>2. sentIds' = sentIds \union {Current(r)}
    BY <1>1, <2>1 DEF sentIds
  <2> QED
    BY <1>2, <2>2
<1> QED
  BY <1>3, <1>4 DEF Publish

\* A row that is inserted is one more entry of the ledger.
LEMMA InsertRecords ==
  ASSUME NEW row, rows' = rows \union {row}
  PROVE  ledgerSet' = ledgerSet \union {<<row.identifier, row.status>>}
BY DEF ledgerSet

\* The sender's insert records a submission of an issued identifier, or nothing;
\* a success only when the status it holds is true.
LEMMA InsertSubmits ==
  ASSUME SenderInv, NEW r \in Requests, InsertSubmit(r),
         status[r] = "cnm-submit-success" => published[Current(r)] > 0
  PROVE  \/ UNCHANGED ledgerSet
         \/ /\ Current(r) \in issuedIds /\ status[r] \in SubmitStatuses
            /\ status[r] = "cnm-submit-success" => Current(r) \in sentIds
            /\ ledgerSet' = ledgerSet \union {<<Current(r), status[r]>>}
<1>1. pos[r] \in DOMAIN sending[r] /\ Current(r) \in Ids
  BY CursorTyped DEF InsertSubmit, InLoop
<1>2. Current(r) \in issuedIds /\ status[r] \in SubmitStatuses
  BY <1>1 DEF issuedIds, Issued, Current, SenderInv, SenderTypeOK
<1>3. status[r] = "cnm-submit-success" => Current(r) \in sentIds
  BY <1>1 DEF sentIds
<1>4. CASE rows' = rows \union {SubmitRow(r)}
  <2>1. SubmitRow(r).identifier = Current(r) /\ SubmitRow(r).status = status[r]
    BY DEF SubmitRow
  <2> QED
    BY <1>2, <1>3, <1>4, <2>1, InsertRecords
<1>5. CASE UNCHANGED rows
  BY <1>5, LedgerUnchanged
<1> QED
  BY <1>4, <1>5 DEF InsertSubmit, AddRow, AddRowRaises
=============================================================================
