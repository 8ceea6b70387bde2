------------------------ MODULE StatusReport_proofs ------------------------
(***************************************************************************)
(* What the report and the status list say, for any number of rows, users'  *)
(* windows and steps of the two Lambdas: the summary counts every row once, *)
(* no answer is shown without a submission, and a closed window stands.     *)
(***************************************************************************)
EXTENDS StatusReport, DaacDeliverySafety_proofs

\* The status table is finite: it starts empty and a step adds one row.
LEMMA RowsAreFinite == Spec => []IsFiniteSet(rows)
<1>1. Init => IsFiniteSet(rows)
  BY FS_EmptySet DEF Init, StoresInit
<1>2. TypeInv /\ IsFiniteSet(rows) /\ [Next]_vars => IsFiniteSet(rows)'
  <2> SUFFICES ASSUME TypeInv, IsFiniteSet(rows), [Next]_vars PROVE IsFiniteSet(rows')
    OBVIOUS
  <2>1. CASE rows' \subseteq rows
    BY <2>1, FS_Subset
  <2>2. ASSUME NEW x \in rows', x \notin rows PROVE IsFiniteSet(rows')
    <3>1. rows' \in SUBSET (rows \union {x})
      BY <2>2, OneNewRow
    <3>2. IsFiniteSet(rows \union {x})
      BY FS_AddElement
    <3> QED
      BY <3>1, <3>2, FS_Subset
  <2> QED
    BY <2>1, <2>2
<1> QED
  BY <1>1, <1>2, InitTypeInv, NextTypeInv, PTL DEF Spec

-----------------------------------------------------------------------------
(***************************************************************************)
(* The summary.                                                             *)
(***************************************************************************)

\* The one status at place k of the schema that has both keywords.
LEMMA FoundAt ==
  ASSUME NEW k \in Int, NEW stage, NEW result,
         {j \in DOMAIN KnownStatuses :
            KnownStatuses[j].stage = stage /\ KnownStatuses[j].result = result} = {k}
  PROVE  FindStatus(stage, result) = KnownStatuses[k].name
<1>1. Min({k}) = k
  BY DEF Min
<1> QED
  BY <1>1 DEF FindStatus

\* The keywords the report looks for name the four statuses the Lambdas write.
LEMMA StatusesFound ==
  /\ FindStatus("submit", "success") = "cnm-submit-success"
  /\ FindStatus("submit", "failed") = "cnm-submit-failed"
  /\ FindStatus("receive", "success") = "cnm-receive-success"
  /\ FindStatus("receive", "failed") = "cnm-receive-failed"
<1> DEFINE At(stage, result) ==
             {j \in DOMAIN KnownStatuses :
                KnownStatuses[j].stage = stage /\ KnownStatuses[j].result = result}
<1>1. DOMAIN KnownStatuses = 1..8
  BY DEF KnownStatuses
<1>2. /\ KnownStatuses[1].stage = "authorized" /\ KnownStatuses[2].stage = "authorized"
      /\ KnownStatuses[3].stage = "staged" /\ KnownStatuses[4].stage = "staged"
      /\ KnownStatuses[5] = Status("submit", "success", "cnm-submit-success")
      /\ KnownStatuses[6] = Status("submit", "failed", "cnm-submit-failed")
      /\ KnownStatuses[7] = Status("receive", "success", "cnm-receive-success")
      /\ KnownStatuses[8] = Status("receive", "failed", "cnm-receive-failed")
  BY DEF KnownStatuses, Status
<1>3. \A j \in 1..8 : j = 1 \/ j = 2 \/ j = 3 \/ j = 4 \/ j = 5 \/ j = 6 \/ j = 7 \/ j = 8
  OBVIOUS
<1> HIDE DEF KnownStatuses
<1>4. /\ At("submit", "success") = {5} /\ At("submit", "failed") = {6}
      /\ At("receive", "success") = {7} /\ At("receive", "failed") = {8}
  BY <1>1, <1>2, <1>3 DEF Status
<1> QED
  BY <1>2, <1>4, FoundAt DEF Status

\* The summary of one stage and result is the number of rows with its status.
LEMMA SummaryCounts ==
  ASSUME NEW c, NEW t, NEW w, NEW stage, NEW result
  PROVE  Summary(c, t, w, stage, result) =
           Cardinality({row \in Counted(c, t, w) : row.status = FindStatus(stage, result)})
<1> DEFINE S     == Counted(c, t, w)
           Of(u) == {row \in S : row.status = u}
           f     == CountByStatus(c, t, w)
           s     == FindStatus(stage, result)
<1>1. f = [u \in {row.status : row \in S} |-> Cardinality(Of(u))]
  BY DEF CountByStatus
<1>2. Summary(c, t, w, stage, result) = IF s \in DOMAIN f THEN f[s] ELSE 0
  BY DEF Summary
<1> HIDE DEF f, s
<1>3. CASE s \in {row.status : row \in S}
  BY <1>1, <1>2, <1>3 DEF s
<1>4. CASE s \notin {row.status : row \in S}
  <2>1. Of(s) = {} /\ s \notin DOMAIN f
    BY <1>1, <1>4
  <2>2. Cardinality(Of(s)) = 0
    BY <2>1, FS_EmptySet
  <2> QED
    BY <1>2, <2>1, <2>2 DEF s
<1> QED
  BY <1>3, <1>4

\* A set split by a condition: its parts make up its size.
LEMMA SplitCounts ==
  ASSUME NEW S, IsFiniteSet(S), NEW A, NEW B, S = A \union B, A \intersect B = {}
  PROVE  /\ IsFiniteSet(A) /\ IsFiniteSet(B)
         /\ Cardinality(S) = Cardinality(A) + Cardinality(B)
         /\ Cardinality(A) \in Nat /\ Cardinality(B) \in Nat
<1>1. IsFiniteSet(A) /\ IsFiniteSet(B)
  <2>1. A \in SUBSET S /\ B \in SUBSET S
    OBVIOUS
  <2> QED
    BY <2>1, FS_Subset
<1>2. Cardinality(A \intersect B) = 0
  BY FS_EmptySet
<1>3. Cardinality(A) \in Nat /\ Cardinality(B) \in Nat
  BY <1>1, FS_CardinalityType
<1>4. Cardinality(A \union B) = Cardinality(A) + Cardinality(B) - Cardinality(A \intersect B)
  BY <1>1, FS_Union
<1> QED
  BY <1>1, <1>2, <1>3, <1>4

\* The two counts of the report, each as the size of a set of rows.
LEMMA ReportCounts ==
  ASSUME IsFiniteSet(rows), NEW c, NEW t, NEW w
  PROVE  /\ SubmittedCount(c, t, w) =
              Cardinality({row \in Counted(c, t, w) : row.status \in SubmitStatuses})
         /\ AnsweredCount(c, t, w) =
              Cardinality({row \in Counted(c, t, w) : row.status \in ReceiveStatuses})
<1> DEFINE S    == Counted(c, t, w)
           Of(u) == {row \in S : row.status = u}
<1>1. IsFiniteSet(S)
  <2>1. S \in SUBSET rows
    BY DEF Counted
  <2> QED
    BY <2>1, FS_Subset
<1> HIDE DEF S
<1>2. ASSUME NEW u, NEW v, u # v
      PROVE  Cardinality({row \in S : row.status \in {u, v}}) = Cardinality(Of(u)) + Cardinality(Of(v))
  <2> DEFINE R == {row \in S : row.status \in {u, v}}
  <2>1. R \in SUBSET S /\ R = Of(u) \union Of(v) /\ Of(u) \intersect Of(v) = {}
    BY <1>2
  <2>2. IsFiniteSet(R)
    BY <1>1, <2>1, FS_Subset
  <2> HIDE DEF R, Of
  <2>3. Cardinality(R) = Cardinality(Of(u)) + Cardinality(Of(v))
    BY <2>1, <2>2, SplitCounts
  <2> QED
    BY <2>3 DEF R, Of
<1>3. /\ SubmittedCount(c, t, w) =
           Cardinality(Of("cnm-submit-success")) + Cardinality(Of("cnm-submit-failed"))
      /\ AnsweredCount(c, t, w) =
           Cardinality(Of("cnm-receive-success")) + Cardinality(Of("cnm-receive-failed"))
  BY StatusesFound, SummaryCounts DEF SubmittedCount, AnsweredCount, S
<1> HIDE DEF Of
<1>4. /\ Cardinality({row \in S : row.status \in SubmitStatuses}) =
           Cardinality(Of("cnm-submit-success")) + Cardinality(Of("cnm-submit-failed"))
      /\ Cardinality({row \in S : row.status \in ReceiveStatuses}) =
           Cardinality(Of("cnm-receive-success")) + Cardinality(Of("cnm-receive-failed"))
  BY <1>2 DEF SubmitStatuses, ReceiveStatuses
<1> QED
  BY <1>3, <1>4 DEF S

\* The report counts every row of its window once, whatever the two Lambdas
\* have written: no status of theirs is unknown to it or counted twice.
THEOREM SummaryIsComplete == Spec => []SummaryCountsEveryRow
<1>1. TypeInv /\ IsFiniteSet(rows) => SummaryCountsEveryRow
  <2> SUFFICES ASSUME TypeInv, IsFiniteSet(rows),
                      NEW c \in Collections, NEW t \in Targets, NEW w \in Windows
               PROVE  SubmittedCount(c, t, w) + AnsweredCount(c, t, w)
                        = Cardinality(Counted(c, t, w))
    BY DEF SummaryCountsEveryRow
  <2> DEFINE S == Counted(c, t, w)
             A == {row \in S : row.status \in SubmitStatuses}
             B == {row \in S : row.status \in ReceiveStatuses}
  <2>1. S \in SUBSET rows /\ \A row \in S : row.status \in Statuses
    BY DEF Counted, TypeInv, TypeOK, StoresTypeOK, Row
  <2>2. IsFiniteSet(S)
    BY <2>1, FS_Subset
  <2>3. S = A \union B /\ A \intersect B = {}
    <3> HIDE DEF S
    <3> QED
      BY <2>1 DEF Statuses, SubmitStatuses, ReceiveStatuses
  <2>4. SubmittedCount(c, t, w) = Cardinality(A) /\ AnsweredCount(c, t, w) = Cardinality(B)
    BY ReportCounts
  <2> HIDE DEF S, A, B
  <2>5. Cardinality(S) = Cardinality(A) + Cardinality(B)
    BY <2>2, <2>3, SplitCounts
  <2> QED
    BY <2>4, <2>5 DEF S
<1>2. Spec => []TypeInv
  BY InitTypeInv, NextTypeInv, PTL DEF Spec
<1> QED
  BY <1>1, <1>2, RowsAreFinite, PTL

-----------------------------------------------------------------------------
(***************************************************************************)
(* The status list.                                                         *)
(***************************************************************************)

\* The rows of a finite set can be listed by datetime: otherwise a smallest set
\* that cannot be would be listed by its earliest row and then the others.
LEMMA OrderExists ==
  ASSUME NEW S \in SUBSET Row, IsFiniteSet(S)
  PROVE  InOrder(S) # {}
<1> DEFINE Bad == {n \in Nat : \E T \in SUBSET S : Cardinality(T) = n /\ InOrder(T) = {}}
<1>1. SUFFICES ASSUME InOrder(S) = {} PROVE FALSE
  OBVIOUS
<1>2. Bad \in SUBSET Nat /\ Bad # {}
  BY <1>1, FS_CardinalityType
<1>3. PICK n \in Bad : \A m \in Bad : n <= m
  <2> HIDE DEF Bad
  <2> QED
    BY <1>2, LeastNatural
<1>4. PICK T \in SUBSET S : Cardinality(T) = n /\ InOrder(T) = {}
  BY <1>3
<1>5. n \in Nat /\ IsFiniteSet(T) /\ T \in SUBSET Row
  BY <1>3, FS_Subset
<1>6. CASE T = {}
  <2>1. Cardinality(T) = 0
    BY <1>6, FS_EmptySet
  <2>2. << >> \in InOrder(T)
    BY <2>1 DEF InOrder, Injection, IsInjective
  <2> QED
    BY <1>4, <2>2
<1>7. CASE T # {}
  <2>1. PICK e \in T : \A q \in T : e.datetime <= q.datetime
    BY <1>5, <1>7, EarliestRow
  <2> DEFINE U == T \ {e}
  <2>2. IsFiniteSet(U) /\ Cardinality(U) = n - 1 /\ U \in SUBSET S
    BY <1>4, <1>5, <2>1, FS_RemoveElement
  <2>3. n - 1 \in Nat
    BY <2>2, FS_CardinalityType
  <2>4. n - 1 \notin Bad
    <3> HIDE DEF Bad
    <3> QED
      BY <1>3, <1>5, <2>3
  <2>5. InOrder(U) # {}
    BY <2>2, <2>3, <2>4
  <2>6. PICK u \in Injection(1..(n - 1), U) :
          \A j, k \in DOMAIN u : j < k => u[j].datetime <= u[k].datetime
    BY <2>2, <2>5 DEF InOrder
  <2>7. u \in [1..(n - 1) -> U] /\ \A j, k \in 1..(n - 1) : u[j] = u[k] => j = k
    BY <2>6 DEF Injection, IsInjective
  <2> DEFINE v == [k \in 1..n |-> IF k = 1 THEN e ELSE u[k - 1]]
  <2>8. \A k \in 1..n : k # 1 => k - 1 \in 1..(n - 1)
    BY <1>5
  <2>9. \A k \in 1..n : v[k] \in T /\ (k # 1 => v[k] = u[k - 1] /\ v[k] # e)
    BY <2>1, <2>7, <2>8
  <2>10. v[1] = e /\ DOMAIN v = 1..n /\ v \in [1..n -> T]
    BY <2>3, <1>5, <2>9
  <2> HIDE DEF v
  <2>11. ASSUME NEW j \in 1..n, NEW k \in 1..n, v[j] = v[k] PROVE j = k
    <3>1. CASE j = 1 \/ k = 1
      BY <2>9, <2>10, <2>11, <3>1
    <3>2. CASE j # 1 /\ k # 1
      <4>1. j - 1 = k - 1
        BY <2>7, <2>8, <2>9, <2>11, <3>2
      <4> QED
        BY <1>5, <4>1
    <3> QED
      BY <3>1, <3>2
  <2>12. ASSUME NEW j \in 1..n, NEW k \in 1..n, j < k PROVE v[j].datetime <= v[k].datetime
    <3>1. CASE j = 1
      BY <2>1, <2>9, <2>10, <3>1
    <3>2. CASE j # 1
      <4>1. k # 1 /\ j - 1 < k - 1
        BY <1>5, <2>12, <3>2
      <4>2. j - 1 \in DOMAIN u /\ k - 1 \in DOMAIN u
        BY <2>7, <2>8, <3>2, <4>1
      <4>3. v[j] = u[j - 1] /\ v[k] = u[k - 1]
        BY <2>9, <3>2, <4>1
      <4> QED
        BY <2>6, <4>1, <4>2, <4>3
    <3> QED
      BY <3>1, <3>2
  <2>13. v \in InOrder(T)
    BY <1>4, <2>10, <2>11, <2>12 DEF InOrder, Injection, IsInjective
  <2> QED
    BY <1>4, <2>13
<1> QED
  BY <1>6, <1>7

\* The status list holds every row of the operation, the earliest first.
LEMMA StatusListBegins ==
  ASSUME TypeInv, IsFiniteSet(rows), NEW i, Get(i) # {}
  PROVE  /\ Head(StatusList(i)) \in Get(i)
         /\ \A q \in Get(i) : Head(StatusList(i)).datetime <= q.datetime
<1> DEFINE S == Get(i)
           n == Cardinality(S)
           s == StatusList(i)
<1>1. S \in SUBSET Row /\ S \in SUBSET rows
  BY DEF Get, TypeInv, TypeOK, StoresTypeOK
<1>2. IsFiniteSet(S)
  BY <1>1, FS_Subset
<1> HIDE DEF S, s
<1>3. s \in InOrder(S)
  <2>1. InOrder(S) # {}
    BY <1>1, <1>2, OrderExists
  <2> QED
    BY <2>1 DEF StatusList, S, s
<1>4. n \in Nat /\ n # 0
  BY <1>2, FS_CardinalityType, FS_EmptySet DEF S
<1>5. /\ s \in Injection(1..n, S) /\ DOMAIN s = 1..n /\ s \in [1..n -> S]
      /\ \A j, k \in 1..n : j < k => s[j].datetime <= s[k].datetime
  BY <1>3 DEF InOrder, Injection
<1>6. s \in Surjection(1..n, S)
  <2>1. IsFiniteSet(1..n) /\ Cardinality(1..n) = n
    BY <1>4, FS_Interval
  <2> QED
    BY <1>2, <1>5, <2>1, FS_Injection
<1>7. Head(s) = s[1] /\ 1 \in 1..n
  BY <1>4, <1>5
<1>8. ASSUME NEW q \in S PROVE s[1].datetime <= q.datetime
  <2>1. PICK k \in 1..n : s[k] = q
    BY <1>6 DEF Surjection
  <2>2. CASE k = 1
    BY <1>1, <2>1, <2>2 DEF Row
  <2>3. CASE k # 1
    <3>1. 1 < k
      BY <1>4, <2>3
    <3> QED
      BY <1>5, <1>7, <2>1, <3>1
  <2> QED
    BY <2>2, <2>3
<1>9. s[1] \in S
  BY <1>5, <1>7
<1> QED
  BY <1>7, <1>8, <1>9 DEF S, s

\* Neither the status list of an operation nor a report up to any moment shows
\* an answer before, or without, a submission.
THEOREM AnswersAreShownWithSubmissions == Spec => []AnswersComeWithSubmissions
<1>1. DeliveryInv /\ IsFiniteSet(rows) => AnswersComeWithSubmissions
  <2> SUFFICES ASSUME DeliveryInv, IsFiniteSet(rows) PROVE AnswersComeWithSubmissions
    OBVIOUS
  <2>0. /\ TypeInv /\ AnswerFollowsSubmission /\ RowsNameTheirOwner /\ IdsIssuedOnce
        /\ \A row \in rows : row.datetime \in Nat /\ row.status \in Statuses
        /\ \A row \in rows : row \in Row
    BY DEF DeliveryInv, OrderInv, OwnerInv, TypeInv, TypeOK, StoresTypeOK, Row
  <2>1. ASSUME NEW i \in Ids, StatusList(i) # << >>
        PROVE  Head(StatusList(i)).status \in SubmitStatuses
    <3>1. Get(i) # {}
      <4> SUFFICES ASSUME Get(i) = {} PROVE FALSE
        OBVIOUS
      <4>1. Cardinality(Get(i)) = 0 /\ IsFiniteSet(Get(i)) /\ Get(i) \in SUBSET Row
        BY FS_EmptySet
      <4>2. StatusList(i) \in InOrder(Get(i))
        BY <4>1, OrderExists DEF StatusList
      <4>3. StatusList(i) \in [1..0 -> {}]
        BY <4>1, <4>2 DEF InOrder, Injection
      <4> QED
        BY <2>1, <4>3
    <3> DEFINE h == Head(StatusList(i))
    <3>2. h \in Get(i) /\ \A q \in Get(i) : h.datetime <= q.datetime
      BY <2>0, <3>1, StatusListBegins
    <3> HIDE DEF h
    <3>3. h \in rows /\ h.identifier = i /\ h.status \in Statuses
      BY <2>0, <3>2 DEF Get
    <3>4. CASE h.status \in ReceiveStatuses
      <4>1. PICK q \in Get(i) : q.datetime < h.datetime
        BY <2>0, <3>3, <3>4 DEF AnswerFollowsSubmission
      <4>2. q.datetime \in Nat /\ h.datetime \in Nat /\ h.datetime <= q.datetime
        BY <2>0, <3>2, <3>3, <4>1 DEF Get
      <4> QED
        BY <4>1, <4>2
    <3> QED
      BY <3>3, <3>4 DEF Statuses, h
  <2>2. ASSUME NEW c \in Collections, NEW t \in Targets, NEW w \in Windows,
               w.start = None, AnsweredCount(c, t, w) > 0
        PROVE  SubmittedCount(c, t, w) > 0
    <3> DEFINE S == Counted(c, t, w)
               A == {row \in S : row.status \in SubmitStatuses}
               B == {row \in S : row.status \in ReceiveStatuses}
    <3>1. /\ SubmittedCount(c, t, w) = Cardinality(A) /\ AnsweredCount(c, t, w) = Cardinality(B)
      BY ReportCounts
    <3>2. IsFiniteSet(A)
      <4>1. A \in SUBSET rows
        BY DEF Counted
      <4> QED
        BY <4>1, FS_Subset
    <3>3. B # {}
      <4>1. Cardinality({}) = 0
        BY FS_EmptySet
      <4> HIDE DEF B
      <4> QED
        BY <2>2, <3>1, <4>1
    <3>4. PICK row \in B : TRUE
      BY <3>3
    <3>5. row \in rows /\ row.status \in ReceiveStatuses /\ row \in Counted(c, t, w)
      BY <3>4 DEF Counted
    <3>6. PICK q \in Get(row.identifier) : q.status \in SubmitStatuses /\ q.datetime < row.datetime
      BY <2>0, <3>5 DEF AnswerFollowsSubmission
    <3>7. q \in rows /\ q.identifier = row.identifier
      BY <3>6 DEF Get
    <3>8. q.subject = row.subject
      BY <2>0, <3>5, <3>7 DEF RowsNameTheirOwner, IdsIssuedOnce
    <3>9. w.end = None \/ q.datetime <= w.end
      <4>1. w.end = None \/ row.datetime <= w.end
        BY <3>5 DEF Counted, InWindow
      <4>2. w.end \in Int /\ q.datetime \in Nat /\ row.datetime \in Nat
        BY <2>0, <3>5, <3>7, StoresAssumption DEF Windows, None
      <4> QED
        BY <3>6, <4>1, <4>2
    <3>10. q \in A
      BY <2>2, <3>5, <3>6, <3>7, <3>8, <3>9 DEF Counted, InWindow
    <3> HIDE DEF A
    <3>11. Cardinality(A) \in Nat /\ Cardinality(A) # 0
      BY <3>2, <3>10, FS_CardinalityType, FS_EmptySet
    <3> QED
      BY <3>1, <3>11
  <2> QED
    BY <2>1, <2>2 DEF AnswersComeWithSubmissions
<1> QED
  BY <1>1, DeliveryInvariant, RowsAreFinite, PTL

-----------------------------------------------------------------------------
(***************************************************************************)
(* Closed windows.                                                          *)
(***************************************************************************)

\* What a step may still insert is stamped after every closed window.
LEMMA ClosedStays ==
  ASSUME DeliveryInv, [Next]_vars, NEW w \in Windows, Closed(w)
  PROVE  Closed(w)'
<1>1. /\ TypeInv /\ w.end \in Nat /\ w.end < now /\ w.end # None
      /\ \A r \in Requests : pc[r] = "insert" => stamp[r] > w.end
      /\ \A m \in Messages : mpc[m] = "insert" => mstamp[m] > w.end
  BY StoresAssumption DEF DeliveryInv, Closed, Windows, None
<1>2. now \in Nat /\ now' \in Nat /\ now <= now'
  BY <1>1, StoresGrow
<1>3. ASSUME NEW r \in Requests, pc'[r] = "insert" PROVE stamp'[r] > w.end
  <2>1. \/ pc[r] = "insert" /\ stamp'[r] = stamp[r]
        \/ stamp'[r] = now
    <3>1. pc \in [Requests -> {"new", "queued"} \union Running \union Settled]
          /\ stamp \in [Requests -> 0..MaxTime]
      BY <1>1 DEF TypeInv, TypeOK, SenderTypeOK
    <3>2. LoopFrom(r, pos[r]) # "insert" /\ LoopFrom(r, pos[r] + 1) # "insert"
      BY DEF LoopFrom
    <3> QED
      BY <1>1, <1>3, <3>1, <3>2, ArchiverMoves
      DEF Accept, Reject, ArchiverStep, Invoke, Stage, Trace, Publish, StampSubmit,
          InsertSubmit, StoreSubmit, Crash
  <2> QED
    BY <1>1, <2>1
<1>4. ASSUME NEW m \in Messages, mpc'[m] = "insert" PROVE mstamp'[m] > w.end
  <2>1. /\ mpc \in [Messages -> {"unsent", "visible", "deleted", "dlq"} \union Handling]
        /\ mstamp \in [Messages -> 0..MaxTime]
    BY <1>1 DEF TypeInv, TypeOK, ReceiverTypeOK
  <2>2. ~WriteResult(m)
    <3>1. WriteResult(m) => mpc'[m] \in {"visible", "store"}
      BY <2>1 DEF WriteResult
    <3> QED
      BY <1>4, <3>1
  <2>3. \/ mpc[m] = "insert" /\ mstamp'[m] = mstamp[m]
        \/ mstamp'[m] = now
    BY <1>1, <1>4, <2>1, <2>2, HandlerMoves
    DEF HandlerStep, HandlerCrash, DaacAnswers, Enqueue, Receive, Redrive, Lookup,
        StampReceive, InsertReceive, StoreReceive
  <2> QED
    BY <1>1, <2>3
<1>5. w.end < now'
  BY <1>1, <1>2
<1> QED
  BY <1>1, <1>3, <1>4, <1>5 DEF Closed

\* The report of a closed window is final, whatever is retried later.
THEOREM ClosedWindowsAreFinal == Spec => ClosedWindowsStand
<1>1. ASSUME DeliveryInv, [Next]_vars, NEW w \in Windows, Closed(w),
             NEW c \in Collections, NEW t \in Targets
      PROVE  Counted(c, t, w)' = Counted(c, t, w)
  <2>1. TypeInv /\ rows \subseteq rows'
    BY <1>1, StoresGrow DEF DeliveryInv
  <2>2. w.end # None /\ w.end \in Nat
    BY <1>1, StoresAssumption DEF Closed, Windows, None
  <2>3. ASSUME NEW row \in rows', row \notin rows PROVE ~InWindow(row, w)
    <3>1. row.datetime > w.end /\ row.datetime \in Nat
      <4>1. ASSUME NEW r \in Requests, InsertSubmit(r), row = SubmitRow(r)
            PROVE  row.datetime > w.end /\ row.datetime \in Nat
        <5>1. pc[r] = "insert" /\ row.datetime = stamp[r]
          BY <4>1 DEF InsertSubmit, SubmitRow
        <5> QED
          BY <1>1, <2>1, <5>1, TimesAreNat DEF Closed
      <4>2. ASSUME NEW m \in Messages, InsertReceive(m), row = ReceiveRow(m)
            PROVE  row.datetime > w.end /\ row.datetime \in Nat
        <5>1. mpc[m] = "insert" /\ row.datetime = mstamp[m]
          BY <4>2 DEF InsertReceive, ReceiveRow
        <5> QED
          BY <1>1, <2>1, <5>1, TimesAreNat DEF Closed
      <4> QED
        BY <1>1, <2>1, <2>3, <4>1, <4>2, NewRows
    <3> QED
      BY <2>2, <3>1 DEF InWindow
  <2> QED
    BY <2>1, <2>3 DEF Counted, InWindow
<1>2. DeliveryInv /\ [Next]_vars =>
        [\A w \in Windows : Closed(w) =>
           /\ Closed(w)'
           /\ \A c \in Collections, t \in Targets : Counted(c, t, w)' = Counted(c, t, w)]_vars
  BY <1>1, ClosedStays
<1> QED
  BY <1>2, DeliveryInvariant, PTL DEF Spec, ClosedWindowsStand
=============================================================================
