----------------------- MODULE CollectionArchive_proofs -----------------------
(***************************************************************************)
(* Theorems about the collection job: offset pagination is right for every  *)
(* page size and every catalogue that holds still, and a granule counted as *)
(* successful is on record whole, for any pool and any number of granules.  *)
(***************************************************************************)
EXTENDS CollectionArchive, DaacSender_proofs, SequenceTheorems, TLAPS

\* Two adjoining parts of a sequence make one.
LEMMA AdjoiningParts ==
  ASSUME NEW S, NEW s \in Seq(S), NEW m \in 0..Len(s), NEW n \in m..Len(s)
  PROVE  SubSeq(s, 1, m) \o SubSeq(s, m + 1, n) = SubSeq(s, 1, n)
<1>1. /\ SubSeq(s, 1, m) \in Seq(S) /\ Len(SubSeq(s, 1, m)) = m
      /\ \A i \in 1..m : SubSeq(s, 1, m)[i] = s[i]
  BY SubSeqProperties
<1>2. /\ SubSeq(s, m + 1, n) \in Seq(S) /\ Len(SubSeq(s, m + 1, n)) = n - m
      /\ \A i \in 1..(n - m) : SubSeq(s, m + 1, n)[i] = s[m + i]
  BY SubSeqProperties
<1>3. /\ SubSeq(s, 1, n) \in Seq(S) /\ Len(SubSeq(s, 1, n)) = n
      /\ \A i \in 1..n : SubSeq(s, 1, n)[i] = s[i]
  BY SubSeqProperties
<1>4. /\ SubSeq(s, 1, m) \o SubSeq(s, m + 1, n) \in Seq(S)
      /\ Len(SubSeq(s, 1, m) \o SubSeq(s, m + 1, n)) = n
      /\ \A i \in 1..n : (SubSeq(s, 1, m) \o SubSeq(s, m + 1, n))[i] = s[i]
  BY <1>1, <1>2, ConcatProperties
<1> QED
  BY <1>3, <1>4, SeqEqual

\* The job has fetched nothing of the catalogue it starts with.
LEMMA InitEstablishes == Init => PageInv
<1> SUFFICES ASSUME Init PROVE PageInv
  OBVIOUS
<1>1. catalogue \in Seq(Items)
  BY DEF Init, Injection
<1>2. (page - 1) * Limit = 0
  BY CollectionAssumption DEF Init
<1>3. found = SubSeq(catalogue, 1, 0)
  BY <1>1, SubSeqEmpty DEF Init
<1>4. Len(catalogue) \in Nat
  BY <1>1, LenProperties
<1> QED
  BY <1>1, <1>2, <1>3, <1>4 DEF Init, PageInv, PagesCoverCatalogue

\* One page more is the beginning of the catalogue, one page longer; the short
\* page is its end.
LEMMA FetchPagePreserves == PageInv /\ FetchPage => PageInv'
<1> SUFFICES ASSUME PageInv, FetchPage, changes' = 0, ~malformed' PROVE PageInv'
  <2>1. ASSUME PageInv, FetchPage PROVE changes' \in Nat
    BY <2>1 DEF PageInv, FetchPage, catalogueVars
  <2> QED
    BY <2>1 DEF PageInv, PagesCoverCatalogue
<1>u. changes = 0 /\ ~malformed /\ UNCHANGED <<catalogue, changes, malformed>>
  BY DEF FetchPage, catalogueVars
<1> DEFINE L == Len(catalogue)
           o == (page - 1) * Limit
           e == IF page * Limit <= L THEN page * Limit ELSE L
<1>0. Limit \in Nat \ {0}
  BY CollectionAssumption
<1>1. /\ catalogue \in Seq(Items) /\ page \in Nat \ {0}
      /\ o <= L /\ found = SubSeq(catalogue, 1, o)
  <2>1. job \in {"idle", "paging"}
    BY DEF FetchPage
  <2> QED
    BY <1>u, <2>1 DEF PageInv, PagesCoverCatalogue
<1>2. L \in Nat /\ o \in Nat /\ page * Limit \in Nat /\ page * Limit = o + Limit
  BY <1>0, <1>1, LenProperties
<1>3. o \in 0..L /\ e \in o..L
  BY <1>0, <1>1, <1>2
<1>4. Page = SubSeq(catalogue, o + 1, e)
  BY DEF Page
<1>5. Len(Page) = e - o
  <2> HIDE DEF L, o, e
  <2>1. L = Len(catalogue) /\ o + 1 \in 1..(L + 1) /\ e \in o..L
    BY <1>2, <1>3 DEF L
  <2> QED
    BY <1>1, <1>3, <1>4, <2>1, SubSeqProperties
<1>6. found' = SubSeq(catalogue, 1, e)
  <2> HIDE DEF o, e
  <2> QED
    BY <1>1, <1>3, <1>4, AdjoiningParts DEF FetchPage
<1>7. CASE LastPage(Page)
  <2>1. e = L
    BY <1>0, <1>2, <1>3, <1>5, <1>7 DEF LastPage
  <2>2. found' = catalogue
    BY <1>1, <1>6, <2>1, SubSeqFull
  <2>3. job' \in {"returned", "archiving"}
    BY <1>7 DEF FetchPage, AfterPaging
  <2> QED
    BY <1>1, <1>u, <2>2, <2>3 DEF PageInv, PagesCoverCatalogue
<1>8. CASE ~LastPage(Page)
  <2>1. e = page * Limit
    BY <1>0, <1>2, <1>3, <1>5, <1>8 DEF LastPage
  <2>2. page' = page + 1 /\ job' = "paging"
    BY <1>8 DEF FetchPage
  <2>3. (page' - 1) * Limit = e /\ page' \in Nat \ {0}
    BY <1>1, <2>1, <2>2
  <2> QED
    BY <1>1, <1>3, <1>6, <1>u, <2>1, <2>2, <2>3 DEF PageInv, PagesCoverCatalogue
<1> QED
  BY <1>7, <1>8

\* The other steps fetch nothing.
LEMMA NextPreserves == PageInv /\ [Next]_collectionVars => PageInv'
<1> SUFFICES ASSUME PageInv, [Next]_collectionVars PROVE PageInv'
  OBVIOUS
<1>1. CASE CatalogueChanges
  BY <1>1 DEF CatalogueChanges, PageInv, PagesCoverCatalogue
<1>2. CASE FetchPageFails
  BY <1>2 DEF FetchPageFails, PageInv, PagesCoverCatalogue, catalogueVars
<1>3. CASE Launch
  BY <1>3 DEF Launch, PageInv, PagesCoverCatalogue, catalogueVars
<1>4. CASE StartTask
  BY <1>4 DEF StartTask, PageInv, PagesCoverCatalogue, catalogueVars
<1>5. CASE Summarise
  BY <1>5 DEF Summarise, PageInv, PagesCoverCatalogue, catalogueVars
<1>6. CASE Exit
  BY <1>6 DEF Exit, PageInv, PagesCoverCatalogue, catalogueVars
<1>7. CASE ContainerLost
  BY <1>7 DEF ContainerLost, PageInv, PagesCoverCatalogue, catalogueVars
<1>8. ASSUME NEW r \in Requests, Collect(r) PROVE PageInv'
  BY <1>8 DEF Collect, PageInv, PagesCoverCatalogue, catalogueVars
<1>9. ASSUME NEW r \in Requests, Work(r) PROVE PageInv'
  BY <1>9 DEF Work, PageInv, PagesCoverCatalogue, catalogueVars, jobVars
<1>10. CASE UNCHANGED collectionVars
  BY <1>10 DEF collectionVars, PageInv, PagesCoverCatalogue, catalogueVars, jobVars
<1> QED
  BY <1>1, <1>2, <1>3, <1>4, <1>5, <1>6, <1>7, <1>8, <1>9, <1>10, FetchPagePreserves
  DEF Next, JobStep

\* Of a catalogue that holds still the job has fetched the beginning.
LEMMA PagesAreTheBeginning == Spec => []PageInv
  BY InitEstablishes, NextPreserves, PTL DEF Spec

\* A collection that nobody changes while the job pages is fetched whole,
\* every granule once, whatever its size and the page size.
THEOREM PaginationIsComplete == Spec => []PagesCoverCatalogue
<1>1. Spec => []PageInv
  BY PagesAreTheBeginning
<1>2. PageInv => PagesCoverCatalogue
  BY DEF PageInv
<1> QED
  BY <1>1, <1>2, PTL

-----------------------------------------------------------------------------
(***************************************************************************)
(* What a success means.                                                    *)
(***************************************************************************)

\* The j-th submission of request r is on record, under its own name.
OnRecord(r, j) ==
  \E row \in Get(sending[r][j].id) : row.subject = <<ItemOf[r], sending[r][j].target>>

\* Progress of one archiver: what is behind its cursor is on record, all of it
\* once it has finished.
Progress(r) ==
  /\ pc[r] \in {"new", "staging"} => pos[r] = 1
  /\ pc[r] # "queued"
  /\ pc[r] \in InLoop => \A j \in DOMAIN sending[r] : j < pos[r] => OnRecord(r, j)
  /\ pc[r] = "store" => OnRecord(r, pos[r])
  /\ pc[r] = "finished" => \A j \in DOMAIN sending[r] : OnRecord(r, j)

JobInv ==
  /\ SenderInv
  /\ \A r \in Requests : Progress(r)
  /\ successful \subseteq {r \in Requests : pc[r] = "finished"}

LEMMA JobInit == Init => JobInv
<1>1. Init => SenderInv
  BY SenderInitTyped DEF Init
<1> QED
  BY <1>1 DEF Init, SenderInit, JobInv, Progress, InLoop

\* What is on record stays, and a request nothing happens to keeps its progress.
LEMMA RecordStays ==
  ASSUME rows \subseteq rows', NEW q, sending'[q] = sending[q]
  PROVE  \A j : OnRecord(q, j) => OnRecord(q, j)'
  BY DEF OnRecord, Get

LEMMA OthersProgress ==
  ASSUME NEW q \in Requests, Progress(q), rows \subseteq rows', pc'[q] = pc[q], pos'[q] = pos[q],
         sending'[q] = sending[q]
  PROVE  Progress(q)'
<1>1. \A k : OnRecord(q, k) => OnRecord(q, k)'
  BY RecordStays
<1> QED
  BY <1>1 DEF Progress

\* The steps of a sender keep the progress of all.
LEMMA SenderProgress ==
  ASSUME JobInv, NEW r \in Requests, Accept(r) \/ Reject(r) \/ ArchiverStep(r)
  PROVE  /\ SenderInv'
         /\ \A q \in Requests : Progress(q)'
         /\ \A q \in Requests : pc[q] = "finished" => pc'[q] = "finished"
<1>1. SenderInv'
  BY SenderKeepsTypes DEF JobInv, SenderNext
<1>2. /\ pc \in [Requests -> {"new", "queued"} \union Running \union Settled]
      /\ pos \in [Requests -> Nat \ {0}] /\ sending \in [Requests -> Seq(PreReq)]
      /\ r \notin Async /\ pc[r] # "queued" /\ Progress(r)
      /\ \A k \in DOMAIN sending[r] : k \in 1..Len(sending[r]) /\ Len(sending[r]) \in Nat
      /\ pc[r] \in InLoop => pos[r] \in DOMAIN sending[r]
  BY CollectionAssumption DEF JobInv, Progress, SenderInv, SenderTypeOK, PosNamesAnIdentifier
<1>3. /\ rows \subseteq rows'
      /\ \A q \in Requests \ {r} :
           pc'[q] = pc[q] /\ pos'[q] = pos[q] /\ sending'[q] = sending[q]
      /\ pc[r] # "finished"
  BY <1>2
  DEF Accept, Reject, ArchiverStep, Invoke, Stage, Trace, Publish, StampSubmit, InsertSubmit,
      StoreSubmit, AddRow, AddRowRaises, storeVars
<1>4. \A q \in Requests \ {r} : Progress(q)'
  BY <1>3, OthersProgress DEF JobInv
<1>5. Progress(r)'
  <2>1. CASE Accept(r) \/ Reject(r)
    BY <2>1, <1>2 DEF Accept, Reject, Progress, InLoop
  <2>2. CASE Stage(r)
    <3>1. pos[r] = 1 /\ pc' = [pc EXCEPT ![r] = pc'[r]] /\ UNCHANGED <<pos, sending>>
          /\ pc'[r] \in {LoopFrom(r, 1), "aborted"}
      BY <2>2, <1>2 DEF Stage, Progress
    <3>2. LoopFrom(r, 1) = "finished" => DOMAIN sending[r] = {}
      BY <1>2 DEF LoopFrom
    <3>3. LoopFrom(r, 1) \in {"trace", "finished"}
      BY DEF LoopFrom
    <3> QED
      BY <1>2, <3>1, <3>2, <3>3 DEF Progress, InLoop
  <2>3. CASE Trace(r) \/ Publish(r) \/ StampSubmit(r)
    <3>1. /\ pc[r] \in {"trace", "publish", "stamp"} /\ pc'[r] \in {"publish", "stamp", "insert", "aborted"}
          /\ UNCHANGED <<rows, pos, sending>>
      BY <2>3, <1>2 DEF Trace, Publish, StampSubmit, storeVars
    <3>2. \A j : OnRecord(r, j) => OnRecord(r, j)'
      BY <3>1, RecordStays
    <3> QED
      BY <1>2, <3>1, <3>2 DEF Progress, InLoop
  <2>4. CASE InsertSubmit(r)
    <3>1. /\ pc[r] = "insert" /\ pc'[r] \in {"store", "aborted"}
          /\ UNCHANGED <<pos, sending>> /\ rows \subseteq rows'
          /\ pc'[r] = "store" => SubmitRow(r) \in rows'
      BY <2>4, <1>2 DEF InsertSubmit, AddRow, AddRowRaises
    <3>2. SubmitRow(r) \in rows' => OnRecord(r, pos[r])'
      BY <3>1 DEF OnRecord, Get, SubmitRow, Current
    <3>3. \A j \in DOMAIN sending[r] : j < pos[r] => OnRecord(r, j)'
      BY <1>2, <3>1, RecordStays DEF Progress, InLoop
    <3> QED
      BY <1>2, <3>1, <3>2, <3>3 DEF Progress, InLoop
  <2>5. CASE StoreSubmit(r)
    <3>1. /\ pc[r] = "store" /\ UNCHANGED <<rows, sending>>
          /\ \/ pc'[r] = LoopFrom(r, pos[r] + 1) /\ pos'[r] = pos[r] + 1
             \/ pc'[r] = "aborted"
      BY <2>5, <1>2 DEF StoreSubmit
    <3>2. \A j \in DOMAIN sending[r] : j < pos[r] + 1 => OnRecord(r, j)'
      <4>1. \A j \in DOMAIN sending[r] : j < pos[r] + 1 => OnRecord(r, j)
        BY <1>2, <3>1 DEF Progress, InLoop
      <4> QED
        BY <3>1, <4>1, RecordStays
    <3>3. LoopFrom(r, pos[r] + 1) \in {"trace", "finished"}
      BY DEF LoopFrom
    <3>4. LoopFrom(r, pos[r] + 1) = "finished" => \A j \in DOMAIN sending[r] : j < pos[r] + 1
      BY <1>2 DEF LoopFrom
    <3> QED
      BY <3>1, <3>2, <3>3, <3>4 DEF Progress, InLoop
  <2>6. CASE Invoke(r)
    BY <2>6, <1>2 DEF Invoke
  <2> QED
    BY <2>1, <2>2, <2>3, <2>4, <2>5, <2>6 DEF ArchiverStep
<1> QED
  BY <1>1, <1>3, <1>4, <1>5

LEMMA NextJobInv == JobInv /\ [Next]_collectionVars => JobInv'
<1> SUFFICES ASSUME JobInv, [Next]_collectionVars PROVE JobInv'
  OBVIOUS
<1>1. ASSUME UNCHANGED <<storeVars, senderVars>>,
             successful' \subseteq {r \in Requests : pc[r] = "finished"}
      PROVE  JobInv'
  <2>1. SenderInv'
    BY <1>1
    DEF JobInv, SenderInv, StoresTypeOK, SenderTypeOK, PosNamesAnIdentifier, storeVars, senderVars
  <2>2. UNCHANGED <<rows, pc, pos, sending>>
    BY <1>1 DEF storeVars, senderVars
  <2>3. \A q \in Requests : Progress(q)'
    BY <2>2, OthersProgress DEF JobInv
  <2> QED
    BY <1>1, <2>1, <2>2, <2>3 DEF JobInv
<1>2. ASSUME NEW r \in Requests, Accept(r) \/ Reject(r) \/ ArchiverStep(r), successful' = successful
      PROVE  JobInv'
  BY <1>2, SenderProgress DEF JobInv
<1>3. CASE CatalogueChanges
  BY <1>1, <1>3 DEF CatalogueChanges, jobVars, JobInv
<1>4. CASE Launch \/ FetchPage \/ FetchPageFails \/ Summarise \/ Exit
  BY <1>1, <1>4 DEF Launch, FetchPage, FetchPageFails, Summarise, Exit, JobInv
<1>5. ASSUME NEW r \in Requests, Collect(r) PROVE JobInv'
  BY <1>1, <1>5 DEF Collect, JobInv
<1>6. CASE StartTask
  <2>1. (Accept(Task(next)) \/ Reject(Task(next))) /\ successful' = successful
    BY <1>6 DEF StartTask
  <2>2. CASE Task(next) \in Requests
    BY <1>2, <2>1, <2>2
  <2>3. CASE Task(next) \notin Requests
    <3>1. DOMAIN pc = Requests /\ DOMAIN sending = Requests
          /\ sending = [r \in Requests |-> sending[r]] /\ pc = [r \in Requests |-> pc[r]]
      BY DEF JobInv, SenderInv, SenderTypeOK
    <3>2. UNCHANGED <<storeVars, senderVars>>
      BY <2>1, <2>3, <3>1 DEF Accept, Reject, senderVars
    <3> QED
      BY <1>1, <2>1, <3>2 DEF JobInv
  <2> QED
    BY <2>2, <2>3
<1>7. ASSUME NEW r \in Requests, Work(r) PROVE JobInv'
  BY <1>2, <1>7 DEF Work, jobVars
<1>8. CASE ContainerLost
  <2>1. /\ pc' = [r \in Requests |-> IF pc[r] \in Running THEN "dropped" ELSE pc[r]]
        /\ UNCHANGED <<storeVars, authorised, sending, pos, status, stamp, attempts, published,
                       successful>>
    BY <1>8 DEF ContainerLost
  <2>2. \A r \in Requests : pc'[r] = pc[r] \/ pc'[r] = "dropped"
    BY <2>1
  <2>3. SenderInv'
    BY <2>1
    DEF JobInv, SenderInv, StoresTypeOK, SenderTypeOK, PosNamesAnIdentifier, InLoop, Settled,
        Running, storeVars
  <2>4. \A r \in Requests : Progress(r)'
    <3>1. ASSUME NEW r \in Requests, pc'[r] = pc[r] PROVE Progress(r)'
      BY <2>1, <3>1, OthersProgress DEF JobInv, storeVars
    <3>2. ASSUME NEW r \in Requests, pc'[r] = "dropped" PROVE Progress(r)'
      BY <3>2 DEF Progress, InLoop
    <3> QED
      BY <2>2, <3>1, <3>2
  <2>5. \A r \in Requests : pc[r] = "finished" => pc'[r] = "finished"
    BY <2>1 DEF Running
  <2> QED
    BY <2>1, <2>3, <2>4, <2>5 DEF JobInv
<1>9. CASE UNCHANGED collectionVars
  BY <1>1, <1>9 DEF collectionVars, jobVars, JobInv
<1> QED
  BY <1>3, <1>4, <1>5, <1>6, <1>7, <1>8, <1>9 DEF Next, JobStep

\* A granule counted as successful has every submission on record, whatever
\* happened beside it: for any pool, any failures and a lost container.
THEOREM SuccessesAreRecorded == Spec => []SuccessMeansRecorded
<1>1. JobInv => SuccessMeansRecorded
  BY DEF JobInv, Progress, OnRecord, SuccessMeansRecorded
<1> QED
  BY <1>1, JobInit, NextJobInv, PTL DEF Spec

-----------------------------------------------------------------------------
(***************************************************************************)
(* Types of the job.                                                        *)
(***************************************************************************)

\* Where the others go when the granule at place i is removed.
LEMMA RemovedElements ==
  ASSUME NEW s \in Seq(Items), NEW i \in DOMAIN s
  PROVE  /\ RemoveAt(s, i) \in Seq(Items) /\ Len(RemoveAt(s, i)) = Len(s) - 1
         /\ \A k \in 1..(Len(s) - 1) : RemoveAt(s, i)[k] = IF k < i THEN s[k] ELSE s[k + 1]
<1> DEFINE u == SubSeq(s, 1, i - 1)
           v == SubSeq(s, i + 1, Len(s))
<1>1. Len(s) \in Nat /\ i \in 1..Len(s)
  BY LenProperties
<1>2. u \in Seq(Items) /\ Len(u) = i - 1 /\ \A k \in 1..(i - 1) : u[k] = s[k]
  BY <1>1, SubSeqProperties
<1>3. v \in Seq(Items) /\ Len(v) = Len(s) - i /\ \A k \in 1..(Len(s) - i) : v[k] = s[i + k]
  BY <1>1, SubSeqProperties
<1>4. /\ u \o v \in Seq(Items) /\ Len(u \o v) = Len(s) - 1
      /\ \A k \in 1..(Len(s) - 1) : (u \o v)[k] = IF k < i THEN s[k] ELSE s[k + 1]
  <2> HIDE DEF u, v
  <2>1. /\ u \o v \in Seq(Items) /\ Len(u \o v) = Len(s) - 1
        /\ \A k \in 1..(Len(s) - 1) : (u \o v)[k] = IF k <= i - 1 THEN u[k] ELSE v[k - (i - 1)]
    <3>1. /\ u \o v \in Seq(Items) /\ Len(u \o v) = Len(u) + Len(v)
          /\ \A k \in 1..(Len(u) + Len(v)) : (u \o v)[k] = IF k <= Len(u) THEN u[k] ELSE v[k - Len(u)]
      BY <1>2, <1>3, ConcatProperties
    <3>2. Len(u) = i - 1 /\ Len(u) + Len(v) = Len(s) - 1
      BY <1>1, <1>2, <1>3
    <3> QED
      BY <3>1, <3>2
  <2>2. ASSUME NEW k \in 1..(Len(s) - 1), k < i PROVE (u \o v)[k] = s[k]
    BY <1>1, <1>2, <2>1, <2>2
  <2>3. ASSUME NEW k \in 1..(Len(s) - 1), ~(k < i) PROVE (u \o v)[k] = s[k + 1]
    <3>1. k - (i - 1) \in 1..(Len(s) - i) /\ i + (k - (i - 1)) = k + 1 /\ ~(k <= i - 1)
      BY <1>1, <2>3
    <3> QED
      BY <1>3, <2>1, <3>1
  <2> QED
    BY <2>1, <2>2, <2>3
<1> QED
  BY <1>4 DEF RemoveAt

\* Whoever adds or removes a granule lists no granule twice.
LEMMA RemovingKeepsOrder ==
  ASSUME NEW s \in Seq(Items), IsInjective(s), NEW i \in DOMAIN s
  PROVE  RemoveAt(s, i) \in Seq(Items) /\ IsInjective(RemoveAt(s, i))
<1> DEFINE w == RemoveAt(s, i)
<1>1. Len(s) \in Nat /\ i \in 1..Len(s)
  BY LenProperties
<1>2. /\ w \in Seq(Items) /\ Len(w) = Len(s) - 1
      /\ \A k \in 1..(Len(s) - 1) : w[k] = IF k < i THEN s[k] ELSE s[k + 1]
  BY RemovedElements
<1> HIDE DEF w
<1>3. DOMAIN w = 1..(Len(s) - 1) /\ DOMAIN s = 1..Len(s)
  BY <1>2, LenProperties
<1>4. ASSUME NEW a \in DOMAIN w, NEW b \in DOMAIN w, w[a] = w[b] PROVE a = b
  <2> DEFINE At(k) == IF k < i THEN k ELSE k + 1
  <2>1. \A k \in DOMAIN w : w[k] = s[At(k)] /\ At(k) \in DOMAIN s
    BY <1>1, <1>2, <1>3
  <2>2. At(a) = At(b)
    <3> HIDE DEF At
    <3> QED
      BY <1>4, <2>1 DEF IsInjective
  <2>3. a \in Int /\ b \in Int
    BY <1>1, <1>3
  <2> QED
    BY <1>1, <2>2, <2>3
<1>5. IsInjective(w)
  BY <1>4 DEF IsInjective
<1> QED
  BY <1>2, <1>5 DEF w

\* Where the others go when a granule is added at place i.
LEMMA InsertedElements ==
  ASSUME NEW s \in Seq(Items), NEW i \in 1..(Len(s) + 1), NEW g \in Items
  PROVE  /\ InsertAt(s, i, g) \in Seq(Items) /\ Len(InsertAt(s, i, g)) = Len(s) + 1
         /\ \A k \in 1..(Len(s) + 1) :
              InsertAt(s, i, g)[k] = IF k < i THEN s[k] ELSE IF k = i THEN g ELSE s[k - 1]
<1> DEFINE u == SubSeq(s, 1, i - 1)
           v == SubSeq(s, i, Len(s))
<1>1. Len(s) \in Nat
  BY LenProperties
<1>2. u \in Seq(Items) /\ Len(u) = i - 1 /\ \A k \in 1..(i - 1) : u[k] = s[k]
  BY <1>1, SubSeqProperties
<1>3. v \in Seq(Items) /\ Len(v) = Len(s) + 1 - i /\ \A k \in 1..(Len(s) + 1 - i) : v[k] = s[i + k - 1]
  BY <1>1, SubSeqProperties
<1>4. /\ u \o <<g>> \in Seq(Items) /\ Len(u \o <<g>>) = i
      /\ \A k \in 1..i : (u \o <<g>>)[k] = IF k < i THEN s[k] ELSE g
  <2> HIDE DEF u
  <2> QED
    BY <1>1, <1>2, ConcatProperties
<1> DEFINE w == u \o <<g>> \o v
<1>5. /\ w \in Seq(Items) /\ Len(w) = Len(s) + 1
      /\ \A k \in 1..(Len(s) + 1) :
           w[k] = IF k < i THEN s[k] ELSE IF k = i THEN g ELSE s[k - 1]
  <2> DEFINE x == u \o <<g>>
  <2> HIDE DEF u, v, x
  <2>1. /\ x \o v \in Seq(Items) /\ Len(x \o v) = Len(s) + 1
        /\ \A k \in 1..(Len(s) + 1) : (x \o v)[k] = IF k <= i THEN x[k] ELSE v[k - i]
    <3>1. /\ x \o v \in Seq(Items) /\ Len(x \o v) = Len(x) + Len(v)
          /\ \A k \in 1..(Len(x) + Len(v)) : (x \o v)[k] = IF k <= Len(x) THEN x[k] ELSE v[k - Len(x)]
      <4>1. x \in Seq(Items)
        BY <1>4 DEF x
      <4> QED
        BY <1>3, <4>1, ConcatProperties
    <3>2. Len(x) = i /\ Len(x) + Len(v) = Len(s) + 1
      <4>1. Len(x) = i
        BY <1>4, Zenon DEF x
      <4> QED
        BY <1>1, <1>3, <4>1
    <3> QED
      BY <3>1, <3>2
  <2>2. w = x \o v
    BY DEF x
  <2> HIDE DEF w
  <2>3. w \in Seq(Items) /\ Len(w) = Len(s) + 1
    BY <2>1, <2>2
  <2>4. ASSUME NEW k \in 1..(Len(s) + 1), k <= i
        PROVE  w[k] = IF k < i THEN s[k] ELSE g
    <3>1. k \in 1..i
      BY <1>1, <2>4
    <3>2. w[k] = x[k]
      BY <2>1, <2>2, <2>4
    <3> QED
      BY <1>4, <3>1, <3>2 DEF x
  <2>5. ASSUME NEW k \in 1..(Len(s) + 1), ~(k <= i) PROVE w[k] = s[k - 1]
    <3>1. k - i \in 1..(Len(s) + 1 - i) /\ i + (k - i) - 1 = k - 1
      BY <1>1, <2>5
    <3>2. w[k] = v[k - i]
      BY <2>1, <2>2, <2>5
    <3> QED
      BY <1>3, <3>1, <3>2
  <2>6. \A k \in 1..(Len(s) + 1) : k <= i => k < i \/ k = i
    BY <1>1
  <2>7. \A k \in 1..(Len(s) + 1) : ~(k <= i) => ~(k < i) /\ k # i
    BY <1>1
  <2>8. ASSUME NEW k \in 1..(Len(s) + 1)
        PROVE  w[k] = IF k < i THEN s[k] ELSE IF k = i THEN g ELSE s[k - 1]
    <3>1. CASE k <= i
      BY <2>4, <2>6, <3>1, Zenon
    <3>2. CASE ~(k <= i)
      BY <2>5, <2>7, <3>2, Zenon
    <3> QED
      BY <3>1, <3>2
  <2> QED
    BY <2>3, <2>8, Zenon
<1> QED
  BY <1>5 DEF InsertAt

LEMMA InsertingKeepsOrder ==
  ASSUME NEW s \in Seq(Items), IsInjective(s), NEW i \in 1..(Len(s) + 1),
         NEW g \in Items \ ToSet(s)
  PROVE  InsertAt(s, i, g) \in Seq(Items) /\ IsInjective(InsertAt(s, i, g))
<1> DEFINE w == InsertAt(s, i, g)
<1>1. Len(s) \in Nat
  BY LenProperties
<1>2. /\ w \in Seq(Items) /\ Len(w) = Len(s) + 1
      /\ \A k \in 1..(Len(s) + 1) :
           w[k] = IF k < i THEN s[k] ELSE IF k = i THEN g ELSE s[k - 1]
  BY InsertedElements
<1> HIDE DEF w
<1>3. DOMAIN w = 1..(Len(s) + 1) /\ DOMAIN s = 1..Len(s)
  BY <1>2, LenProperties
<1>4. \A k \in DOMAIN s : s[k] # g
  BY DEF ToSet
<1>5. ASSUME NEW a \in DOMAIN w, NEW b \in DOMAIN w, w[a] = w[b] PROVE a = b
  <2> DEFINE At(k) == IF k < i THEN k ELSE k - 1
  <2>1. \A k \in DOMAIN w : k # i => w[k] = s[At(k)] /\ At(k) \in DOMAIN s
    BY <1>1, <1>2, <1>3
  <2>2. w[i] = g
    BY <1>1, <1>2, <1>3
  <2>3. a = i <=> b = i
    <3> HIDE DEF At
    <3> QED
      BY <1>4, <1>5, <2>1, <2>2
  <2>4. CASE a # i /\ b # i
    <3>1. At(a) = At(b)
      <4> HIDE DEF At
      <4> QED
        BY <1>5, <2>1, <2>4 DEF IsInjective
    <3> QED
      BY <1>1, <1>3, <2>4, <3>1
  <2> QED
    BY <2>3, <2>4
<1>6. IsInjective(w)
  BY <1>5 DEF IsInjective
<1> QED
  BY <1>2, <1>6 DEF w

\* A page is a sequence of granules.
LEMMA PageTyped ==
  ASSUME catalogue \in Seq(Items), page \in Nat \ {0}
  PROVE  Page \in Seq(Items)
<1>1. Len(catalogue) \in Nat
  BY LenProperties
<1> DEFINE m == (page - 1) * Limit + 1
           n == IF page * Limit <= Len(catalogue) THEN page * Limit ELSE Len(catalogue)
<1>2. Limit \in Nat \ {0}
  BY CollectionAssumption
<1>3. m \in Int /\ 1 <= m /\ n \in Int /\ n <= Len(catalogue)
  BY <1>1, <1>2
<1>4. \A k \in m..n : catalogue[k] \in Items
  BY <1>1, <1>3, ElementOfSeq
<1> HIDE DEF m, n
<1>5. SubSeq(catalogue, m, n) \in Seq(Items)
  BY <1>3, <1>4, SubSeqProperties, SubSeqEmpty, EmptySeq, <1>1
<1> QED
  BY <1>5 DEF Page, m, n

LEMMA InitCollectionTypes == Init => CollectionTypeOK
<1> SUFFICES ASSUME Init PROVE CollectionTypeOK
  OBVIOUS
<1>1. SenderTypeOK
  BY SenderInitTyped DEF Init, SenderInv
<1>2. catalogue \in Seq(Items) /\ IsInjective(catalogue)
  BY DEF Init, Injection
<1>3. changes \in 0..MaxChanges
  BY CollectionAssumption DEF Init
<1>4. found \in Seq(Items) /\ next \in 1..(Len(found) + 1)
  BY EmptySeq DEF Init
<1>5. malformed \in BOOLEAN
  BY Zenon DEF Init
<1>6. /\ stayed \subseteq ToSet(catalogue) /\ page \in Nat \ {0}
      /\ successful \union failed \subseteq Requests /\ successful \intersect failed = {}
      /\ job = "idle" /\ exit = "none"
  BY DEF Init
<1> QED
  BY <1>1, <1>2, <1>3, <1>4, <1>5, <1>6, Zenon DEF CollectionTypeOK

LEMMA NextCollectionTypes ==
  CollectionTypeOK /\ JobInv /\ JobInv' /\ [Next]_collectionVars => CollectionTypeOK'
<1> SUFFICES ASSUME CollectionTypeOK, JobInv', [Next]_collectionVars PROVE CollectionTypeOK'
  OBVIOUS
<1> USE DEF CollectionTypeOK
<1>0. SenderTypeOK'
  BY DEF JobInv, SenderInv
<1>1. CASE CatalogueChanges
  <2>1. catalogue' \in Seq(Items) /\ IsInjective(catalogue')
    BY <1>1, RemovingKeepsOrder, InsertingKeepsOrder DEF CatalogueChanges
  <2>2. changes' \in 0..MaxChanges
    BY <1>1, CollectionAssumption DEF CatalogueChanges
  <2> QED
    BY <1>0, <1>1, <2>1, <2>2 DEF CatalogueChanges, jobVars
<1>2. CASE FetchPage
  <2>1. Page \in Seq(Items)
    BY PageTyped
  <2>2. found' \in Seq(Items) /\ Len(found') >= Len(found) /\ Len(found') \in Nat /\ Len(found) \in Nat
    BY <1>2, <2>1, ConcatProperties, LenProperties DEF FetchPage
  <2>3. next' \in 1..(Len(found') + 1)
    BY <1>2, <2>2 DEF FetchPage
  <2>4. job' \in {"paging", "archiving", "returned"} /\ page' \in Nat \ {0}
    BY <1>2 DEF FetchPage, AfterPaging
  <2> QED
    BY <1>0, <1>2, <2>2, <2>3, <2>4 DEF FetchPage, catalogueVars
<1>3. CASE Launch \/ FetchPageFails \/ Summarise \/ Exit \/ ContainerLost
  BY <1>0, <1>3
  DEF Launch, FetchPageFails, AfterPaging, Summarise, Exit, ContainerLost, catalogueVars
<1>4. CASE StartTask
  <2>1. next' \in 1..(Len(found) + 1)
    BY <1>4, LenProperties DEF StartTask
  <2> QED
    BY <1>0, <1>4, <2>1 DEF StartTask, catalogueVars
<1>5. ASSUME NEW r \in Requests, Collect(r) PROVE CollectionTypeOK'
  BY <1>0, <1>5 DEF Collect, catalogueVars
<1>6. ASSUME NEW r \in Requests, Work(r) PROVE CollectionTypeOK'
  BY <1>0, <1>6 DEF Work, catalogueVars, jobVars
<1>7. CASE UNCHANGED collectionVars
  BY <1>0, <1>7 DEF collectionVars, catalogueVars, jobVars
<1> QED
  BY <1>1, <1>2, <1>3, <1>4, <1>5, <1>6, <1>7 DEF Next, JobStep

\* A granule never counts twice, and the pool stays within the fetched list.
THEOREM CollectionTypes == Spec => []CollectionTypeOK
  BY JobInit, NextJobInv, InitCollectionTypes, NextCollectionTypes, PTL DEF Spec

-----------------------------------------------------------------------------
(***************************************************************************)
(* What a change of the catalogue costs.                                    *)
(***************************************************************************)

\* What a sequence lists is finite, and as many as its places if it lists
\* nothing twice.
LEMMA ListedIsFinite ==
  ASSUME NEW S, NEW s \in Seq(S)
  PROVE  /\ IsFiniteSet(ToSet(s)) /\ Len(s) \in Nat
         /\ IsInjective(s) => Cardinality(ToSet(s)) = Len(s)
<1>1. Len(s) \in Nat /\ DOMAIN s = 1..Len(s) /\ s \in [1..Len(s) -> S]
  BY LenProperties
<1>2. s \in Surjection(1..Len(s), ToSet(s))
  BY <1>1 DEF Surjection, ToSet
<1>3. IsFiniteSet(1..Len(s)) /\ Cardinality(1..Len(s)) = Len(s)
  BY <1>1, FS_Interval
<1>4. /\ IsFiniteSet(ToSet(s))
      /\ Cardinality(ToSet(s)) = Cardinality(1..Len(s)) <=> s \in Injection(1..Len(s), ToSet(s))
  BY <1>2, <1>3, FS_Surjection
<1>5. IsInjective(s) => s \in Injection(1..Len(s), ToSet(s))
  BY <1>1, <1>2 DEF IsInjective, Injection, Surjection
<1> QED
  BY <1>1, <1>3, <1>4, <1>5

LEMMA BeyondIsListed ==
  ASSUME NEW S, NEW s \in Seq(S), NEW o
  PROVE  Beyond(s, o) \subseteq ToSet(s) /\ IsFiniteSet(Beyond(s, o))
<1>1. Beyond(s, o) \subseteq ToSet(s)
  BY DEF Beyond, ToSet
<1> QED
  BY <1>1, ListedIsFinite, FS_Subset

\* What is removed or added moves at most one granule across a page boundary.
LEMMA RemovingMovesOne ==
  ASSUME NEW s \in Seq(Items), IsInjective(s), NEW i \in DOMAIN s, NEW o \in Nat
  PROVE  /\ Beyond(RemoveAt(s, i), o) \subseteq Beyond(s, o)
         /\ ToSet(RemoveAt(s, i)) \intersect Beyond(s, o)
              \subseteq Beyond(RemoveAt(s, i), o) \union {s[o + 1]}
<1> DEFINE w == RemoveAt(s, i)
<1>1. Len(s) \in Nat /\ i \in 1..Len(s) /\ DOMAIN s = 1..Len(s)
  BY LenProperties
<1>2. /\ w \in Seq(Items) /\ Len(w) = Len(s) - 1
      /\ \A k \in 1..(Len(s) - 1) : w[k] = IF k < i THEN s[k] ELSE s[k + 1]
  BY RemovedElements
<1> HIDE DEF w
<1>3. DOMAIN w = 1..(Len(s) - 1)
  BY <1>2, LenProperties
<1>4. Beyond(w, o) \subseteq Beyond(s, o)
  <2> SUFFICES ASSUME NEW k \in DOMAIN w, k > o PROVE w[k] \in Beyond(s, o)
    BY DEF Beyond
  <2>1. CASE k < i
    <3>1. w[k] = s[k] /\ k \in DOMAIN s
      BY <1>1, <1>2, <1>3, <2>1
    <3> QED
      BY <3>1 DEF Beyond
  <2>2. CASE ~(k < i)
    <3>1. w[k] = s[k + 1] /\ k + 1 \in DOMAIN s /\ k + 1 > o
      BY <1>1, <1>2, <1>3, <2>2
    <3> QED
      BY <3>1 DEF Beyond
  <2> QED
    BY <2>1, <2>2
<1>5. s[i] \notin ToSet(w)
  <2> SUFFICES ASSUME NEW k \in DOMAIN w, w[k] = s[i] PROVE FALSE
    BY DEF ToSet
  <2>1. CASE k < i
    <3>1. w[k] = s[k] /\ k \in DOMAIN s /\ k # i
      BY <1>1, <1>2, <1>3, <2>1
    <3> QED
      BY <3>1 DEF IsInjective
  <2>2. CASE ~(k < i)
    <3>1. w[k] = s[k + 1] /\ k + 1 \in DOMAIN s /\ k + 1 # i
      BY <1>1, <1>2, <1>3, <2>2
    <3> QED
      BY <3>1 DEF IsInjective
  <2> QED
    BY <2>1, <2>2
<1>6. ASSUME NEW k \in DOMAIN s, k > o, k # i, k # o + 1 PROVE s[k] \in Beyond(w, o)
  <2>1. CASE k < i
    <3>1. w[k] = s[k] /\ k \in DOMAIN w
      BY <1>1, <1>2, <1>3, <2>1
    <3> QED
      BY <1>6, <3>1 DEF Beyond
  <2>2. CASE ~(k < i)
    <3>1. k - 1 \in 1..(Len(s) - 1) /\ ~(k - 1 < i) /\ k - 1 + 1 = k /\ k - 1 > o
      BY <1>1, <1>6, <2>2
    <3>2. w[k - 1] = s[k]
      BY <1>2, <3>1
    <3> QED
      BY <1>3, <3>1, <3>2 DEF Beyond
  <2> QED
    BY <2>1, <2>2
<1>7. ToSet(w) \intersect Beyond(s, o) \subseteq Beyond(w, o) \union {s[o + 1]}
  BY <1>5, <1>6 DEF Beyond
<1> QED
  BY <1>4, <1>7 DEF w

LEMMA InsertingMovesOne ==
  ASSUME NEW s \in Seq(Items), NEW i \in 1..(Len(s) + 1), NEW g \in Items, NEW o \in Nat
  PROVE  /\ \E x : Beyond(InsertAt(s, i, g), o) \subseteq Beyond(s, o) \union {x}
         /\ Beyond(s, o) \subseteq Beyond(InsertAt(s, i, g), o)
<1>1. Len(s) \in Nat /\ DOMAIN s = 1..Len(s)
  BY LenProperties
<1>2. PICK w : /\ w = InsertAt(s, i, g)
               /\ w \in Seq(Items) /\ Len(w) = Len(s) + 1
               /\ \A k \in 1..(Len(s) + 1) :
                    w[k] = IF k < i THEN s[k] ELSE IF k = i THEN g ELSE s[k - 1]
  <2> DEFINE v == InsertAt(s, i, g)
  <2>1. v \in Seq(Items) /\ Len(v) = Len(s) + 1
    BY InsertedElements
  <2>2. \A k \in 1..(Len(s) + 1) :
          v[k] = IF k < i THEN s[k] ELSE IF k = i THEN g ELSE s[k - 1]
    BY InsertedElements
  <2> HIDE DEF v
  <2> QED
    BY <2>1, <2>2 DEF v
<1>3. DOMAIN w = 1..(Len(s) + 1)
  BY <1>2, LenProperties
<1> DEFINE x == IF i <= o THEN s[o] ELSE g
<1>4. ASSUME NEW k \in DOMAIN w, k > o PROVE w[k] \in Beyond(s, o) \union {x}
  <2>1. CASE k < i
    <3>1. w[k] = s[k] /\ k \in DOMAIN s
      BY <1>1, <1>2, <1>3, <2>1
    <3> QED
      BY <1>4, <3>1 DEF Beyond
  <2>2. CASE k = i
    <3>1. w[k] = g /\ ~(i <= o)
      BY <1>1, <1>2, <1>3, <1>4, <2>2
    <3> QED
      BY <3>1
  <2>3. CASE k > i /\ k = o + 1
    <3>1. w[k] = s[k - 1] /\ i <= o /\ k - 1 = o
      BY <1>1, <1>2, <1>3, <2>3
    <3> QED
      BY <3>1
  <2>4. CASE k > i /\ k # o + 1
    <3>1. k \in 1..(Len(s) + 1) /\ ~(k < i) /\ k # i
      BY <1>1, <1>3, <2>4
    <3>2. w[k] = s[k - 1]
      BY <1>2, <3>1
    <3>3. k - 1 \in DOMAIN s /\ k - 1 > o
      BY <1>1, <1>3, <1>4, <2>4
    <3> QED
      BY <3>2, <3>3 DEF Beyond
  <2> QED
    BY <1>1, <1>3, <2>1, <2>2, <2>3, <2>4
<1>5. ASSUME NEW k \in DOMAIN s, k > o PROVE s[k] \in Beyond(w, o)
  <2>1. CASE k < i
    <3>1. w[k] = s[k] /\ k \in DOMAIN w
      BY <1>1, <1>2, <1>3, <2>1
    <3> QED
      BY <1>5, <3>1 DEF Beyond
  <2>2. CASE ~(k < i)
    <3>1. k + 1 \in 1..(Len(s) + 1) /\ ~(k + 1 < i) /\ k + 1 # i /\ k + 1 - 1 = k /\ k + 1 > o
      BY <1>1, <1>5, <2>2
    <3>2. w[k + 1] = s[k]
      BY <1>2, <3>1
    <3> QED
      BY <1>3, <3>1, <3>2 DEF Beyond
  <2> QED
    BY <2>1, <2>2
<1>6. Beyond(w, o) \subseteq Beyond(s, o) \union {x}
  BY <1>4 DEF Beyond
<1>7. Beyond(s, o) \subseteq Beyond(w, o)
  BY <1>5 DEF Beyond
<1> QED
  BY <1>2, <1>6, <1>7

\* A page takes its granules off what is ahead; the last one leaves nothing.
LEMMA PageSplitsAhead ==
  ASSUME catalogue \in Seq(Items), IsInjective(catalogue), page \in Nat \ {0}
  PROVE  /\ Page \in Seq(Items)
         /\ Ahead = ToSet(Page) \union Beyond(catalogue, page * Limit)
         /\ ToSet(Page) \intersect Beyond(catalogue, page * Limit) = {}
         /\ Cardinality(ToSet(Page)) = Len(Page)
         /\ LastPage(Page) => Beyond(catalogue, page * Limit) = {}
<1> DEFINE L == Len(catalogue)
           o == (page - 1) * Limit
           n == page * Limit
           e == IF n <= L THEN n ELSE L
           P == Page
<1>1. L \in Nat /\ DOMAIN catalogue = 1..L /\ Limit \in Nat \ {0}
  BY LenProperties, CollectionAssumption
<1>2. o \in Nat /\ n \in Nat /\ n = o + Limit
  BY <1>1
<1>3. P \in Seq(Items)
  BY PageTyped
<1>4. P = SubSeq(catalogue, o + 1, e) /\ Ahead = Beyond(catalogue, o)
  BY DEF Page, Ahead
<1> HIDE DEF P, o, n, L
<1>5. e \in Nat /\ e <= L /\ e <= n
  BY <1>1, <1>2
<1>6. /\ Len(P) = IF o <= e THEN e - o ELSE 0
      /\ \A k \in 1..Len(P) : P[k] = catalogue[o + k]
      /\ DOMAIN P = 1..Len(P)
  <2>1. CASE o <= e
    <3>1. /\ Len(P) = e - o
          /\ \A k \in 1..(e - o) : P[k] = catalogue[o + k]
      <4> HIDE DEF e
      <4>1. /\ Len(P) = e - (o + 1) + 1
            /\ \A k \in 1..(e - (o + 1) + 1) : P[k] = catalogue[(o + 1) + k - 1]
        <5>1. o + 1 \in 1..(Len(catalogue) + 1) /\ e \in (o + 1) - 1..Len(catalogue)
          BY <1>1, <1>2, <1>5, <2>1 DEF L
        <5> QED
          BY <1>4, <5>1, SubSeqProperties
      <4> QED
        BY <1>2, <1>5, <4>1
    <3> QED
      BY <1>3, <2>1, <3>1, LenProperties
  <2>2. CASE ~(o <= e)
    <3>1. P = << >>
      <4>1. o + 1 > e
        BY <1>2, <1>5, <2>2
      <4> QED
        BY <1>2, <1>4, <1>5, <4>1, SubSeqEmpty
    <3> QED
      BY <1>3, <2>2, <3>1, LenProperties
  <2> QED
    BY <2>1, <2>2
<1>7. \A k \in DOMAIN P : o + k \in DOMAIN catalogue /\ o + k > o /\ o + k <= n
  BY <1>1, <1>2, <1>5, <1>6
<1>8. \A j \in DOMAIN catalogue : j > o /\ ~(j > n) => j - o \in DOMAIN P /\ o + (j - o) = j
  BY <1>1, <1>2, <1>6
<1>9. Ahead = ToSet(P) \union Beyond(catalogue, n)
  <2>1. ToSet(P) \subseteq Ahead
    BY <1>4, <1>6, <1>7 DEF Beyond, ToSet
  <2>2. Beyond(catalogue, n) \subseteq Ahead
    <3>1. \A j \in DOMAIN catalogue : j > n => j > o
      BY <1>1, <1>2
    <3> QED
      BY <1>4, <3>1 DEF Beyond
  <2>3. ASSUME NEW j \in DOMAIN catalogue, j > o
        PROVE  catalogue[j] \in ToSet(P) \union Beyond(catalogue, n)
    <3>1. CASE j > n
      BY <3>1 DEF Beyond
    <3>2. CASE ~(j > n)
      <4>1. catalogue[j] = P[j - o] /\ j - o \in DOMAIN P
        BY <1>6, <1>8, <2>3, <3>2
      <4> QED
        BY <4>1 DEF ToSet
    <3> QED
      BY <3>1, <3>2
  <2>4. Ahead \subseteq ToSet(P) \union Beyond(catalogue, n)
    BY <1>4, <2>3 DEF Beyond
  <2> QED
    BY <2>1, <2>2, <2>4
<1>10. ToSet(P) \intersect Beyond(catalogue, n) = {}
  <2> SUFFICES ASSUME NEW k \in DOMAIN P, NEW j \in DOMAIN catalogue, j > n,
                      P[k] = catalogue[j]
               PROVE  FALSE
    BY DEF ToSet, Beyond
  <2>1. o + k = j
    BY <1>6, <1>7 DEF IsInjective
  <2> QED
    BY <1>1, <1>2, <1>6, <1>7, <2>1
<1>11. IsInjective(P)
  <2> SUFFICES ASSUME NEW a \in DOMAIN P, NEW b \in DOMAIN P, P[a] = P[b] PROVE a = b
    BY DEF IsInjective
  <2>1. o + a = o + b
    BY <1>6, <1>7 DEF IsInjective
  <2> QED
    BY <1>2, <1>6, <2>1
<1>12. Cardinality(ToSet(P)) = Len(P)
  BY <1>3, <1>11, ListedIsFinite
<1>13. ASSUME Len(P) < Limit PROVE Beyond(catalogue, n) = {}
  <2>1. ~(n <= L)
    BY <1>1, <1>2, <1>6, <1>13
  <2>2. \A j \in DOMAIN catalogue : ~(j > n)
    BY <1>1, <1>2, <2>1
  <2> QED
    BY <2>2 DEF Beyond
<1> QED
  BY <1>3, <1>9, <1>10, <1>12, <1>13 DEF P, n, LastPage

LEMMA InitChangeCost == Init => ChangeCostInv
<1> SUFFICES ASSUME Init PROVE ChangeCostInv
  OBVIOUS
<1>1. /\ catalogue \in Seq(Items) /\ stayed = ToSet(catalogue) /\ changes = 0
      /\ found = << >> /\ page = 1 /\ job = "idle" /\ malformed = FALSE
  BY DEF Init, Injection
<1>2. ToSet(found) = {} /\ Len(found) = 0
  BY <1>1 DEF ToSet
<1>3. Ahead = ToSet(catalogue)
  <2>1. (page - 1) * Limit = 0 /\ \A k \in DOMAIN catalogue : k > 0
    BY <1>1, CollectionAssumption, LenProperties
  <2> QED
    BY <2>1 DEF Ahead, Beyond, ToSet
<1>4. stayed \ (ToSet(found) \union Ahead) = {} /\ Ahead \intersect ToSet(found) = {}
  BY <1>1, <1>2, <1>3
<1>5. Cardinality({}) = 0
  BY FS_EmptySet
<1>6. /\ Cardinality(stayed \ (ToSet(found) \union Ahead)) <= changes
      /\ Len(found) + Cardinality(Ahead \intersect ToSet(found)) <= Cardinality(ToSet(found)) + changes
      /\ Len(found) - Cardinality(ToSet(found)) <= changes
  <2>1. /\ Cardinality(stayed \ (ToSet(found) \union Ahead)) = 0
        /\ Cardinality(Ahead \intersect ToSet(found)) = 0
        /\ Cardinality(ToSet(found)) = 0
    BY <1>2, <1>4, <1>5, Zenon
  <2> QED
    BY <1>1, <1>2, <2>1
<1> QED
  BY <1>1, <1>6 DEF ChangeCostInv

\* A change of the catalogue costs what `changes` counts.
LEMMA ChangePreservesCost ==
  CollectionTypeOK /\ ChangeCostInv /\ CatalogueChanges => ChangeCostInv'
<1> SUFFICES ASSUME CollectionTypeOK, ChangeCostInv, CatalogueChanges
             PROVE  ChangeCostInv'
  OBVIOUS
<1> DEFINE o == (page - 1) * Limit
           F == ToSet(found)
           A == Beyond(catalogue, o)
           B == Beyond(catalogue', o)
<1>1. /\ catalogue \in Seq(Items) /\ IsInjective(catalogue) /\ found \in Seq(Items)
      /\ stayed \subseteq ToSet(catalogue) /\ changes \in Nat /\ o \in Nat
  BY CollectionAssumption DEF CollectionTypeOK
<1>2. /\ changes' = changes + 1 /\ stayed' = stayed \intersect ToSet(catalogue')
      /\ UNCHANGED <<malformed, job, page, found>>
      /\ job \in {"idle", "paging"}
  BY DEF CatalogueChanges, jobVars
<1>3. /\ Ahead = A /\ Ahead' = B /\ ToSet(found)' = F
  BY <1>2 DEF Ahead, Beyond
<1>4. /\ Cardinality(stayed \ (F \union A)) <= changes
      /\ Len(found) + Cardinality(A \intersect F) <= Cardinality(F) + changes
  BY <1>2, <1>3 DEF ChangeCostInv
<1> HIDE DEF o, A, B, F
<1>5. PICK x, y : B \subseteq A \union {x} /\ ToSet(catalogue') \intersect A \subseteq B \union {y}
  <2>1. CASE \E i \in DOMAIN catalogue : catalogue' = RemoveAt(catalogue, i)
    <3>1. PICK i \in DOMAIN catalogue : catalogue' = RemoveAt(catalogue, i)
      BY <2>1
    <3>2. /\ B \subseteq A
          /\ ToSet(catalogue') \intersect A \subseteq B \union {catalogue[o + 1]}
      BY <1>1, <3>1, RemovingMovesOne DEF A, B
    <3> QED
      BY <3>2
  <2>2. CASE \E i \in 1..(Len(catalogue) + 1), g \in Items \ ToSet(catalogue) :
               catalogue' = InsertAt(catalogue, i, g)
    <3>1. PICK i \in 1..(Len(catalogue) + 1), g \in Items :
            catalogue' = InsertAt(catalogue, i, g)
      BY <2>2
    <3>2. /\ \E x : Beyond(InsertAt(catalogue, i, g), o) \subseteq Beyond(catalogue, o) \union {x}
          /\ Beyond(catalogue, o) \subseteq Beyond(InsertAt(catalogue, i, g), o)
      BY <1>1, <3>1, InsertingMovesOne
    <3>3. (\E x : B \subseteq A \union {x}) /\ A \subseteq B
      BY <3>1, <3>2, Zenon DEF A, B
    <3> QED
      BY <3>3
  <2> QED
    BY <2>1, <2>2 DEF CatalogueChanges
<1>6. IsFiniteSet(stayed) /\ IsFiniteSet(F) /\ Len(found) \in Nat
  BY <1>1, ListedIsFinite, FS_Subset DEF F
<1>7. Cardinality(stayed' \ (F \union B)) <= changes + 1
  <2> DEFINE M == stayed \ (F \union A)
  <2>1. stayed' \ (F \union B) \in SUBSET (M \union {y})
    BY <1>2, <1>5
  <2>2. IsFiniteSet(M)
    BY <1>6, FS_Difference
  <2> HIDE DEF M
  <2>3. /\ IsFiniteSet(M \union {y}) /\ Cardinality(M) \in Nat
        /\ Cardinality(M \union {y}) <= Cardinality(M) + 1
    BY <2>2, FS_AddElement, FS_CardinalityType
  <2>4. /\ Cardinality(stayed' \ (F \union B)) <= Cardinality(M \union {y})
        /\ Cardinality(stayed' \ (F \union B)) \in Nat /\ Cardinality(M \union {y}) \in Nat
    BY <2>1, <2>3, FS_Subset, FS_CardinalityType
  <2>5. Cardinality(M) <= changes
    BY <1>4 DEF M
  <2> QED
    BY <1>1, <2>3, <2>4, <2>5
<1>8. Len(found) + Cardinality(B \intersect F) <= Cardinality(F) + (changes + 1)
  <2> DEFINE M == A \intersect F
             N == B \intersect F
  <2>1. N \in SUBSET (M \union {x})
    BY <1>5
  <2>2. IsFiniteSet(M) /\ Cardinality(F) \in Nat
    BY <1>6, FS_Intersection, FS_CardinalityType
  <2>3. Len(found) + Cardinality(M) <= Cardinality(F) + changes
    BY <1>4
  <2>4. SUFFICES Len(found) + Cardinality(N) <= Cardinality(F) + (changes + 1)
    OBVIOUS
  <2> HIDE DEF M, N
  <2>5. /\ IsFiniteSet(M \union {x}) /\ Cardinality(M) \in Nat
        /\ Cardinality(M \union {x}) <= Cardinality(M) + 1
    <3>1. Cardinality(M) \in Nat
      BY <2>2, FS_CardinalityType
    <3>2. /\ IsFiniteSet(M \union {x})
          /\ Cardinality(M \union {x}) = IF x \in M THEN Cardinality(M) ELSE Cardinality(M) + 1
      BY <2>2, FS_AddElement
    <3> QED
      BY <3>1, <3>2
  <2>6. /\ Cardinality(N) <= Cardinality(M \union {x})
        /\ Cardinality(N) \in Nat /\ Cardinality(M \union {x}) \in Nat
    BY <2>1, <2>5, FS_Subset, FS_CardinalityType
  <2> QED
    BY <1>1, <1>6, <2>2, <2>3, <2>5, <2>6
<1> QED
  <2>1. ~malformed /\ Len(found) - Cardinality(F) <= changes
    BY <1>2 DEF ChangeCostInv, F
  <2>2. Cardinality(F) \in Nat
    BY <1>6, FS_CardinalityType
  <2>3. Len(found) - Cardinality(F) <= changes + 1
    BY <1>1, <1>6, <2>1, <2>2
  <2> QED
    BY <1>2, <1>3, <1>7, <1>8, <2>1, <2>3 DEF ChangeCostInv

\* Taking n elements P off what is ahead: those that F holds already were counted.
LEMMA TakingKeepsTheCount ==
  ASSUME NEW F, NEW P, NEW B, IsFiniteSet(F), IsFiniteSet(P), IsFiniteSet(B),
         P \intersect B = {}, NEW n \in Nat, Cardinality(P) = n,
         NEW m \in Nat, NEW c \in Nat,
         m + Cardinality((P \union B) \intersect F) <= Cardinality(F) + c
  PROVE  m + n + Cardinality(B \intersect (F \union P)) <= Cardinality(F \union P) + c
<1> DEFINE M == B \intersect F
           N == P \intersect F
<1>1. /\ B \intersect (F \union P) = M /\ (P \union B) \intersect F = M \union N
      /\ M \intersect N = {} /\ F \intersect P = N
  OBVIOUS
<1>2. IsFiniteSet(M) /\ IsFiniteSet(N)
  BY FS_Intersection
<1>3. Cardinality(F \union P) = Cardinality(F) + n - Cardinality(N)
  BY <1>1, FS_Union
<1> HIDE DEF M, N
<1>4. Cardinality(M \union N) = Cardinality(M) + Cardinality(N)
  <2>1. /\ Cardinality(M \union N) = Cardinality(M) + Cardinality(N) - Cardinality(M \intersect N)
        /\ Cardinality(M) \in Nat /\ Cardinality(N) \in Nat
    BY <1>2, FS_Union, FS_CardinalityType
  <2>2. Cardinality(M \intersect N) = 0
    BY <1>1, FS_EmptySet
  <2> QED
    BY <2>1, <2>2
<1>5. Cardinality(M) \in Nat /\ Cardinality(N) \in Nat /\ Cardinality(F) \in Nat
  BY <1>2, FS_CardinalityType
<1>6. m + (Cardinality(M) + Cardinality(N)) <= Cardinality(F) + c
  BY <1>1, <1>4
<1>7. m + n + Cardinality(M) <= Cardinality(F \union P) + c
  BY <1>3, <1>5, <1>6
<1> QED
  BY <1>1, <1>7

\* A page takes what was ahead, each granule once: what was fetched before and is
\* ahead no more was already allowed for.
LEMMA FetchPagePreservesCost ==
  CollectionTypeOK /\ ChangeCostInv /\ FetchPage => ChangeCostInv'
<1> SUFFICES ASSUME CollectionTypeOK, ChangeCostInv, FetchPage
             PROVE  ChangeCostInv'
  OBVIOUS
<1> DEFINE F == ToSet(found)
           P == ToSet(Page)
           B == Beyond(catalogue, page * Limit)
<1>1. /\ catalogue \in Seq(Items) /\ IsInjective(catalogue) /\ found \in Seq(Items)
      /\ stayed \subseteq ToSet(catalogue) /\ changes \in Nat /\ page \in Nat \ {0}
  BY CollectionAssumption DEF CollectionTypeOK
<1>2. /\ found' = found \o Page /\ UNCHANGED <<catalogue, stayed, changes, malformed>>
      /\ job = "paging"
  BY DEF FetchPage, catalogueVars
<1>3. /\ Page \in Seq(Items) /\ Ahead = P \union B /\ P \intersect B = {}
      /\ Cardinality(P) = Len(Page)
      /\ LastPage(Page) => B = {}
  BY <1>1, PageSplitsAhead
<1>4. /\ Cardinality(stayed \ (F \union (P \union B))) <= changes
      /\ Len(found) + Cardinality((P \union B) \intersect F) <= Cardinality(F) + changes
  BY <1>2, <1>3 DEF ChangeCostInv
<1>5. Len(found') = Len(found) + Len(Page) /\ ToSet(found)' = F \union P
  <2>1. /\ found' \in Seq(Items) /\ Len(found') = Len(found) + Len(Page)
        /\ Len(found) \in Nat /\ Len(Page) \in Nat
        /\ \A k \in 1..(Len(found) + Len(Page)) :
             found'[k] = IF k <= Len(found) THEN found[k] ELSE Page[k - Len(found)]
    BY <1>1, <1>2, <1>3, ConcatProperties, LenProperties
  <2>2. /\ DOMAIN found' = 1..(Len(found) + Len(Page)) /\ DOMAIN found = 1..Len(found)
        /\ DOMAIN Page = 1..Len(Page)
    BY <1>1, <1>3, <2>1, LenProperties
  <2>3. ASSUME NEW k \in DOMAIN found' PROVE found'[k] \in F \union P
    <3>1. CASE k <= Len(found)
      <4>1. found'[k] = found[k] /\ k \in DOMAIN found
        BY <2>1, <2>2, <3>1
      <4> QED
        BY <4>1 DEF ToSet
    <3>2. CASE ~(k <= Len(found))
      <4>1. found'[k] = Page[k - Len(found)] /\ k - Len(found) \in DOMAIN Page
        BY <2>1, <2>2, <3>2
      <4> QED
        BY <4>1 DEF ToSet
    <3> QED
      BY <3>1, <3>2
  <2>4. \A k \in DOMAIN found : found[k] = found'[k] /\ k \in DOMAIN found'
    BY <2>1, <2>2
  <2>5. ASSUME NEW k \in DOMAIN Page PROVE Page[k] \in ToSet(found')
    <3>1. /\ Len(found) + k \in DOMAIN found' /\ ~(Len(found) + k <= Len(found))
          /\ Len(found) + k - Len(found) = k
      BY <2>1, <2>2
    <3>2. found'[Len(found) + k] = Page[k]
      BY <2>1, <2>2, <3>1
    <3> QED
      BY <3>1, <3>2 DEF ToSet
  <2>6. ToSet(found)' = ToSet(found')
    BY DEF ToSet
  <2>7. ToSet(found') \subseteq F \union P
    BY <2>3 DEF ToSet
  <2>8. F \union P \subseteq ToSet(found')
    BY <2>4, <2>5 DEF ToSet
  <2> QED
    BY <2>1, <2>6, <2>7, <2>8
<1>6. /\ IsFiniteSet(F) /\ IsFiniteSet(P) /\ IsFiniteSet(B)
      /\ Len(found) \in Nat /\ Len(Page) \in Nat
  BY <1>1, <1>3, ListedIsFinite, BeyondIsListed
<1>7. Cardinality(stayed \ ((F \union P) \union B)) <= changes
  <2>1. (F \union P) \union B = F \union (P \union B)
    OBVIOUS
  <2> QED
    BY <1>4, <2>1
<1>8. Len(found) + Len(Page) + Cardinality(B \intersect (F \union P))
        <= Cardinality(F \union P) + changes
  BY <1>1, <1>3, <1>4, <1>6, TakingKeepsTheCount
<1>9. ~malformed' /\ Len(found') - Cardinality(F \union P) <= changes
  <2>1. /\ Cardinality(B \intersect (F \union P)) \in Nat
        /\ Cardinality(F \union P) \in Nat
    BY <1>6, FS_Union, FS_Intersection, FS_CardinalityType
  <2> QED
    BY <1>1, <1>2, <1>5, <1>6, <1>8, <2>1 DEF ChangeCostInv
<1>10. CASE LastPage(Page)
  <2>1. job' = AfterPaging(found') /\ B = {}
    BY <1>3, <1>10 DEF FetchPage
  <2>2. job' \in {"returned", "archiving"}
    BY <2>1 DEF AfterPaging
  <2>3. Cardinality(stayed \ (F \union P)) <= changes
    <3>1. stayed \ ((F \union P) \union B) = stayed \ (F \union P)
      BY <2>1
    <3> QED
      BY <1>7, <3>1
  <2> QED
    BY <1>2, <1>5, <1>9, <2>2, <2>3 DEF ChangeCostInv
<1>11. CASE ~LastPage(Page)
  <2>1. page' = page + 1 /\ job' = "paging"
    BY <1>2, <1>11 DEF FetchPage
  <2>2. (page' - 1) * Limit = page * Limit
    BY <1>1, <2>1, CollectionAssumption
  <2>3. Ahead' = B
    BY <1>2, <2>2 DEF Ahead, Beyond
  <2> QED
    BY <1>2, <1>5, <1>7, <1>8, <1>9, <2>1, <2>3 DEF ChangeCostInv
<1> QED
  BY <1>10, <1>11

\* The other steps neither fetch nor move anything.
LEMMA NextChangeCost ==
  CollectionTypeOK /\ ChangeCostInv /\ [Next]_collectionVars => ChangeCostInv'
<1> SUFFICES ASSUME ChangeCostInv, [Next]_collectionVars,
                    ~CatalogueChanges, ~FetchPage
             PROVE  ChangeCostInv'
  BY ChangePreservesCost, FetchPagePreservesCost
<1>1. ASSUME UNCHANGED <<catalogue, stayed, changes, malformed, page, found>>,
             job' \in {"idle", "paging", "archiving", "returned"} =>
               \/ job' = job
               \/ {job, job'} \subseteq {"idle", "paging"}
               \/ {job, job'} \subseteq {"archiving", "returned"}
      PROVE  ChangeCostInv'
  <2>1. Ahead' = Ahead
    BY <1>1 DEF Ahead, Beyond
  <2>2. CASE job' \in {"idle", "paging"}
    <3>1. job \in {"idle", "paging"}
      BY <1>1, <2>2
    <3> QED
      BY <1>1, <2>1, <2>2, <3>1 DEF ChangeCostInv
  <2>3. CASE job' \in {"archiving", "returned"}
    <3>1. job \in {"archiving", "returned"}
      BY <1>1, <2>3
    <3> QED
      BY <1>1, <2>3, <3>1 DEF ChangeCostInv
  <2> QED
    BY <1>1, <2>2, <2>3 DEF ChangeCostInv
<1>2. CASE Launch
  BY <1>1, <1>2 DEF Launch, catalogueVars
<1>3. CASE FetchPageFails
  <2>1. CASE malformed'
    BY <1>3, <2>1 DEF FetchPageFails, AfterPaging, catalogueVars, ChangeCostInv
  <2>2. CASE ~malformed'
    BY <1>1, <1>3, <2>2 DEF FetchPageFails, catalogueVars
  <2> QED
    BY <2>1, <2>2
<1>4. CASE StartTask \/ Summarise \/ Exit
  BY <1>1, <1>4 DEF StartTask, Summarise, Exit, catalogueVars
<1>5. CASE ContainerLost
  BY <1>1, <1>5 DEF ContainerLost, catalogueVars
<1>6. ASSUME NEW r \in Requests, Collect(r) PROVE ChangeCostInv'
  BY <1>1, <1>6 DEF Collect, catalogueVars
<1>7. ASSUME NEW r \in Requests, Work(r) PROVE ChangeCostInv'
  BY <1>1, <1>7 DEF Work, catalogueVars, jobVars
<1>8. CASE UNCHANGED collectionVars
  BY <1>1, <1>8 DEF collectionVars, catalogueVars, jobVars
<1> QED
  BY <1>2, <1>3, <1>4, <1>5, <1>6, <1>7, <1>8 DEF Next, JobStep

LEMMA ChangeCosts == Spec => []ChangeCostInv
<1>1. Spec => []CollectionTypeOK
  BY CollectionTypes
<1> QED
  BY <1>1, InitChangeCost, NextChangeCost, PTL DEF Spec

-----------------------------------------------------------------------------
(***************************************************************************)
(* What the job reports on.                                                 *)
(***************************************************************************)

\* A value that a sequence lists n times leaves n - 1 places fewer for others.
LEMMA RepetitionsCount ==
  ASSUME NEW S, NEW s \in Seq(S), NEW g \in S,
         NEW D \in SUBSET DOMAIN s, \A j \in D : s[j] = g
  PROVE  /\ Cardinality(D) \in Nat
         /\ Cardinality(D) <= Len(s) - Cardinality(ToSet(s)) + 1
<1> DEFINE E == DOMAIN s \ D
           T == {s[j] : j \in E}
           h == [j \in E |-> s[j]]
<1>1. /\ IsFiniteSet(DOMAIN s) /\ Cardinality(DOMAIN s) = Len(s) /\ Len(s) \in Nat
  <2>1. DOMAIN s = 1..Len(s) /\ Len(s) \in Nat
    BY LenProperties
  <2> QED
    BY <2>1, FS_Interval
<1>2. IsFiniteSet(D) /\ Cardinality(D) \in Nat
  BY <1>1, FS_Subset, FS_CardinalityType
<1>3. IsFiniteSet(E) /\ Cardinality(E) = Len(s) - Cardinality(D)
  <2>1. DOMAIN s \intersect D = D
    OBVIOUS
  <2>2. /\ IsFiniteSet(E)
        /\ Cardinality(E) = Cardinality(DOMAIN s) - Cardinality(DOMAIN s \intersect D)
    BY <1>1, FS_Difference, Zenon
  <2> HIDE DEF E
  <2> QED
    BY <1>1, <2>1, <2>2
<1>4. IsFiniteSet(T) /\ Cardinality(T) <= Cardinality(E)
  <2>1. h \in Surjection(E, T)
    BY DEF Surjection
  <2> HIDE DEF h, T, E
  <2> QED
    BY <1>3, <2>1, FS_Surjection
<1>5. ToSet(s) \in SUBSET (T \union {g})
  BY DEF ToSet
<1> HIDE DEF E, T, h
<1>6. Cardinality(T) \in Nat /\ Cardinality(E) \in Nat
  BY <1>3, <1>4, FS_CardinalityType
<1>7. /\ IsFiniteSet(T \union {g}) /\ Cardinality(T \union {g}) \in Nat
      /\ Cardinality(T \union {g}) <= Cardinality(T) + 1
  <2>1. /\ IsFiniteSet(T \union {g})
        /\ Cardinality(T \union {g}) = IF g \in T THEN Cardinality(T) ELSE Cardinality(T) + 1
    BY <1>4, FS_AddElement
  <2> QED
    BY <1>6, <2>1
<1>8. /\ Cardinality(ToSet(s)) <= Cardinality(T \union {g})
      /\ Cardinality(ToSet(s)) \in Nat
  BY <1>5, <1>7, FS_Subset, FS_CardinalityType
<1> QED
  BY <1>1, <1>2, <1>3, <1>4, <1>6, <1>7, <1>8

\* Since a change has at most one granule fetched again, the occurrences of a
\* granule never outnumber its requests.
LEMMA TasksHaveRequests == CollectionTypeOK /\ ChangeCostInv => Tasks \subseteq Requests
<1> SUFFICES ASSUME CollectionTypeOK, ChangeCostInv, NEW k \in DOMAIN found
             PROVE  Task(k) \in Requests
  BY DEF Tasks
<1>1. /\ found \in Seq(Items) /\ changes \in 0..MaxChanges /\ MaxChanges \in Nat
      /\ Len(found) - Cardinality(ToSet(found)) <= changes
  BY CollectionAssumption DEF CollectionTypeOK, ChangeCostInv
<1>2. /\ Len(found) \in Nat /\ DOMAIN found = 1..Len(found) /\ IsFiniteSet(ToSet(found))
      /\ Cardinality(ToSet(found)) \in Nat /\ found[k] \in Items /\ k \in 1..Len(found)
  BY <1>1, ListedIsFinite, LenProperties, FS_CardinalityType
<1> DEFINE D == {j \in 1..k : found[j] = found[k]}
<1>3. D \in SUBSET DOMAIN found /\ \A j \in D : found[j] = found[k]
  BY <1>2
<1>4. k \in D
  BY <1>2
<1> HIDE DEF D
<1>5. /\ Cardinality(D) \in Nat
      /\ Cardinality(D) <= Len(found) - Cardinality(ToSet(found)) + 1
  BY <1>1, <1>2, <1>3, RepetitionsCount
<1>6. Cardinality(D) # 0
  <2>1. IsFiniteSet(D)
    <3>1. IsFiniteSet(DOMAIN found)
      BY <1>2, FS_Interval
    <3> QED
      BY <1>3, <3>1, FS_Subset
  <2> QED
    BY <1>4, <2>1, FS_EmptySet
<1>7. Cardinality(D) \in 1..(MaxChanges + 1)
  BY <1>1, <1>2, <1>5, <1>6
<1>8. Task(k) = <<found[k], Cardinality(D)>>
  BY DEF Task, D
<1> QED
  BY <1>2, <1>7, <1>8, CollectionAssumption

\* No two places of the list have the same request.
LEMMA TasksDiffer ==
  ASSUME found \in Seq(Items), NEW j \in DOMAIN found, NEW k \in DOMAIN found, j < k
  PROVE  Task(j) # Task(k)
<1> SUFFICES ASSUME found[j] = found[k],
                    Cardinality({i \in 1..j : found[i] = found[j]})
                      = Cardinality({i \in 1..k : found[i] = found[k]})
             PROVE  FALSE
  BY Zenon DEF Task
<1> DEFINE D == {i \in 1..j : found[i] = found[j]}
           E == {i \in 1..k : found[i] = found[k]}
<1>1. j \in Nat /\ k \in Nat /\ 1 <= k
  BY LenProperties
<1>2. D \in SUBSET E /\ k \in E /\ k \notin D
  BY <1>1
<1>3. IsFiniteSet(E)
  <2>1. IsFiniteSet(1..k)
    BY <1>1, FS_Interval
  <2> QED
    BY <2>1, FS_Subset
<1> HIDE DEF D, E
<1>4. Cardinality(D) = Cardinality(E)
  BY DEF D, E
<1> QED
  BY <1>2, <1>3, <1>4, FS_Subset

\* The pool starts what it fetched in order, each once, and reports on no more
\* than has ended; the report is complete when the job returns.
LEMMA NextReport ==
  CollectionTypeOK /\ (Tasks \subseteq Requests)' /\ ReportInv /\ [Next]_collectionVars
    => ReportInv'
<1> SUFFICES ASSUME CollectionTypeOK, (Tasks \subseteq Requests)', ReportInv,
                    [Next]_collectionVars
             PROVE  ReportInv'
  OBVIOUS
<1> DEFINE Started == {Task(k) : k \in 1..(next - 1)}
<1>1. /\ Tasks' \subseteq Requests
      /\ pc \in [Requests -> {"new", "queued"} \union Running \union Settled]
      /\ next \in Nat
  BY DEF CollectionTypeOK, SenderTypeOK
<1>2. UNCHANGED found => Tasks' = Tasks /\ \A k : Task(k)' = Task(k)
  <2>1. ASSUME UNCHANGED found PROVE Tasks' = Tasks
    BY <2>1, Zenon DEF Tasks, Task
  <2>2. ASSUME UNCHANGED found, NEW k PROVE Task(k)' = Task(k)
    BY <2>2, Zenon DEF Task
  <2> QED
    BY <2>1, <2>2
<1>3. ASSUME UNCHANGED <<found, next>>, job' \in {"idle", "paging"} => job \in {"idle", "paging"},
             \A r \in Requests : /\ pc'[r] # "new" <=> pc[r] # "new"
                                 /\ pc[r] \in Settled => pc'[r] \in Settled,
             \A r \in (successful \union failed)' \ (successful \union failed) : pc[r] \in Settled,
             (successful \union failed)' \subseteq Requests,
             job' = "returned" => (successful \union failed)' = Tasks
      PROVE  ReportInv'
  <2>1. Started' = Started
    BY <1>2, <1>3
  <2>2. \A r \in (successful \union failed)' : pc[r] \in Settled /\ r \in Requests
    BY <1>3 DEF ReportInv
  <2> HIDE DEF Started
  <2>3. {r \in Requests : pc[r] # "new"}' = Started'
    BY <1>3, <2>1 DEF ReportInv, Started
  <2> QED
    BY <1>1, <1>2, <1>3, <2>2, <2>3 DEF ReportInv, Started
<1>4. ASSUME UNCHANGED <<pc, next, successful, failed>>, next = 1,
             job' = "returned" => Tasks' = {}
      PROVE  ReportInv'
  <2>1. Started = {} /\ Started' = {}
    BY <1>4
  <2>2. \A r \in Requests : pc[r] = "new"
    BY <2>1 DEF ReportInv
  <2>3. successful \union failed = {}
    BY <2>2 DEF ReportInv, CollectionTypeOK, Settled
  <2> QED
    BY <1>1, <1>4, <2>1, <2>2, <2>3 DEF ReportInv
<1>5. CASE Launch \/ CatalogueChanges \/ Exit \/ UNCHANGED collectionVars
  <2>1. /\ UNCHANGED <<found, next, pc, successful, failed>>
        /\ job' \in {"idle", "paging"} => job \in {"idle", "paging"}
        /\ job' = "returned" => job = "returned"
    BY <1>5
    DEF Launch, CatalogueChanges, Exit, senderVars, jobVars, catalogueVars, collectionVars
  <2> QED
    BY <1>3, <2>1 DEF ReportInv, CollectionTypeOK
<1>6. CASE FetchPage \/ FetchPageFails
  <2>1. /\ UNCHANGED <<pc, next, successful, failed>> /\ next = 1
        /\ job' = "returned" => found' = << >>
    BY <1>6 DEF FetchPage, FetchPageFails, AfterPaging, ReportInv, senderVars
  <2>2. found' = << >> => Tasks' = {}
    BY DEF Tasks
  <2> QED
    BY <1>4, <2>1, <2>2
<1>7. CASE StartTask
  <2> DEFINE t == Task(next)
  <2>1. /\ next' = next + 1 /\ t \in Requests /\ pc[t] = "new"
        /\ UNCHANGED <<found, job, successful, failed>> /\ job = "archiving"
        /\ pc' = [pc EXCEPT ![t] = pc'[t]] /\ pc'[t] # "new"
    <3>1. t \in Tasks
      BY <1>7 DEF StartTask, Tasks
    <3> QED
      BY <1>1, <1>7, <3>1 DEF StartTask, Accept, Reject, ReportInv
  <2>2. Started' = Started \union {t}
    <3>1. 1..(next' - 1) = 1..(next - 1) \union {next}
      <4>1. next >= 1
        BY DEF CollectionTypeOK
      <4> QED
        BY <1>1, <2>1, <4>1
    <3> QED
      BY <1>2, <2>1, <3>1
  <2> HIDE DEF t, Started
  <2>3. {r \in Requests : pc[r] # "new"}' = Started \union {t}
    BY <1>1, <2>1 DEF ReportInv, Started
  <2>4. \A r \in successful \union failed : pc'[r] \in Settled
    <3>1. \A r \in successful \union failed : pc[r] \in Settled /\ r \in Requests
      BY DEF ReportInv, CollectionTypeOK
    <3> QED
      BY <1>1, <2>1, <3>1 DEF Settled
  <2> QED
    BY <1>1, <2>1, <2>2, <2>3, <2>4 DEF ReportInv, Started
<1>8. CASE Summarise
  BY <1>3, <1>8 DEF Summarise, senderVars, CollectionTypeOK
<1>9. CASE ContainerLost
  <2>1. \A r \in Requests : /\ pc'[r] # "new" <=> pc[r] # "new"
                            /\ pc[r] \in Settled => pc'[r] \in Settled
    BY <1>1, <1>9 DEF ContainerLost, Running, Settled
  <2> QED
    BY <1>3, <1>9, <2>1 DEF ContainerLost, CollectionTypeOK
<1>10. ASSUME NEW r \in Requests, Collect(r) PROVE ReportInv'
  BY <1>3, <1>10 DEF Collect, senderVars, CollectionTypeOK
<1>11. ASSUME NEW r \in Requests, Work(r) PROVE ReportInv'
  <2>1. /\ pc' = [pc EXCEPT ![r] = pc'[r]] /\ pc[r] \notin {"new"} \union Settled
        /\ pc'[r] # "new"
    BY <1>1, <1>11
    DEF Work, ArchiverStep, Invoke, Stage, Trace, Publish, StampSubmit, InsertSubmit,
        StoreSubmit, LoopFrom, Settled
  <2>2. \A q \in Requests : /\ pc'[q] # "new" <=> pc[q] # "new"
                            /\ pc[q] \in Settled => pc'[q] \in Settled
    BY <1>1, <2>1
  <2> QED
    BY <1>3, <1>11, <2>2 DEF Work, jobVars, ReportInv, CollectionTypeOK
<1> QED
  BY <1>5, <1>6, <1>7, <1>8, <1>9, <1>10, <1>11 DEF Next, JobStep

\* Whether or not the catalogue changes, what was fetched and what the next pages
\* reach account for its granules at every moment of the paging; every occurrence
\* that was fetched has a request of its own, and a job returns with a result of
\* each.
THEOREM PagesAccountForCatalogue == Spec => []PagingInv
<1>1. Init => ReportInv
  <2> SUFFICES ASSUME Init PROVE ReportInv
    OBVIOUS
  <2>1. /\ found = << >> /\ next = 1 /\ job = "idle" /\ successful \union failed = {}
        /\ \A r \in Requests : pc[r] = "new"
    BY DEF Init, SenderInit
  <2>2. Tasks = {}
    BY <2>1 DEF Tasks
  <2> QED
    BY <2>1, <2>2 DEF ReportInv
<1>2. PageInv /\ ChangeCostInv /\ ReportInv => PagingInv
  BY DEF PagingInv
<1> QED
  BY <1>1, <1>2, PagesAreTheBeginning, CollectionTypes, ChangeCosts, TasksHaveRequests,
     NextReport, PTL DEF Spec

\* A collection that others change while the job pages: each change hides at most
\* one granule from its report and shows it at most one twice, for every page
\* size, every collection and every place of the change.
THEOREM ChangesCostOneGranuleEach == Spec => []EachChangeCostsOneGranule
<1>1. ASSUME CollectionTypeOK, ReportInv, job = "returned" PROVE Reported = ToSet(found)
  <2>1. \A r \in Requests : ItemOf[r] = r[1]
    BY CollectionAssumption
  <2>2. successful \union failed = Tasks /\ Tasks \subseteq Requests
    BY <1>1 DEF ReportInv
  <2>3. Reported = {t[1] : t \in Tasks}
    BY <2>1, <2>2 DEF Reported
  <2>4. \A k \in DOMAIN found : Task(k)[1] = found[k]
    BY DEF Task
  <2> QED
    BY <2>3, <2>4 DEF Tasks, ToSet
<1>2. CollectionTypeOK /\ PagingInv => EachChangeCostsOneGranule
  BY <1>1 DEF PagingInv, ChangeCostInv, EachChangeCostsOneGranule
<1> QED
  BY <1>2, CollectionTypes, PagesAccountForCatalogue, PTL

\* For a pool of any size the job can always go on: some step of it, or of one of
\* its threads, has its guard.
THEOREM PoolIsNeverStuck == Spec => []PoolMovesOn
<1>1. ASSUME CollectionTypeOK, JobInv, ReportInv PROVE PoolMovesOn
  <2> SUFFICES ASSUME job = "archiving", Busy = {},
                      \A r \in Requests : pc[r] \in Settled => r \in successful \union failed
               PROVE  \/ next \in DOMAIN found /\ Cardinality(Busy) < MaxWorkers
                         /\ pc[Task(next)] = "new"
                      \/ Tasks = successful \union failed
    BY DEF PoolMovesOn
  <2>1. /\ pc \in [Requests -> {"new", "queued"} \union Running \union Settled]
        /\ next \in 1..(Len(found) + 1) /\ found \in Seq(Items)
        /\ successful \union failed \subseteq Requests
    BY <1>1 DEF CollectionTypeOK, SenderTypeOK
  <2>2. Len(found) \in Nat /\ DOMAIN found = 1..Len(found)
    BY <2>1, LenProperties
  <2>3. \A r \in Requests : pc[r] = "new" \/ r \in successful \union failed
    BY <1>1, <2>1 DEF JobInv, Progress, Busy
  <2>4. CASE next \in DOMAIN found
    <3>1. Cardinality(Busy) < MaxWorkers
      <4>1. Cardinality(Busy) = 0
        BY FS_EmptySet, Zenon
      <4> QED
        BY <4>1, CollectionAssumption
    <3>2. \A k \in 1..(next - 1) : Task(k) # Task(next)
      <4>1. \A k \in 1..(next - 1) : k \in DOMAIN found /\ k < next
        BY <2>1, <2>2
      <4> QED
        BY <2>1, <2>4, <4>1, TasksDiffer
    <3>3. Task(next) \in Requests
      BY <1>1, <2>4 DEF ReportInv, Tasks
    <3>4. pc[Task(next)] = "new"
      BY <1>1, <3>2, <3>3 DEF ReportInv
    <3> QED
      BY <2>4, <3>1, <3>4
  <2>5. CASE next \notin DOMAIN found
    <3>1. 1..(next - 1) = DOMAIN found
      BY <2>1, <2>2, <2>5
    <3>2. {r \in Requests : pc[r] # "new"} = Tasks
      BY <1>1, <3>1 DEF ReportInv, Tasks
    <3>3. \A r \in successful \union failed : pc[r] # "new"
      BY <1>1 DEF ReportInv, Settled
    <3> QED
      BY <2>1, <2>3, <3>2, <3>3
  <2> QED
    BY <2>4, <2>5
<1>2. PagingInv => ReportInv
  BY DEF PagingInv
<1> QED
  BY <1>1, <1>2, CollectionTypes, PagesAccountForCatalogue, JobInit, NextJobInv, PTL DEF Spec

-----------------------------------------------------------------------------
(***************************************************************************)
(* The job implements the ledger.                                           *)
(***************************************************************************)

\* Nothing is issued to a granule the pool has not started, and a success to
\* submit is only noted of a message that was published.
Truthful(r) ==
  /\ pc[r] = "new" => sending[r] = << >>
  /\ (pc[r] \in {"stamp", "insert"} /\ status[r] = "cnm-submit-success") =>
       published[Current(r)] > 0

LedgerInv == JobInv /\ \A r \in Requests : Truthful(r)

\* A step of one archiver keeps every archiver truthful: the others' messages
\* stay published.
LEMMA SenderTruthful ==
  ASSUME LedgerInv, NEW r \in Requests, Accept(r) \/ Reject(r) \/ ArchiverStep(r)
  PROVE  \A q \in Requests : Truthful(q)'
<1>1. /\ pc \in [Requests -> {"new", "queued"} \union Running \union Settled]
      /\ status \in [Requests -> SubmitStatuses] /\ published \in [Ids -> Nat]
      /\ pos \in [Requests -> Nat \ {0}] /\ sending \in [Requests -> Seq(PreReq)]
  BY DEF LedgerInv, JobInv, SenderInv, SenderTypeOK
<1>2. \A i \in Ids : published[i] > 0 => published'[i] > 0
  <2>1. CASE Publish(r)
    <3> DEFINE c == Current(r)
    <3>1. c \in Ids
      BY <2>1, CursorTyped DEF Publish, InLoop, LedgerInv, JobInv
    <3>2. published' = published \/ published' = [published EXCEPT ![c] = published[c] + 1]
      BY <2>1 DEF Publish
    <3> HIDE DEF c
    <3>3. published \in [Ids -> Nat]
      BY <1>1
    <3>4. ASSUME NEW i \in Ids PROVE published[i] > 0 => published'[i] > 0
      <4>1. CASE i = c
        BY <3>2, <3>3, <4>1
      <4>2. CASE i # c
        BY <3>2, <3>3, <4>2
      <4> QED
        BY <4>1, <4>2
    <3> QED
      BY <3>4
  <2>2. CASE ~Publish(r)
    <3>1. UNCHANGED published
      BY <2>2
      DEF Accept, Reject, ArchiverStep, Invoke, Stage, Trace, StampSubmit, InsertSubmit,
          StoreSubmit
    <3> QED
      BY <3>1
  <2> QED
    BY <2>1, <2>2
<1>3. ASSUME NEW q \in Requests \ {r} PROVE Truthful(q)'
  <2>1. /\ pc'[q] = pc[q] /\ pos'[q] = pos[q] /\ sending'[q] = sending[q]
        /\ status'[q] = status[q]
    BY <1>1
    DEF Accept, Reject, ArchiverStep, Invoke, Stage, Trace, Publish, StampSubmit, InsertSubmit,
        StoreSubmit
  <2>2. Current(q)' = Current(q) /\ (pc[q] \in InLoop => Current(q) \in Ids)
    BY <2>1, CursorTyped DEF Current, LedgerInv, JobInv
  <2> QED
    BY <1>2, <2>1, <2>2 DEF LedgerInv, Truthful, InLoop
<1>4. Truthful(r)'
  <2>1. CASE Publish(r)
    <3>1. Current(r) \in Ids /\ Current(r)' = Current(r)
      BY <2>1, CursorTyped DEF Publish, InLoop, Current, LedgerInv, JobInv
    <3>2. pc'[r] = "stamp" /\ (status'[r] = "cnm-submit-success" => published'[Current(r)] > 0)
      BY <1>1, <2>1, <3>1 DEF Publish
    <3> QED
      BY <3>1, <3>2 DEF Truthful
  <2>2. CASE StampSubmit(r)
    <3>1. /\ pc[r] = "stamp" /\ pc'[r] = "insert"
          /\ UNCHANGED <<sending, pos, status, published>>
      BY <1>1, <2>2 DEF StampSubmit
    <3> QED
      BY <3>1 DEF Truthful, Current, LedgerInv
  <2>3. CASE Accept(r) \/ Reject(r) \/ Invoke(r) \/ Stage(r) \/ Trace(r) \/ InsertSubmit(r)
             \/ StoreSubmit(r)
    <3>1. pc'[r] \notin {"new", "stamp", "insert"}
      BY <1>1, <2>3 DEF Accept, Reject, Invoke, Stage, Trace, InsertSubmit, StoreSubmit, LoopFrom
    <3> QED
      BY <3>1 DEF Truthful
  <2> QED
    BY <2>1, <2>2, <2>3 DEF ArchiverStep
<1> QED
  BY <1>3, <1>4

\* What a step of the job is to its archivers: a step of one of them, the loss
\* of all that are running, or nothing.
LEMMA JobSteps ==
  ASSUME JobInv, [Next]_collectionVars
  PROVE  \/ \E r \in Requests : Accept(r) \/ Reject(r) \/ ArchiverStep(r)
         \/ ContainerLost
         \/ UNCHANGED <<storeVars, senderVars>>
<1>1. CASE StartTask
  <2>1. Accept(Task(next)) \/ Reject(Task(next))
    BY <1>1 DEF StartTask
  <2>2. CASE Task(next) \in Requests
    BY <2>1, <2>2
  <2>3. CASE Task(next) \notin Requests
    <3>1. DOMAIN pc = Requests /\ DOMAIN sending = Requests
          /\ sending = [r \in Requests |-> sending[r]] /\ pc = [r \in Requests |-> pc[r]]
      BY DEF JobInv, SenderInv, SenderTypeOK
    <3> QED
      BY <2>1, <2>3, <3>1 DEF Accept, Reject, senderVars
  <2> QED
    BY <2>2, <2>3
<1>2. CASE \/ Launch \/ CatalogueChanges \/ FetchPage \/ FetchPageFails \/ Summarise \/ Exit
           \/ \E r \in Requests : Collect(r)
  BY <1>2 DEF Launch, CatalogueChanges, FetchPage, FetchPageFails, Summarise, Exit, Collect
<1>3. CASE \E r \in Requests : Work(r)
  BY <1>3 DEF Work
<1>4. CASE UNCHANGED collectionVars
  BY <1>4 DEF collectionVars
<1> QED
  BY <1>1, <1>2, <1>3, <1>4 DEF Next, JobStep

LEMMA NextLedgerInv == LedgerInv /\ [Next]_collectionVars => LedgerInv'
<1> SUFFICES ASSUME LedgerInv, [Next]_collectionVars PROVE LedgerInv'
  OBVIOUS
<1>1. JobInv'
  BY NextJobInv DEF LedgerInv
<1>2. ASSUME NEW r \in Requests, Accept(r) \/ Reject(r) \/ ArchiverStep(r) PROVE LedgerInv'
  BY <1>1, <1>2, SenderTruthful DEF LedgerInv
<1>3. CASE ContainerLost
  <2>1. UNCHANGED <<sending, pos, status, published>>
    BY <1>3 DEF ContainerLost
  <2>2. \A r \in Requests : pc'[r] = pc[r] \/ pc'[r] = "dropped"
    BY <1>3 DEF ContainerLost
  <2> QED
    BY <1>1, <2>1, <2>2 DEF LedgerInv, Truthful, Current
<1>4. CASE UNCHANGED <<storeVars, senderVars>>
  BY <1>1, <1>4 DEF senderVars, LedgerInv, Truthful, Current
<1> QED
  BY <1>2, <1>3, <1>4, JobSteps DEF LedgerInv

\* The next-state relation of the ledger, over what the job maps to it.
JobLedgerStep ==
  \/ /\ \E new \in SUBSET (Ids \ issuedIds) : issuedIds' = issuedIds \union new
     /\ UNCHANGED <<sentIds, ledgerSet>>
  \/ \E i \in issuedIds :
       /\ sentIds' = sentIds \union {i}
       /\ UNCHANGED <<issuedIds, ledgerSet>>
  \/ \E i \in issuedIds, s \in SubmitStatuses :
       /\ s = "cnm-submit-success" => i \in sentIds
       /\ ledgerSet' = ledgerSet \union {<<i, s>>}
       /\ UNCHANGED <<issuedIds, sentIds>>

\* Every step of the job is a step of the ledger or invisible to it.
LEMMA JobSimulation ==
  ASSUME LedgerInv, [Next]_collectionVars
  PROVE  JobLedgerStep \/ UNCHANGED <<issuedIds, sentIds, ledgerSet>>
<1>0. JobInv /\ SenderInv
  BY DEF LedgerInv, JobInv
<1>1. ASSUME UNCHANGED <<sending, published, rows>> PROVE UNCHANGED <<issuedIds, sentIds, ledgerSet>>
  BY <1>1, IssuedUnchanged, SentUnchanged, LedgerUnchanged
<1>2. ASSUME NEW r \in Requests, Accept(r) PROVE JobLedgerStep
  <2>1. UNCHANGED <<sentIds, ledgerSet>>
    BY <1>2, SentUnchanged, LedgerUnchanged DEF Accept, storeVars
  <2>2. sending[r] = << >>
    BY <1>2 DEF Accept, LedgerInv, Truthful
  <2> QED
    BY <1>0, <1>2, <2>1, <2>2, AcceptIssues DEF JobLedgerStep
<1>3. ASSUME NEW r \in Requests, Publish(r)
      PROVE  JobLedgerStep \/ UNCHANGED <<issuedIds, sentIds, ledgerSet>>
  <2>1. UNCHANGED <<issuedIds, ledgerSet>>
    BY <1>3, IssuedUnchanged, LedgerUnchanged DEF Publish, storeVars
  <2> QED
    BY <1>0, <1>3, <2>1, PublishSends DEF JobLedgerStep
<1>4. ASSUME NEW r \in Requests, InsertSubmit(r)
      PROVE  JobLedgerStep \/ UNCHANGED <<issuedIds, sentIds, ledgerSet>>
  <2>1. UNCHANGED <<issuedIds, sentIds>>
    BY <1>4, IssuedUnchanged, SentUnchanged DEF InsertSubmit
  <2>2. status[r] = "cnm-submit-success" => published[Current(r)] > 0
    BY <1>4 DEF InsertSubmit, LedgerInv, Truthful
  <2> QED
    BY <1>0, <1>4, <2>1, <2>2, InsertSubmits DEF JobLedgerStep
<1>5. ASSUME NEW r \in Requests,
             Reject(r) \/ Invoke(r) \/ Stage(r) \/ Trace(r) \/ StampSubmit(r) \/ StoreSubmit(r)
      PROVE  UNCHANGED <<issuedIds, sentIds, ledgerSet>>
  BY <1>1, <1>5 DEF Reject, Invoke, Stage, Trace, StampSubmit, StoreSubmit, storeVars
<1>6. CASE ContainerLost \/ UNCHANGED <<storeVars, senderVars>>
  BY <1>1, <1>6 DEF ContainerLost, storeVars, senderVars
<1> QED
  BY <1>0, <1>2, <1>3, <1>4, <1>5, <1>6, JobSteps DEF ArchiverStep

\* A pool of archivers keeps the promise of the ledger, whatever its size, the
\* granules, the failures, and wherever the container is lost.
THEOREM JobImplementsTheLedger == Spec => JobImplementsLedger
<1>1. Init => LedgerInv
  BY JobInit DEF LedgerInv, Truthful, Init, SenderInit
<1>2. Init => Ledger!Init
  BY DEF Init, StoresInit, SenderInit, Ledger!Init, Issued
<1>3. JobLedgerStep => Ledger!Next
  BY DEF JobLedgerStep, issuedIds, sentIds, ledgerSet, Ledger!Next, Ledger!Issue, Ledger!Send,
         Ledger!RecordSubmit
<1>4. LedgerInv /\ [Next]_collectionVars => [Ledger!Next]_Ledger!vars
  <2>1. UNCHANGED <<issuedIds, sentIds, ledgerSet>> => UNCHANGED Ledger!vars
    BY DEF issuedIds, sentIds, ledgerSet, Ledger!vars
  <2> QED
    BY <1>3, <2>1, JobSimulation
<1> QED
  BY <1>1, <1>2, <1>4, NextLedgerInv, PTL DEF Spec, JobImplementsLedger, Ledger!Spec

-----------------------------------------------------------------------------
(***************************************************************************)
(* The job sends every identifier once at most.                             *)
(***************************************************************************)

LEMMA NextJobSends ==
  JobInv /\ IdsIssuedOnce /\ RunsInv /\ [Next]_collectionVars => IdsIssuedOnce' /\ RunsInv'
<1> SUFFICES ASSUME JobInv, IdsIssuedOnce, RunsInv, [Next]_collectionVars
             PROVE  IdsIssuedOnce' /\ RunsInv'
  OBVIOUS
<1>1. CASE \E r \in Requests : Accept(r) \/ Reject(r) \/ ArchiverStep(r)
  <2>1. SenderInv /\ SenderNext
    BY <1>1 DEF JobInv, SenderNext
  <2> QED
    BY <2>1, SenderKeepsIds, SenderKeepsRuns
<1>2. CASE ContainerLost
  <2>1. UNCHANGED <<sending, pos, attempts, published>>
    BY <1>2 DEF ContainerLost
  <2>2. \A r \in Requests : pc'[r] = pc[r] \/ pc'[r] = "dropped"
    BY <1>2 DEF ContainerLost
  <2>3. IdsIssuedOnce'
    BY <2>1, <2>2 DEF IdsIssuedOnce, Issued
  <2>4. ASSUME NEW r \in Requests PROVE SendsOf(r)'
    <3>1. pc'[r] = "queued" => r \in Async
      BY <2>2 DEF RunsInv, SendsOf
    <3>2. pc'[r] \in {"new", "staging"} => pos'[r] = 1
      BY <2>1, <2>2 DEF RunsInv, SendsOf
    <3>3. \A k : ToSend(r, k)' => ToSend(r, k)
      BY <2>1, <2>2 DEF ToSend
    <3> QED
      BY <2>1, <3>1, <3>2, <3>3 DEF RunsInv, SendsOf, Runs
  <2> QED
    BY <2>3, <2>4 DEF RunsInv
<1>3. CASE UNCHANGED <<storeVars, senderVars>>
  BY <1>3 DEF senderVars, IdsIssuedOnce, Issued, RunsInv, SendsOf, ToSend, Runs
<1> QED
  BY <1>1, <1>2, <1>3, JobSteps

\* The job has no retry, so no thread of the pool ever sends an identifier a
\* second time, and no two threads send the same.
THEOREM JobSendsOnce ==
  Spec => [](SendsBoundedByRuns /\ \A i \in Ids : published[i] <= 1)
<1>1. Init => IdsIssuedOnce /\ RunsInv
  BY RunsInvInit DEF Init, SenderInit, IdsIssuedOnce
<1>2. JobInv /\ IdsIssuedOnce /\ RunsInv =>
        SendsBoundedByRuns /\ \A i \in Ids : published[i] <= 1
  <2> SUFFICES ASSUME JobInv, IdsIssuedOnce, SendsBoundedByRuns, NEW i \in Ids
               PROVE  published[i] <= 1
    BY RunsInvBounds
  <2>1. published[i] \in Nat
    BY DEF JobInv, SenderInv, SenderTypeOK
  <2>2. CASE published[i] > 0
    <3>1. PICK r \in Requests : \E k \in DOMAIN sending[r] : sending[r][k].id = i
      BY <2>2 DEF IdsIssuedOnce, Issued
    <3>2. published[i] <= Runs(r)
      BY <3>1 DEF SendsBoundedByRuns
    <3> QED
      BY <3>2, CollectionAssumption DEF Runs
  <2> QED
    BY <2>1, <2>2
<1> QED
  BY <1>1, <1>2, JobInit, NextJobInv, NextJobSends, PTL DEF Spec
=============================================================================
