------------------------ MODULE ArchiveTrigger_proofs ------------------------
(***************************************************************************)
(* Theorems about the catalogue trigger, for every catalogue, every set of  *)
(* failures and every number of receives.  The first invariant is           *)
(* TriggerInv: what the walk, the validation and the requests of the        *)
(* current receive have covered so far, in terms of what was found.         *)
(***************************************************************************)
EXTENDS ArchiveTrigger, TLAPS

\* The queue starts out in an invariant state.
LEMMA InitEstablishes == Init => TriggerInv
<1> SUFFICES ASSUME Init PROVE TriggerInv
  OBVIOUS
<1> USE TriggerAssumption DEF Init
<1>1. TypeOK
  <2>1. requested \in [Urls -> 0..MaxReceives]
    OBVIOUS
  <2>2. receives \in 0..MaxReceives
    OBVIOUS
  <2>3. /\ stored \subseteq Objects
        /\ event \in Handling \union {"queued", "deleted", "dlq"}
        /\ met \subseteq Mets /\ unwalked \subseteq Links /\ found \subseteq Urls
        /\ unvalidated \subseteq found /\ pending \subseteq Eligible(found)
        /\ whole \in BOOLEAN
    OBVIOUS
  <2> QED
    BY <2>1, <2>2, <2>3 DEF TypeOK
<1>2. ValidatedSoFar
  BY DEF ValidatedSoFar
<1>3. RequestedSoFar
  BY DEF RequestedSoFar, RequestsBoundedByReceives
<1>4. WalkedSoFar
  BY DEF WalkedSoFar
<1> QED
  BY <1>1, <1>2, <1>3, <1>4 DEF TriggerInv

\* Uploading only adds to what is stored.
LEMMA UploadPreserves == TriggerInv /\ Upload => TriggerInv'
  BY DEF Upload, TriggerInv, TypeOK, ValidatedSoFar, RequestedSoFar, WalkedSoFar,
         RequestsBoundedByReceives, Eligible, Readable, Complete

\* An execution given up by an exception forgets everything but the requests.
LEMMA RaisesPreserves == TriggerInv /\ event \in Handling /\ Raises => TriggerInv'
  BY DEF Raises, TriggerInv, TypeOK, ValidatedSoFar, RequestedSoFar, WalkedSoFar,
         RequestsBoundedByReceives, Handling, Eligible, Readable, Complete

\* A new receive has asked for nothing yet, and has everything still to walk.
LEMMA ReceivePreserves == TriggerInv /\ Receive => TriggerInv'
<1> SUFFICES ASSUME TriggerInv, Receive PROVE TriggerInv'
  OBVIOUS
<1>1. TypeOK'
  BY TriggerAssumption
  DEF TriggerInv, TypeOK, Receive, Handling, Eligible, Links
<1>2. ValidatedSoFar'
  BY DEF Receive, ValidatedSoFar, Eligible
<1>3. RequestedSoFar'
  BY TriggerAssumption
  DEF TriggerInv, TypeOK, Receive, RequestedSoFar, RequestsBoundedByReceives
<1>4. WalkedSoFar'
  BY TriggerAssumption
  DEF Receive, WalkedSoFar, Links, AllItems, Handling
<1> QED
  BY <1>1, <1>2, <1>3, <1>4 DEF TriggerInv

\* Metadata found: nothing but the position of the execution changes.
LEMMA ReadMetadataPreserves == TriggerInv /\ ReadMetadata => TriggerInv'
<1> SUFFICES ASSUME TriggerInv, ReadMetadata PROVE TriggerInv'
  OBVIOUS
<1>1. CASE Raises
  BY <1>1, RaisesPreserves DEF ReadMetadata, Handling
<1>2. ASSUME NEW m \in Mets \intersect stored,
             event = "metadata", met' = {m}, event' = "walk",
             UNCHANGED <<stored, receives, unwalked, found, unvalidated, pending,
                         requested, whole>>
      PROVE  TriggerInv'
  <2>1. TypeOK'
    BY <1>2 DEF TriggerInv, TypeOK, Handling, Eligible
  <2>2. ValidatedSoFar'
    BY <1>2 DEF TriggerInv, ValidatedSoFar
  <2>3. RequestedSoFar'
    BY <1>2 DEF TriggerInv, RequestedSoFar, RequestsBoundedByReceives
  <2>4. WalkedSoFar'
    BY <1>2 DEF TriggerInv, WalkedSoFar, Handling
  <2> QED
    BY <2>1, <2>2, <2>3, <2>4 DEF TriggerInv
<1> QED
  BY <1>1, <1>2 DEF ReadMetadata

\* Following a link moves what is behind it from "to walk" to "found".
LEMMA FollowLinkPreserves ==
  ASSUME NEW l \in Links, TriggerInv, FollowLink(l)
  PROVE  TriggerInv'
<1>1. CASE Raises
  BY <1>1, RaisesPreserves DEF FollowLink, Handling
<1>2. CASE ~Raises
  <2>1. /\ event = "walk" /\ l \in unwalked /\ unwalked' = unwalked \ {l}
        /\ UNCHANGED <<stored, event, receives, met, unvalidated, pending, requested>>
        /\ whole' \in {whole, FALSE}
    BY <1>2 DEF FollowLink
  <2>2. found \subseteq found' /\ found' \subseteq Urls
    BY <1>2, TriggerAssumption DEF FollowLink, ItemsBehind, TriggerInv, TypeOK, Links
  <2>3. TypeOK'
    BY <2>1, <2>2 DEF TriggerInv, TypeOK, Eligible
  <2>4. ValidatedSoFar'
    BY <2>1 DEF TriggerInv, ValidatedSoFar
  <2>5. RequestedSoFar'
    BY <2>1 DEF TriggerInv, RequestedSoFar, RequestsBoundedByReceives
  <2>6. ASSUME whole'
        PROVE  found' = ItemsBehind(l)
    <3>1. Objects \subseteq stored
      BY <2>1, <2>6 DEF TriggerInv, WalkedSoFar
    <3> QED
      BY <3>1, <1>2, <2>6, TriggerAssumption DEF FollowLink, Links, Objects
  <2>7. WalkedSoFar'
    <3> SUFFICES ASSUME whole'
                 PROVE  /\ Objects \subseteq stored'
                        /\ AllItems \subseteq found' \union (unwalked' \intersect Urls)
                                      \union UNION {Members[c] : c \in unwalked' \ Urls}
      BY <2>1 DEF WalkedSoFar
    <3>1. whole
      BY <2>1
    <3>2. /\ Objects \subseteq stored
          /\ AllItems \subseteq found \union (unwalked \intersect Urls)
                           \union UNION {Members[c] : c \in unwalked \ Urls}
      BY <2>1, <3>1 DEF TriggerInv, WalkedSoFar, Handling
    <3> QED
      BY <2>1, <2>6, <3>2, TriggerAssumption DEF ItemsBehind, Links
  <2> QED
    BY <2>3, <2>4, <2>5, <2>7 DEF TriggerInv
<1> QED
  BY <1>1, <1>2

\* A validated item becomes pending, one without collection id is passed over.
LEMMA ValidateItemPreserves ==
  ASSUME NEW u \in Urls, TriggerInv, ValidateItem(u)
  PROVE  TriggerInv'
<1>1. CASE Raises
  BY <1>1, RaisesPreserves DEF ValidateItem, Handling
<1>2. CASE ~Raises
  <2>1. /\ event = "validate" /\ u \in unvalidated
        /\ Readable(u) /\ (u \in NoCollectionId \/ Complete(u))
        /\ unvalidated' = unvalidated \ {u}
        /\ pending' = IF u \in NoCollectionId THEN pending ELSE pending \union {u}
        /\ UNCHANGED <<stored, event, receives, met, unwalked, found, requested, whole>>
    BY <1>2 DEF ValidateItem
  <2>2. u \in found
    BY <2>1 DEF TriggerInv, TypeOK
  <2>3. TypeOK'
    BY <2>1, <2>2 DEF TriggerInv, TypeOK, Eligible
  <2>4. ValidatedSoFar'
    BY <2>1, <2>2 DEF TriggerInv, ValidatedSoFar, Eligible, Readable, Complete
  <2>5. RequestedSoFar'
    BY <2>1 DEF TriggerInv, RequestedSoFar, RequestsBoundedByReceives
  <2>6. WalkedSoFar'
    BY <2>1 DEF TriggerInv, WalkedSoFar
  <2> QED
    BY <2>3, <2>4, <2>5, <2>6 DEF TriggerInv
<1> QED
  BY <1>1, <1>2

\* An accepted request uses up the item's place in this receive; the event
\* goes on or back to the queue.
LEMMA RequestItemPreserves ==
  ASSUME NEW u \in Urls, TriggerInv, RequestItem(u)
  PROVE  TriggerInv'
<1>1. /\ event = "request" /\ u \in pending
      /\ UNCHANGED <<stored, receives, met, unwalked, found, unvalidated, whole>>
  BY DEF RequestItem
<1>2. requested[u] < receives
  BY <1>1 DEF TriggerInv, RequestedSoFar
<1>3. /\ \/ Accepted(u) /\ pending' = pending \ {u} /\ event' = event
         \/ event' = "queued" /\ UNCHANGED <<pending, requested>>
         \/ Accepted(u) /\ event' = "queued" /\ UNCHANGED pending
  BY DEF RequestItem
<1>4. \A v \in Urls : /\ requested'[v] \in Nat
                      /\ requested'[v] <= receives
                      /\ requested'[v] >= requested[v]
                      /\ v # u => requested'[v] = requested[v]
  BY <1>2, <1>3, TriggerAssumption
  DEF Accepted, TriggerInv, TypeOK, RequestedSoFar, RequestsBoundedByReceives
<1>5. requested' \in [Urls -> 0..MaxReceives]
  BY <1>2, <1>3, TriggerAssumption DEF Accepted, TriggerInv, TypeOK
<1>6. event' = "request" => requested'[u] > 0
  BY <1>1, <1>3, TriggerAssumption DEF Accepted, TriggerInv, TypeOK
<1>7. TypeOK'
  BY <1>1, <1>3, <1>5 DEF TriggerInv, TypeOK, Handling, Eligible
<1>8. ValidatedSoFar'
  BY <1>1, <1>3 DEF TriggerInv, ValidatedSoFar, Eligible, Readable, Complete
<1>9. RequestedSoFar'
  <2>1. event' = "queued" => RequestedSoFar'
    BY <1>1, <1>4 DEF RequestedSoFar, RequestsBoundedByReceives
  <2>2. CASE event' = "request"
    <3>1. pending' = pending \ {u}
      BY <1>3, <2>2
    <3>2. \A v \in pending' : requested'[v] < receives'
      BY <3>1, <1>1, <1>4 DEF TriggerInv, RequestedSoFar, TypeOK, Eligible
    <3>3. \A v \in Eligible(found') \ pending' : requested'[v] > 0
      BY <3>1, <1>1, <1>4, <1>6, <2>2 DEF TriggerInv, RequestedSoFar, TypeOK, Eligible
    <3> QED
      BY <2>2, <3>2, <3>3, <1>1, <1>4 DEF RequestedSoFar, RequestsBoundedByReceives
  <2> QED
    BY <2>1, <2>2, <1>1, <1>3
<1>10. WalkedSoFar'
  BY <1>1, <1>3 DEF TriggerInv, WalkedSoFar, Handling
<1> QED
  BY <1>7, <1>8, <1>9, <1>10 DEF TriggerInv

\* Every step of the specification keeps the invariant.
LEMMA NextPreserves == TriggerInv /\ [Next]_triggerVars => TriggerInv'
<1> SUFFICES ASSUME TriggerInv, [Next]_triggerVars PROVE TriggerInv'
  OBVIOUS
<1>1. CASE Redrive
  BY <1>1, TriggerAssumption
  DEF Redrive, TriggerInv, TypeOK, ValidatedSoFar, RequestedSoFar, WalkedSoFar,
      RequestsBoundedByReceives, Handling, Eligible
<1>2. CASE LinksFollowed
  BY <1>2
  DEF LinksFollowed, TriggerInv, TypeOK, ValidatedSoFar, RequestedSoFar, WalkedSoFar,
      RequestsBoundedByReceives, Handling, Eligible, Readable, Complete
<1>3. CASE Authenticate
  BY <1>3, RaisesPreserves
  DEF Authenticate, TriggerInv, TypeOK, ValidatedSoFar, RequestedSoFar, WalkedSoFar,
      RequestsBoundedByReceives, Handling, Eligible, Readable, Complete
<1>4. CASE Return
  BY <1>4
  DEF Return, TriggerInv, TypeOK, ValidatedSoFar, RequestedSoFar, WalkedSoFar,
      RequestsBoundedByReceives, Handling, Eligible, Readable, Complete
<1>5. CASE TimeOut
  BY <1>5, RaisesPreserves DEF TimeOut
<1>6. CASE UNCHANGED triggerVars
  BY <1>6
  DEF triggerVars, TriggerInv, TypeOK, ValidatedSoFar, RequestedSoFar, WalkedSoFar,
      RequestsBoundedByReceives, Handling, Eligible, Readable, Complete
<1> QED
  BY <1>1, <1>2, <1>3, <1>4, <1>5, <1>6, UploadPreserves, ReceivePreserves,
     ReadMetadataPreserves, FollowLinkPreserves, ValidateItemPreserves,
     RequestItemPreserves
  DEF Next, TriggerStep

-----------------------------------------------------------------------------
\* The bookkeeping of walk, validation and requests is right in every
\* reachable state, whatever the catalogue, the failures and the uploads.
THEOREM TriggerInvariant == Spec => []TriggerInv
  BY InitEstablishes, NextPreserves, PTL DEF Spec

\* Types of the trigger and its queue.
THEOREM TriggerTypes == Spec => []TypeOK
<1>1. TriggerInv => TypeOK
  BY DEF TriggerInv
<1> QED
  BY <1>1, TriggerInvariant, PTL

\* A deleted event has had every archivable item of its last walk accepted.
THEOREM DeletedEventsWereRequested == Spec => []DeletedMeansRequested
<1>1. TriggerInv => DeletedMeansRequested
  BY DEF TriggerInv, RequestedSoFar, DeletedMeansRequested, Eligible
<1> QED
  BY <1>1, TriggerInvariant, PTL

\* A catalogue complete before the last receive is requested whole.
THEOREM CompleteCataloguesAreRequested == Spec => []WholeCatalogueRequested
<1>1. TriggerInv => WholeCatalogueRequested
  BY DEF TriggerInv, RequestedSoFar, WalkedSoFar, WholeCatalogueRequested, Eligible
<1> QED
  BY <1>1, TriggerInvariant, PTL

\* No item is requested more often than the event was received.
THEOREM RequestsAreBounded == Spec => []RequestsBoundedByReceives
<1>1. TriggerInv => RequestsBoundedByReceives
  BY DEF TriggerInv, RequestedSoFar
<1> QED
  BY <1>1, TriggerInvariant, PTL

\* No request leaves before every item of the walk has been validated.
THEOREM RequestsFollowValidation == Spec => RequestsAfterValidation
<1> DEFINE A == \A u \in Urls : requested'[u] # requested[u] =>
                  \A v \in Eligible(found) : Readable(v) /\ Complete(v)
<1>1. TriggerInv /\ [Next]_triggerVars => [A]_triggerVars
  <2> SUFFICES ASSUME TriggerInv, Next,
                      NEW u \in Urls, requested'[u] # requested[u]
               PROVE  \A v \in Eligible(found) : Readable(v) /\ Complete(v)
    OBVIOUS
  <2>1. event = "request"
    BY DEF Next, TriggerStep, Receive, Redrive, ReadMetadata, LinksFollowed, Authenticate,
           Return, FollowLink, ValidateItem, RequestItem, Raises, TimeOut, Upload
  <2> QED
    BY <2>1 DEF TriggerInv, ValidatedSoFar
<1> QED
  BY <1>1, TriggerInvariant, PTL DEF Spec, RequestsAfterValidation
=============================================================================
