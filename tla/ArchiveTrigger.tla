--------------------------- MODULE ArchiveTrigger ---------------------------
(***************************************************************************)
(* The catalogue trigger (catalya_archive_trigger.py): the S3 event of a    *)
(* finished STAC catalogue reaches a Lambda through SNS and SQS.  The       *)
(* Lambda reads the job's metadata, walks the catalogue's links, validates  *)
(* every item it found and only then asks the UDS API, one item after the   *)
(* other, to archive them.  Any exception makes SQS deliver the event again *)
(* and the whole execution starts over; other objects of the catalogue may  *)
(* still be on their way to the bucket meanwhile.                           *)
(***************************************************************************)
EXTENDS Integers, FiniteSets

CONSTANTS
  Urls,             \* URLs of STAC item files
  Collections,      \* URLs of collection files
  DirectLinks,      \* items the catalogue links to
  CollectionLinks,  \* collections the catalogue links to
  Members,          \* the items each collection links to
  NoCollectionId,   \* items whose collection_id is missing or empty
  Assets,           \* asset files
  AssetsOf,         \* the assets of each item
  Mets,             \* met.json files beside the catalogue
  MetKind,          \* what the schema check would say of each of them
  MaxReceives,      \* retried_count of the queue's redrive policy
  TriggerFailures   \* which calls may fail in this configuration

ASSUME TriggerAssumption ==
  /\ Urls \intersect Collections = {}
  /\ DirectLinks \subseteq Urls
  /\ CollectionLinks \subseteq Collections
  /\ Members \in [Collections -> SUBSET Urls]
  /\ NoCollectionId \subseteq Urls
  /\ AssetsOf \in [Urls -> SUBSET Assets]
  /\ MetKind \in [Mets -> {"valid", "mistyped", "incomplete"}]
  /\ MaxReceives \in Nat \ {0}
  /\ TriggerFailures \subseteq {"s3", "parse", "creds", "api", "api-reply", "lambda"}

VARIABLES
  stored,      \* objects already in the bucket
  event,       \* where the event is: in the queue, at a step of start, or gone
  receives,    \* ApproximateReceiveCount of the event
  met,         \* the met.json files start took its metadata from: none or one
  unwalked,    \* links of the catalogue still to be followed
  found,       \* item_links
  unvalidated, \* items retrieve_items has not reached
  pending,     \* processed_items still to be requested
  requested,   \* requests the UDS API accepted, per item
  whole        \* history: the catalogue was complete when this receive began,
               \* and no collection of it has failed to parse since

triggerVars == <<stored, event, receives, met, unwalked, found, unvalidated,
                 pending, requested, whole>>

Links    == DirectLinks \union CollectionLinks
Objects  == Urls \union Collections \union Assets \union Mets
AllItems == DirectLinks \union UNION {Members[c] : c \in CollectionLinks}
Eligible(S) == S \ NoCollectionId

Handling == {"metadata", "walk", "validate", "request"}

\* Only found items are validated, only eligible ones requested, and no item
\* more often than the event can be received.
TypeOK ==
  /\ stored \subseteq Objects
  /\ event \in Handling \union {"queued", "deleted", "dlq"}
  /\ receives \in 0..MaxReceives
  /\ met \subseteq Mets
  /\ unwalked \subseteq Links
  /\ found \subseteq Urls
  /\ unvalidated \subseteq found
  /\ pending \subseteq Eligible(found)
  /\ requested \in [Urls -> 0..MaxReceives]
  /\ whole \in BOOLEAN

Init ==
  /\ stored \in SUBSET Objects
  /\ event = "queued"
  /\ receives = 0
  /\ met = {}
  /\ unwalked = {}
  /\ found = {}
  /\ unvalidated = {}
  /\ pending = {}
  /\ requested = [u \in Urls |-> 0]
  /\ whole = FALSE

-----------------------------------------------------------------------------
(***************************************************************************)
(* The queue.                                                               *)
(***************************************************************************)

\* The producer of the catalogue still uploads.
Upload ==
  /\ \E o \in Objects \ stored : stored' = stored \union {o}
  /\ UNCHANGED <<event, receives, met, unwalked, found, unvalidated, pending,
                 requested, whole>>

\* A new execution with nothing remembered of the earlier ones; catalog.json
\* itself is there, since its arrival is what the event tells.
Receive ==
  /\ event = "queued"
  /\ receives < MaxReceives
  /\ receives' = receives + 1
  /\ event' = "metadata"
  /\ met' = {}
  /\ unwalked' = Links
  /\ found' = {}
  /\ unvalidated' = {}
  /\ pending' = {}
  /\ whole' = (Objects \subseteq stored)
  /\ UNCHANGED <<stored, requested>>

\* Faulty variant of Redrive: the event stays one receive too long.
RedriveLate ==
  /\ event = "queued"
  /\ receives > MaxReceives
  /\ event' = "dlq"
  /\ UNCHANGED <<stored, receives, met, unwalked, found, unvalidated, pending,
                 requested, whole>>

Redrive ==
  /\ event = "queued"
  /\ receives = MaxReceives
  /\ event' = "dlq"
  /\ UNCHANGED <<stored, receives, met, unwalked, found, unvalidated, pending,
                 requested, whole>>

\* An exception that leaves start: the event becomes visible again.
Raises ==
  /\ event' = "queued"
  /\ UNCHANGED <<stored, receives, met, unwalked, found, unvalidated, pending,
                 requested, whole>>

\* The Lambda runs into its time limit.
TimeOut ==
  /\ "lambda" \in TriggerFailures
  /\ event \in Handling
  /\ Raises

-----------------------------------------------------------------------------
(***************************************************************************)
(* Reading: metadata, links, items.                                         *)
(***************************************************************************)

\* retrieve_user_n_alg_name_version: the loop returns from its first round,
\* whatever the schema check said; a file without the three keys raises.
ReadMetadata ==
  /\ event = "metadata"
  /\ \/ \E m \in Mets \intersect stored :
          /\ MetKind[m] # "incomplete"
          /\ met' = {m}
          /\ event' = "walk"
          /\ UNCHANGED <<stored, receives, unwalked, found, unvalidated, pending,
                         requested, whole>>
     \/ /\ \/ Mets \intersect stored = {}
           \/ \E m \in Mets \intersect stored : MetKind[m] = "incomplete"
           \/ "s3" \in TriggerFailures
        /\ Raises

\* Faulty variant of ItemsBehind: a collection replaces what was found so far.
ItemsBehindOnly(l) == IF l \in Urls THEN found \union {l} ELSE Members[l]

\* The items known once link l has been followed.
ItemsBehind(l) == found \union (IF l \in Urls THEN {l} ELSE Members[l])

\* One round of retrieve_all_stac_items.  A link whose file is not there is
\* skipped, and so is a collection that cannot be read or parsed; the files
\* of a collection's items are not looked at.
FollowLink(l) ==
  /\ event = "walk"
  /\ l \in unwalked
  /\ \/ /\ \/ l \in stored /\ found' = ItemsBehind(l) /\ UNCHANGED whole
           \/ l \notin stored /\ UNCHANGED <<found, whole>>
           \/ /\ l \in Collections \intersect stored
              /\ "parse" \in TriggerFailures
              /\ whole' = FALSE
              /\ UNCHANGED found
        /\ unwalked' = unwalked \ {l}
        /\ UNCHANGED <<stored, event, receives, met, unvalidated, pending, requested>>
     \/ /\ "s3" \in TriggerFailures
        /\ Raises

\* Every link followed: list(set(item_links)) goes to retrieve_items.
LinksFollowed ==
  /\ event = "walk"
  /\ unwalked = {}
  /\ event' = "validate"
  /\ unvalidated' = found
  /\ UNCHANGED <<stored, receives, met, unwalked, found, pending, requested, whole>>

Readable(u) == u \in stored
Complete(u) == AssetsOf[u] \subseteq stored

\* Faulty variant of ValidateItem: an incomplete item is skipped.
ValidateItemSkips(u) ==
  /\ event = "validate"
  /\ u \in unvalidated
  /\ unvalidated' = unvalidated \ {u}
  /\ pending' = IF Readable(u) /\ u \notin NoCollectionId /\ Complete(u)
                THEN pending \union {u} ELSE pending
  /\ UNCHANGED <<stored, event, receives, met, unwalked, found, requested, whole>>

\* One round of retrieve_items: an item without collection_id is skipped, an
\* unreadable one or one with a missing asset raises.
ValidateItem(u) ==
  /\ event = "validate"
  /\ u \in unvalidated
  /\ \/ /\ Readable(u)
        /\ u \in NoCollectionId \/ Complete(u)
        /\ unvalidated' = unvalidated \ {u}
        /\ pending' = IF u \in NoCollectionId THEN pending ELSE pending \union {u}
        /\ UNCHANGED <<stored, event, receives, met, unwalked, found, requested, whole>>
     \/ /\ \/ ~Readable(u)
           \/ u \notin NoCollectionId /\ ~Complete(u)
           \/ "s3" \in TriggerFailures
        /\ Raises

\* Step 7: the API's address and the user's token are fetched once.
Authenticate ==
  /\ event = "validate"
  /\ unvalidated = {}
  /\ \/ /\ event' = "request"
        /\ UNCHANGED <<stored, receives, met, unwalked, found, unvalidated, pending,
                       requested, whole>>
     \/ /\ "creds" \in TriggerFailures
        /\ Raises

-----------------------------------------------------------------------------
(***************************************************************************)
(* Step 8: PUT verbose_archive, one item after the other.                   *)
(***************************************************************************)
Accepted(u) == requested' = [requested EXCEPT ![u] = @ + 1]

\* Faulty variant of RequestItem: a request that failed is logged and dropped.
RequestItemSwallows(u) ==
  /\ event = "request"
  /\ u \in pending
  /\ pending' = pending \ {u}
  /\ \/ Accepted(u)
     \/ {"api", "api-reply"} \intersect TriggerFailures # {} /\ UNCHANGED requested
  /\ UNCHANGED <<stored, event, receives, met, unwalked, found, unvalidated, whole>>

\* Faulty variant of RequestItem: a timed-out request is sent again in place.
RequestItemAgain(u) ==
  /\ event = "request"
  /\ u \in pending
  /\ Accepted(u)
  /\ \/ pending' = pending \ {u}
     \/ "api-reply" \in TriggerFailures /\ UNCHANGED pending
  /\ UNCHANGED <<stored, event, receives, met, unwalked, found, unvalidated, whole>>

\* The API accepts, refuses (raise_for_status), or accepts after the client
\* has given up waiting (timeout=30); the last two raise.
RequestItem(u) ==
  /\ event = "request"
  /\ u \in pending
  /\ \/ /\ Accepted(u)
        /\ pending' = pending \ {u}
        /\ UNCHANGED event
     \/ /\ "api" \in TriggerFailures
        /\ event' = "queued"
        /\ UNCHANGED <<pending, requested>>
     \/ /\ "api-reply" \in TriggerFailures
        /\ Accepted(u)
        /\ event' = "queued"
        /\ UNCHANGED pending
  /\ UNCHANGED <<stored, receives, met, unwalked, found, unvalidated, whole>>

\* The handler returns and the event source mapping deletes the event.
Return ==
  /\ event = "request"
  /\ pending = {}
  /\ event' = "deleted"
  /\ UNCHANGED <<stored, receives, met, unwalked, found, unvalidated, pending,
                 requested, whole>>

TriggerStep ==
  \/ Receive \/ Redrive \/ ReadMetadata \/ LinksFollowed \/ Authenticate \/ Return
  \/ \E l \in Links : FollowLink(l)
  \/ \E u \in Urls : ValidateItem(u) \/ RequestItem(u)

Next == TriggerStep \/ TimeOut \/ Upload

\* SQS delivers a visible event and a started Lambda runs on; the producer of
\* the catalogue owes nothing.
Spec == Init /\ [][Next]_triggerVars
FairSpec == Spec /\ WF_triggerVars(TriggerStep)

-----------------------------------------------------------------------------
(***************************************************************************)
(* Properties.                                                              *)
(***************************************************************************)

\* All or nothing: the first request of an execution leaves only after every
\* item the walk found has been validated, so a catalogue with one incomplete
\* item requests none of its items (step 6, "throw an exception to quit").
RequestsAfterValidation ==
  [][\A u \in Urls : requested'[u] # requested[u] =>
       \A v \in Eligible(found) : Readable(v) /\ Complete(v)]_triggerVars

\* The event is gone for good only when the API has accepted every item the
\* last walk found and that can be archived, through however many receives.
DeletedMeansRequested ==
  event = "deleted" => \A u \in Eligible(found) : requested[u] > 0

\* A catalogue that was complete before the last receive began, and whose
\* collections could be parsed, is requested whole.
WholeCatalogueRequested ==
  (event = "deleted" /\ whole) => \A u \in Eligible(AllItems) : requested[u] > 0

\* Redelivery repeats requests the API had accepted, and a client that gave up
\* waiting cannot know; still no item is requested twice in one receive.
RequestsBoundedByReceives ==
  \A u \in Urls : requested[u] <= receives

(***************************************************************************)
(* The inductive invariant behind the safety properties.                    *)
(***************************************************************************)

\* What has been walked and validated so far, in terms of what was found.
ValidatedSoFar ==
  /\ event \in {"metadata", "walk"} => pending = {} /\ unvalidated = {}
  /\ event = "validate" => pending = Eligible(found \ unvalidated)
  /\ event \in {"request", "deleted"} => unvalidated = {}
  /\ event \in {"validate", "request"} =>
       \A u \in Eligible(found \ unvalidated) : Readable(u) /\ Complete(u)

\* An item still to be requested has not been requested in this receive; one
\* that is no longer pending has been.
RequestedSoFar ==
  /\ RequestsBoundedByReceives
  /\ event \in {"metadata", "walk", "validate"} =>
       \A u \in Urls : requested[u] < receives
  /\ event = "request" => \A u \in pending : requested[u] < receives
  /\ event \in {"request", "deleted"} =>
       \A u \in Eligible(found) \ pending : requested[u] > 0
  /\ event = "deleted" => pending = {}

\* A walk of a complete catalogue misses nothing.
WalkedSoFar ==
  whole =>
    /\ Objects \subseteq stored
    /\ event \in Handling \union {"deleted"} =>
         AllItems \subseteq found \union (unwalked \intersect Urls)
                      \union UNION {Members[c] : c \in unwalked \ Urls}
    /\ event \in {"validate", "request", "deleted"} => unwalked = {}

\* The progress of one execution of start, stage by stage, in terms of what its
\* walk found and of the receives before it.
TriggerInv == TypeOK /\ ValidatedSoFar /\ RequestedSoFar /\ WalkedSoFar

\* Whatever fails, the event is deleted or dead-lettered in the end.
EventLeavesQueue == <>(event \in {"deleted", "dlq"})

\* The required schema HYSDS_MET_SCHEMA holds of the metadata the requests are
\* made with.  The result of the check is recorded, then returned over.
MetadataIsValid == \A m \in met : MetKind[m] = "valid"
=============================================================================
