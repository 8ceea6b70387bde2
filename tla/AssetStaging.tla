----------------------------- MODULE AssetStaging -----------------------------
(***************************************************************************)
(* The files of one item on their way to the DAAC: the archiver chooses the *)
(* files an agreement asks for and notes where each one is (extract_files), *)
(* an invocation copies the item's assets one by one to the staging bucket  *)
(* (services/staging_svc.py), the files are sent, and the DAAC - here the   *)
(* repository's mock of it, mock_daac/mock_daac_logic.py - follows the      *)
(* location in its message.  The owner of the workspace may remove or       *)
(* rewrite originals at any moment, and the invocation may die and be       *)
(* started again with the event of the first.                               *)
(*                                                                          *)
(* Assets are numbered in the order of the item, file names arbitrarily.    *)
(***************************************************************************)
EXTENDS Integers, Sequences

CONSTANTS
  AssetCount,   \* assets of the item
  NameOf,       \* file name of each asset: the last part of its href
  Linked,       \* assets whose href is an s3://bucket/key
  RoleOf,       \* first role of each asset, "data" when it has none
  EndingsOf,    \* configurable extensions each asset's file name ends with
  Described,    \* assets with a size and a checksum
  Agreements,   \* archiving_types an agreement may have
  NoTypes,      \* the None the configuration API stores when none are given
  SkipStaging,  \* staged_s3_bucket = SKIP_STAGING_STAC_ASSETS
  MaxRuns       \* Lambda runs one asynchronous event at most this often

Assets == 1..AssetCount

ASSUME StagingAssumption ==
  /\ AssetCount \in Nat
  /\ NameOf \in [Assets -> Nat]
  /\ Linked \subseteq Assets
  /\ Described \subseteq Assets
  /\ NoTypes # << >>
  /\ \A list \in Agreements \ {NoTypes} : DOMAIN list = 1..Len(list)
  /\ SkipStaging \in BOOLEAN
  /\ MaxRuns \in Nat \ {0}

VARIABLES
  types,    \* archiving_types of the agreement
  objects,  \* what the buckets hold: location -> content
  altered,  \* assets whose original is not, or no longer, what was described
  hrefs,    \* href of each asset in the item of the running invocation
  blocks,   \* file blocks of the messages to send
  step,     \* where the archiver is
  run,      \* invocations so far
  next,     \* the asset stage_files is at
  unsent,   \* file blocks the send loop has not reached
  sent,     \* file blocks the DAAC was sent
  answers   \* what the DAAC answered

stagingVars == <<types, objects, altered, hrefs, blocks, step, run, next, unsent,
                 sent, answers>>

(***************************************************************************)
(* Location <<0, a>> is where asset a was when the item was made, <<n, f>>  *)
(* the file named f under the prefix of invocation n, which holds the time  *)
(* and so differs from one invocation to the next.  Content <<a, 0>> is the *)
(* file of asset a its metadata describe, <<a, 1>> anything else its owner  *)
(* has put there, of another size or only with other bytes.                 *)
(***************************************************************************)
Location == (0..MaxRuns) \X Nat
Content  == Assets \X {0, 1}

Origin(a) == <<0, a>>

\* Faulty variant of StagedAt: the prefix lacks the time.
StagedAtOnePlace(n, a) == <<1, NameOf[a]>>

StagedAt(n, a) == <<n, NameOf[a]>>

Block == [asset : Assets, uri : Location]

Running == {"copy", "send"}

\* What the check of a file comes to: "mismatched size", "unknown error" with
\* whatever made the read fail, or nothing to say against it.
Verdict == {"PASSED", "MISMATCHED", "UNREADABLE"}

\* Locations and contents are what they should be, and the archiver is at a
\* place of its code.
TypeOK ==
  /\ types \in Agreements
  /\ DOMAIN objects \subseteq Location
  /\ \A l \in DOMAIN objects : objects[l] \in Content
  /\ altered \subseteq Assets
  /\ hrefs \in [Assets -> Location]
  /\ blocks \subseteq Block
  /\ step \in {"new", "queued", "refused", "failed", "dropped", "finished"} \union Running
  /\ run \in 0..MaxRuns
  /\ next \in 1..(AssetCount + 1)
  /\ unsent \subseteq blocks
  /\ sent \subseteq blocks
  /\ answers \subseteq Block \X Verdict

\* A store with the content c at l.
Put(store, l, c) == [k \in DOMAIN store \union {l} |-> IF k = l THEN c ELSE store[k]]

Without(store, l) == [k \in DOMAIN store \ {l} |-> store[k]]

-----------------------------------------------------------------------------
(***************************************************************************)
(* extract_files.  The archiving types become a dictionary by data type, in *)
(* which a later entry replaces an earlier one.                             *)
(***************************************************************************)
Entry(list, d) ==
  LET k == CHOOSE i \in DOMAIN list :
             /\ list[i].type = d
             /\ \A j \in DOMAIN list : list[j].type = d => j <= i
  IN  list[k]

OfListedType(list) == {a \in Assets : \E i \in DOMAIN list : list[i].type = RoleOf[a]}

\* Assets that are converted to a file block, before their extension is looked
\* at.
Converted(list) == IF list = << >> THEN Assets ELSE OfListedType(list)

\* Faulty variant of Selected: no extensions are taken to mean none.
SelectedListedOnly(list) ==
  IF list = << >> THEN Assets
  ELSE {a \in OfListedType(list) : Entry(list, RoleOf[a]).extensions \intersect EndingsOf[a] # {}}

Selected(list) ==
  IF list = << >> THEN Assets
  ELSE {a \in OfListedType(list) :
          LET wanted == Entry(list, RoleOf[a]).extensions
          IN  wanted = {} \/ wanted \intersect EndingsOf[a] # {}}

\* Where extract_files raises: None has no length, and an asset without a size
\* or a checksum has no file block.
Raises(list) == list = NoTypes \/ ~(Converted(list) \subseteq Described)

\* Faulty variant of FileBlock: assets numbered from 0.
FileBlockFromZero(a) == [asset |-> a - 1, uri |-> hrefs[a]]

\* Faulty variant of FileBlock: the place the asset will be staged at.
FileBlockStaged(a) == [asset |-> a, uri |-> StagedAt(1, a)]

FileBlock(a) == [asset |-> a, uri |-> hrefs[a]]

-----------------------------------------------------------------------------
\* The metadata need not have described the files in the first place.
Init ==
  /\ types \in Agreements
  /\ altered \in SUBSET Linked
  /\ objects = [l \in {Origin(a) : a \in Linked} |-> <<l[2], IF l[2] \in altered THEN 1 ELSE 0>>]
  /\ hrefs = [a \in Assets |-> Origin(a)]
  /\ blocks = {}
  /\ step = "new"
  /\ run = 0
  /\ next = 1
  /\ unsent = {}
  /\ sent = {}
  /\ answers = {}

\* generate_sending_ids_dict, in the request: the messages' file blocks are made
\* here and travel with the event.
Extract ==
  /\ step = "new"
  /\ IF Raises(types)
       THEN step' = "refused" /\ UNCHANGED blocks
       ELSE /\ blocks' = {FileBlock(a) : a \in Selected(types)}
            /\ step' = "queued"
  /\ UNCHANGED <<types, objects, altered, hrefs, run, next, unsent, sent, answers>>

\* archive_granule_json starts, with the item of the event.
Invoke ==
  /\ step = "queued"
  /\ run < MaxRuns
  /\ run' = run + 1
  /\ hrefs' = [a \in Assets |-> Origin(a)]
  /\ next' = 1
  /\ unsent' = blocks
  /\ step' = IF SkipStaging THEN "send" ELSE "copy"
  /\ UNCHANGED <<types, objects, altered, blocks, sent, answers>>

\* Faulty variant of StageAsset: a failed copy is logged and passed over.
StageAssetTolerant ==
  /\ step = "copy"
  /\ next \in Assets
  /\ next' = next + 1
  /\ \/ /\ next \in Linked
        /\ hrefs[next] \in DOMAIN objects
        /\ objects' = Put(objects, StagedAt(run, next), objects[hrefs[next]])
        /\ hrefs' = [hrefs EXCEPT ![next] = StagedAt(run, next)]
     \/ UNCHANGED <<objects, hrefs>>
  /\ UNCHANGED <<types, altered, blocks, step, run, unsent, sent, answers>>

\* Faulty variant of StageAsset: the prefix does not keep the file names apart.
StageAssetUnnamed ==
  /\ step = "copy"
  /\ next \in Linked
  /\ hrefs[next] \in DOMAIN objects
  /\ objects' = Put(objects, <<run, 0>>, objects[hrefs[next]])
  /\ hrefs' = [hrefs EXCEPT ![next] = <<run, 0>>]
  /\ next' = next + 1
  /\ UNCHANGED <<types, altered, blocks, step, run, unsent, sent, answers>>

\* One round of stage_files for an asset on S3: the copy, then the new href.
StageAsset ==
  /\ step = "copy"
  /\ next \in Linked
  /\ hrefs[next] \in DOMAIN objects
  /\ objects' = Put(objects, StagedAt(run, next), objects[hrefs[next]])
  /\ hrefs' = [hrefs EXCEPT ![next] = StagedAt(run, next)]
  /\ next' = next + 1
  /\ UNCHANGED <<types, altered, blocks, step, run, unsent, sent, answers>>

\* An asset elsewhere, or with an incomplete URL, is only warned about.
PassOver ==
  /\ step = "copy"
  /\ next \in Assets \ Linked
  /\ next' = next + 1
  /\ UNCHANGED <<types, objects, altered, hrefs, blocks, step, run, unsent, sent, answers>>

\* The copy fails after its retries, certainly when the original is gone.  The
\* exception leaves the copies made so far.
StagingRaises ==
  /\ step = "copy"
  /\ next \in Linked
  /\ step' = "failed"
  /\ UNCHANGED <<types, objects, altered, hrefs, blocks, run, next, unsent, sent, answers>>

Staged ==
  /\ step = "copy"
  /\ next > AssetCount
  /\ step' = "send"
  /\ UNCHANGED <<types, objects, altered, hrefs, blocks, run, next, unsent, sent, answers>>

\* The send loop, in the order of the blocks; a failed publish goes on.
SendBlock ==
  /\ step = "send"
  /\ \E b \in unsent :
       /\ \A c \in unsent : b.asset <= c.asset
       /\ unsent' = unsent \ {b}
       /\ sent' \in {sent, sent \union {b}}
  /\ UNCHANGED <<types, objects, altered, hrefs, blocks, step, run, next, answers>>

Finish ==
  /\ step = "send"
  /\ unsent = {}
  /\ step' = "finished"
  /\ UNCHANGED <<types, objects, altered, hrefs, blocks, run, next, unsent, sent, answers>>

\* The invocation runs out of time or dies and is retried, while Lambda will.
Crash ==
  /\ step \in Running
  /\ step' = IF run < MaxRuns THEN "queued" ELSE "dropped"
  /\ UNCHANGED <<types, objects, altered, hrefs, blocks, run, next, unsent, sent, answers>>

-----------------------------------------------------------------------------
(***************************************************************************)
(* The DAAC: __check_s3_file compares the size of the object at the uri     *)
(* with the size in the message, and only the size.  Reading it fails when  *)
(* the object is gone, and at any time because access is denied or S3 is    *)
(* out.  A location that is not on S3 leads anywhere.  What passes, the     *)
(* mock then accepts, refuses or leaves unanswered at random.  SNS may      *)
(* deliver a message repeatedly.                                            *)
(***************************************************************************)
Elsewhere(b) == b.asset \notin Linked

Present(b) == b.uri \in DOMAIN objects

DaacAnswers(b) ==
  /\ b \in sent
  /\ \E verdict \in Verdict :
       /\ verdict = "PASSED" => Present(b) \/ Elsewhere(b)
       /\ verdict = "MISMATCHED" =>
            (Present(b) /\ objects[b.uri] # <<b.asset, 0>>) \/ Elsewhere(b)
       /\ answers' = answers \union {<<b, verdict>>}
  /\ UNCHANGED <<types, objects, altered, hrefs, blocks, step, run, next, unsent, sent>>

\* The workspace belongs to the user who ran the workflow.
OwnerRemoves(a) ==
  /\ Origin(a) \in DOMAIN objects
  /\ objects' = Without(objects, Origin(a))
  /\ altered' = altered \union {a}
  /\ UNCHANGED <<types, hrefs, blocks, step, run, next, unsent, sent, answers>>

OwnerRewrites(a) ==
  /\ Origin(a) \in DOMAIN objects
  /\ objects' = Put(objects, Origin(a), <<a, 1>>)
  /\ altered' = altered \union {a}
  /\ UNCHANGED <<types, hrefs, blocks, step, run, next, unsent, sent, answers>>

Archiver ==
  \/ Extract \/ Invoke \/ StageAsset \/ PassOver \/ StagingRaises \/ Staged
  \/ SendBlock \/ Finish \/ Crash

Next ==
  \/ Archiver
  \/ \E b \in blocks : DaacAnswers(b)
  \/ \E a \in Assets : OwnerRemoves(a) \/ OwnerRewrites(a)

Spec == Init /\ [][Next]_stagingVars

-----------------------------------------------------------------------------
(***************************************************************************)
(* Properties.                                                              *)
(***************************************************************************)

\* Of the linked assets before k with the file name of a, c is the last: its
\* copy is the one that stays under that name.
Holds(c, a, k) ==
  /\ c \in Linked /\ c < k /\ NameOf[c] = NameOf[a]
  /\ \A d \in Linked : d < k /\ NameOf[d] = NameOf[a] => d <= c

\* Every linked asset has its copy under the prefix of invocation n.
AllStaged(n) ==
  \A a \in Linked :
    /\ StagedAt(n, a) \in DOMAIN objects
    /\ Holds(objects[StagedAt(n, a)][1], a, AssetCount + 1)

\* While the assets are copied, every href already rewritten leads to a copy
\* this invocation made: of its own asset, or of a later one that shares the
\* file name, which staging keeps and this names.
CopiesBehindHrefs ==
  \A a \in Linked :
    IF step \in Running /\ ~SkipStaging /\ a < next
      THEN /\ hrefs[a] \in DOMAIN objects
           /\ hrefs[a][1] = run
           /\ Holds(objects[hrefs[a]][1], a, next)
      ELSE step = "copy" => hrefs[a] = Origin(a)

\* No message leaves before one invocation has copied every linked asset: a
\* failed copy stops the request, and the retry of a dead invocation starts
\* over instead of sending what the first had staged in part.
SentAfterStaging ==
  (sent # {} /\ ~SkipStaging) => \E n \in 1..run : AllStaged(n)

\* The DAAC finds a linked file of another size than the message says only when
\* the file at its original place is not the one described: no copy the
\* archiver makes, of whichever invocation and under whatever shared file name,
\* comes between a message and its file.  (That a file cannot be read needs no
\* cause in here.)
MismatchHasCause ==
  \A b \in blocks :
    (b.asset \in Linked /\ <<b, "MISMATCHED">> \in answers) => b.asset \in altered

\* Files step 6 of handshake-daac.md asks for: all without archiving types, else
\* those of a listed type with, where extensions are listed, one of them.
AskedFor(list, a) ==
  \/ list \in {NoTypes, << >>}
  \/ \E i \in DOMAIN list :
       /\ list[i].type = RoleOf[a]
       /\ list[i].extensions = {} \/ list[i].extensions \intersect EndingsOf[a] # {}

NoneTwice(list) ==
  list = NoTypes \/ \A i, j \in DOMAIN list : list[i].type = list[j].type => i = j

\* When an agreement lists no data type twice and the request is accepted, its
\* files are the ones the handshake asks for - and archiving types were given,
\* if only as an empty list: the None the API stores by default, which the
\* handshake takes for "everything", never gets past extract_files.
SelectionFollowsHandshake ==
  (step \notin {"new", "refused"} /\ NoneTwice(types)) =>
    /\ types # NoTypes
    /\ {b.asset : b \in blocks} = {a \in Assets : AskedFor(types, a)}

\* Copies stand: what an invocation has staged, a later one leaves alone, and
\* none changes once the files are being sent.  (The directory that stage_files'
\* docstring empties first, and with it the copies of the first invocation, is
\* not what the code copies to: the prefix holds the time, and nothing is
\* checked or emptied.)
StagedCopiesStand ==
  [][\A l \in DOMAIN objects :
       (l[1] > 0 /\ (step # "copy" \/ l[1] < run)) =>
         l \in DOMAIN objects' /\ objects'[l] = objects[l]]_stagingVars

\* "2. Copy Data and Metadata to staging bucket [...] 4. Send message to DAAC
\* SNS": the messages name the staged copies, unless staging is skipped and they
\* go out "as hysds bucket S3 URLs".
MessageNamesStagedCopy ==
  ~SkipStaging => \A b \in sent : b.asset \in Linked => b.uri[1] > 0
=============================================================================
