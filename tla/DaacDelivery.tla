---------------------------- MODULE DaacDelivery ----------------------------
(***************************************************************************)
(* The whole delivery: the archiver (DaacSender) publishes to the DAAC, the *)
(* DAAC answers into the response queue, and the response Lambda            *)
(* (DaacReceiver) records the answer in the stores both sides share.  The   *)
(* DAAC is external: it may answer any message it was sent, at any moment,  *)
(* more than once and with either outcome, or never.                        *)
(***************************************************************************)
EXTENDS DaacSender, DaacReceiver

vars == <<storeVars, senderVars, receiverVars>>

\* No queue counter, clock reading or row leaves its range, and every archiver
\* and handler is at a place of its code.
TypeOK ==
  /\ StoresTypeOK
  /\ SenderTypeOK
  /\ ReceiverTypeOK

Init ==
  /\ StoresInit
  /\ SenderInit
  /\ ReceiverInit

DaacAnswers(m) ==
  /\ \E i \in Ids, o \in {"SUCCESS", "FAILURE"} :
       /\ published[i] > 0
       /\ Enqueue(m, i, o)
  /\ UNCHANGED <<storeVars, senderVars>>

Next ==
  \/ SenderNext /\ UNCHANGED receiverVars
  \/ ReceiverNext /\ UNCHANGED senderVars
  \/ \E m \in Messages : DaacAnswers(m)
  \/ Tick /\ UNCHANGED <<senderVars, receiverVars>>

(***************************************************************************)
(* Lambda keeps invoking queued events and SQS keeps delivering visible     *)
(* messages; a started handler runs on.  Nothing is assumed of the DAAC,    *)
(* the administrators, the callers or the clock.                            *)
(***************************************************************************)
Fairness ==
  /\ \A r \in Requests : WF_vars(ArchiverStep(r) /\ UNCHANGED receiverVars)
  /\ \A m \in Messages : WF_vars(HandlerStep(m) /\ UNCHANGED senderVars)

Spec == Init /\ [][Next]_vars
FairSpec == Spec /\ Fairness

-----------------------------------------------------------------------------
(***************************************************************************)
(* Properties.                                                              *)
(***************************************************************************)

\* An answer is on record only after a submission of the same identifier, and
\* with a strictly later datetime: existing_statuses[0], which the receiver
\* trusts for collection, granule and target, is always the sender's row.
AnswerFollowsSubmission ==
  \A r \in rows : r.status \in ReceiveStatuses =>
    \E q \in Get(r.identifier) : q.status \in SubmitStatuses /\ q.datetime < r.datetime

\* Every row of an identifier, whichever Lambda wrote it, names the item and
\* the target collection the identifier was generated for.
RowsNameTheirOwner ==
  \A row \in rows : \E r \in Requests : \E k \in DOMAIN sending[r] :
    /\ sending[r][k].id = row.identifier
    /\ row.subject = <<ItemOf[r], sending[r][k].target>>

\* No status is invented: a submit success was published, and an answer on
\* record is one the DAAC gave for that identifier.
StatusesAreTrue ==
  \A r \in rows :
    /\ r.status = "cnm-submit-success" => published[r.identifier] > 0
    /\ r.status \in ReceiveStatuses =>
         \E m \in Messages : /\ mpc[m] # "unsent"
                             /\ mid[m] = r.identifier
                             /\ ReceiveStatus(m) = r.status

\* A response leaves the queue for good only when all its effects exist: its
\* row, a raw copy, and for a success of a traced request the result file.
DeletedMeansRecorded ==
  \A m \in Messages : mpc[m] = "deleted" =>
    /\ \E row \in Get(mid[m]) : row.status = ReceiveStatus(m)
    /\ \E object \in raw : object[1] = mid[m]
    /\ (outcome[m] = "SUCCESS" /\ \E r \in Traced : \E k \in DOMAIN sending[r] :
                                    sending[r][k].id = mid[m])
         => \E f \in results : f.identifier = mid[m]

\* The row that stands for an identifier never changes: existing_statuses[0]
\* is the same row on every later lookup, although rows are inserted after
\* they are stamped, by both Lambdas, and not in the order of their stamps.
FirstRowStands ==
  [][\A i \in Ids : Get(i) # {} => Get(i)' # {} /\ Earliest(i)' = Earliest(i)]_rows

\* Every response that reaches the queue is deleted or dead-lettered in the
\* end, however often its handler fails.
ResponsesDrain ==
  \A m \in Messages : mpc[m] = "visible" ~> mpc[m] \in {"deleted", "dlq"}

\* Every accepted request comes to an end, however often it crashes.
RequestsSettle ==
  \A r \in Requests : pc[r] \in {"queued", "staging"} ~> pc[r] \in Settled

\* When nothing fails, an accepted request is either refused by the second
\* authorisation or delivered whole: every identifier published, its submission
\* on record.  In particular the sender's insert never meets a row of its own.
Delivers ==
  \A r \in Requests : pc[r] \in {"queued", "staging"} ~>
    \/ pc[r] = "denied"
    \/ \A k \in DOMAIN sending[r] :
         published[sending[r][k].id] > 0 /\ Submitted(sending[r][k].id)

\* What the abstract ledger sees of the pipeline.
Ledger == INSTANCE DeliveryLedger WITH
  issued  <- {i \in Ids : Issued(i)},
  sent    <- {i \in Ids : published[i] > 0},
  answers <- {<<mid[m], ReceiveStatus(m)>> : m \in {n \in Messages : mpc[n] # "unsent"}},
  ledger  <- {<<r.identifier, r.status>> : r \in rows}

\* The pipeline implements the ledger.
ImplementsLedger == Ledger!Spec
=============================================================================
