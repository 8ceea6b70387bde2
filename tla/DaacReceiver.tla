---------------------------- MODULE DaacReceiver ----------------------------
(***************************************************************************)
(* The response side: the SQS queue of DAAC responses with its dead-letter  *)
(* queue, and the Lambda that consumes it one message at a time             *)
(* (daac_archiver/lambda_function.py, daac_receiver.py, the CNM plugins and *)
(* services/status_update_svc.py).  A message is invisible while a Lambda   *)
(* works on it, is deleted when the handler returns and becomes visible     *)
(* again when the handler raises.                                           *)
(***************************************************************************)
EXTENDS CataliaStores

CONSTANTS
  Messages,    \* responses the DAAC may send; SQS messages of their own
  MaxReceives  \* redrive policy: maxReceiveCount of the queue

ASSUME ReceiverAssumption == MaxReceives \in Nat \ {0}

VARIABLES
  mpc,       \* where each message is: in the queue, in a handler, or gone
  mid,       \* its identifier
  outcome,   \* its response.status is SUCCESS or not
  receives,  \* its ApproximateReceiveCount
  subject,   \* collection, granule and target read from existing_statuses[0]
  mstamp,    \* datetime taken by update_status
  failed     \* update_status has collected an error

receiverVars == <<mpc, mid, outcome, receives, subject, mstamp, failed>>

Handling == {"lookup", "stamp", "insert", "result", "store"}

ReceiverTypeOK ==
  /\ mpc \in [Messages -> {"unsent", "visible", "deleted", "dlq"} \union Handling]
  /\ mid \in [Messages -> Ids]
  /\ outcome \in [Messages -> {"SUCCESS", "FAILURE"}]
  /\ receives \in [Messages -> 0..MaxReceives]
  /\ subject \in [Messages -> Subject]
  /\ mstamp \in [Messages -> 0..MaxTime]
  /\ failed \in [Messages -> BOOLEAN]

\* The identifier and the subject of a message not sent yet are immaterial.
ReceiverInit ==
  /\ mpc = [m \in Messages |-> "unsent"]
  /\ mid \in {[m \in Messages |-> i] : i \in Ids}
  /\ outcome = [m \in Messages |-> "FAILURE"]
  /\ receives = [m \in Messages |-> 0]
  /\ subject \in {[m \in Messages |-> s] : s \in Subject}
  /\ mstamp = [m \in Messages |-> 0]
  /\ failed = [m \in Messages |-> FALSE]

\* update_status_wrapper: the status recorded for a response.
ReceiveStatus(m) ==
  IF outcome[m] = "SUCCESS" THEN "cnm-receive-success" ELSE "cnm-receive-failed"

ReceiveRow(m) ==
  [identifier |-> mid[m], datetime |-> mstamp[m],
   subject |-> subject[m], status |-> ReceiveStatus(m)]

-----------------------------------------------------------------------------
\* A response reaches the queue.
Enqueue(m, i, o) ==
  /\ mpc[m] = "unsent"
  /\ mpc' = [mpc EXCEPT ![m] = "visible"]
  /\ mid' = [mid EXCEPT ![m] = i]
  /\ outcome' = [outcome EXCEPT ![m] = o]
  /\ UNCHANGED <<receives, subject, mstamp, failed>>

\* Faulty variant of Receive: no redrive limit.
ReceiveUnlimited(m) ==
  /\ mpc[m] = "visible"
  /\ receives' = [receives EXCEPT ![m] = @ + 1]
  /\ failed' = [failed EXCEPT ![m] = FALSE]
  /\ mpc' = [mpc EXCEPT ![m] = "lookup"]
  /\ UNCHANGED <<storeVars, mid, outcome, subject, mstamp>>

\* The event source mapping hands a visible message to a new handler, which
\* starts with no state of an earlier try.
Receive(m) ==
  /\ mpc[m] = "visible"
  /\ receives[m] < MaxReceives
  /\ receives' = [receives EXCEPT ![m] = @ + 1]
  /\ failed' = [failed EXCEPT ![m] = FALSE]
  /\ mpc' = [mpc EXCEPT ![m] = "lookup"]
  /\ UNCHANGED <<storeVars, mid, outcome, subject, mstamp>>

\* Faulty variant of Redrive: one receive late, which never comes.
RedriveLate(m) ==
  /\ mpc[m] = "visible"
  /\ receives[m] > MaxReceives
  /\ mpc' = [mpc EXCEPT ![m] = "dlq"]
  /\ UNCHANGED <<storeVars, mid, outcome, receives, subject, mstamp, failed>>

\* SQS moves a message that was received too often to the dead-letter queue.
Redrive(m) ==
  /\ mpc[m] = "visible"
  /\ receives[m] = MaxReceives
  /\ mpc' = [mpc EXCEPT ![m] = "dlq"]
  /\ UNCHANGED <<storeVars, mid, outcome, receives, subject, mstamp, failed>>

\* Faulty variant of Lookup: an identifier without rows is not refused.
LookupUnchecked(m) ==
  /\ mpc[m] = "lookup"
  /\ mpc' = [mpc EXCEPT ![m] = "stamp"]
  /\ IF Get(mid[m]) = {}
     THEN UNCHANGED subject
     ELSE subject' = [subject EXCEPT ![m] = Earliest(mid[m]).subject]
  /\ UNCHANGED <<storeVars, mid, outcome, receives, mstamp, failed>>

\* receive_from_daac and update_stac: an unreachable schema or database, or an
\* identifier without rows, raises; otherwise the first row says what it stands
\* for.
Lookup(m) ==
  /\ mpc[m] = "lookup"
  /\ \/ /\ Get(mid[m]) = {} \/ Failures \intersect {"schema", "db"} # {}
        /\ mpc' = [mpc EXCEPT ![m] = "visible"]
        /\ UNCHANGED subject
     \/ /\ Get(mid[m]) # {}
        /\ mpc' = [mpc EXCEPT ![m] = "stamp"]
        /\ subject' = [subject EXCEPT ![m] = Earliest(mid[m]).subject]
  /\ UNCHANGED <<storeVars, mid, outcome, receives, mstamp, failed>>

\* Faulty variant of StampReceive: a retry keeps the datetime of the first try.
StampReceiveOnce(m) ==
  /\ mpc[m] = "stamp"
  /\ mstamp' = [mstamp EXCEPT ![m] = IF receives[m] > 1 THEN @ ELSE now]
  /\ mpc' = [mpc EXCEPT ![m] = "insert"]
  /\ UNCHANGED <<storeVars, mid, outcome, receives, subject, failed>>

\* CnmStatusUpdatePlugin: update_status takes the datetime ...
StampReceive(m) ==
  /\ mpc[m] = "stamp"
  /\ mstamp' = [mstamp EXCEPT ![m] = now]
  /\ mpc' = [mpc EXCEPT ![m] = "insert"]
  /\ UNCHANGED <<storeVars, mid, outcome, receives, subject, failed>>

\* Faulty variant of InsertReceive: the error of the insert is swallowed.
InsertReceiveForgets(m) ==
  /\ mpc[m] = "insert"
  /\ AddRow(ReceiveRow(m)) \/ AddRowRaises(ReceiveRow(m))
  /\ mpc' = [mpc EXCEPT ![m] = "result"]
  /\ UNCHANGED <<now, traces, results, raw, mid, outcome, receives, subject, mstamp, failed>>

\* ... inserts the row and calls the catalog client, remembering an error of
\* either instead of raising it ...
InsertReceive(m) ==
  /\ mpc[m] = "insert"
  /\ \/ /\ AddRow(ReceiveRow(m))
        /\ UNCHANGED failed
     \/ /\ AddRow(ReceiveRow(m))
        /\ "sfa" \in Failures
        /\ failed' = [failed EXCEPT ![m] = TRUE]
     \/ /\ AddRowRaises(ReceiveRow(m))
        /\ failed' = [failed EXCEPT ![m] = TRUE]
  /\ mpc' = [mpc EXCEPT ![m] = "result"]
  /\ UNCHANGED <<now, traces, results, raw, mid, outcome, receives, subject, mstamp>>

\* Faulty variant of WriteResult: the remembered error is never raised.
WriteResultIgnoresErrors(m) ==
  /\ mpc[m] = "result"
  /\ mpc' = [mpc EXCEPT ![m] = "store"]
  /\ results' = IF outcome[m] = "SUCCESS" /\ mid[m] \in traces
                THEN results \union {[identifier |-> mid[m], datetime |-> mstamp[m]]}
                ELSE results
  /\ UNCHANGED <<now, rows, traces, raw, mid, outcome, receives, subject, mstamp, failed>>

\* ... writes the result file of a traced success, which may raise, and only
\* then raises the remembered error.
WriteResult(m) ==
  /\ mpc[m] = "result"
  /\ LET wanted == outcome[m] = "SUCCESS" /\ mid[m] \in traces
         settled == [mpc EXCEPT ![m] = IF failed[m] THEN "visible" ELSE "store"]
     IN  \/ /\ ~wanted
            /\ mpc' = settled
            /\ UNCHANGED results
         \/ /\ wanted
            /\ mpc' = settled
            /\ results' = results \union {[identifier |-> mid[m], datetime |-> mstamp[m]]}
         \/ /\ wanted
            /\ "s3" \in Failures
            /\ mpc' = [mpc EXCEPT ![m] = "visible"]
            /\ UNCHANGED results
  /\ UNCHANGED <<now, rows, traces, raw, mid, outcome, receives, subject, mstamp, failed>>

\* CnmStoragePlugin; the handler returns and the message is deleted.
StoreReceive(m) ==
  /\ mpc[m] = "store"
  /\ \/ /\ StoreRaw(mid[m])
        /\ mpc' = [mpc EXCEPT ![m] = "deleted"]
     \/ /\ "storage" \in Failures
        /\ mpc' = [mpc EXCEPT ![m] = "visible"]
        /\ UNCHANGED raw
  /\ UNCHANGED <<now, rows, traces, results, mid, outcome, receives, subject, mstamp, failed>>

\* The Lambda times out or dies; the visibility timeout expires.
HandlerCrash(m) ==
  /\ "lambda" \in Failures
  /\ mpc[m] \in Handling
  /\ mpc' = [mpc EXCEPT ![m] = "visible"]
  /\ UNCHANGED <<storeVars, mid, outcome, receives, subject, mstamp, failed>>

\* A step of the queue or of the handler working on m, crashes aside.
HandlerStep(m) ==
  \/ Receive(m) \/ Redrive(m) \/ Lookup(m) \/ StampReceive(m)
  \/ InsertReceive(m) \/ WriteResult(m) \/ StoreReceive(m)

ReceiverNext == \E m \in Messages : HandlerStep(m) \/ HandlerCrash(m)
=============================================================================
