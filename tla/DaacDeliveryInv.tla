-------------------------- MODULE DaacDeliveryInv --------------------------
(***************************************************************************)
(* The inductive strengthening of the safety properties of DaacDelivery:    *)
(* what is true of each archiver and of each handler between two of its     *)
(* steps, which the properties themselves do not say.                       *)
(***************************************************************************)
EXTENDS DaacDelivery

\* Places in the handler after the lookup succeeded.
Identified == {"stamp", "insert", "result", "store"}

TypeInv == TypeOK /\ PosNamesAnIdentifier

\* s is what identifier i was generated for.
Stands(i, s) ==
  \E r \in Requests : \E k \in DOMAIN sending[r] :
    sending[r][k].id = i /\ s = <<ItemOf[r], sending[r][k].target>>

\* A handler past its lookup holds the subject of its identifier.
HandlersKnowTheSubject ==
  \A m \in Messages : mpc[m] \in Identified => Stands(mid[m], subject[m])

\* No row and no pending stamp lies in the future.
NothingFromTheFuture ==
  /\ \A row \in rows : row.datetime <= now
  /\ \A r \in Requests : stamp[r] <= now
  /\ \A m \in Messages : mstamp[m] <= now

\* A handler past its lookup has a submission behind it, older than its stamp.
HandlersFollowASubmission ==
  \A m \in Messages : mpc[m] \in Identified =>
    \E q \in Get(mid[m]) :
      /\ q.status \in SubmitStatuses
      /\ mpc[m] # "stamp" => q.datetime <= mstamp[m]

\* UNIQUE (identifier, datetime).
OneRowPerDatetime ==
  \A q, r \in rows : q.identifier = r.identifier /\ q.datetime = r.datetime => q = r

\* A submission about to be inserted is the latest of its identifier.
InsertsTheLatest ==
  \A r \in Requests : pc[r] = "insert" =>
    \A q \in Get(Current(r)) : q.status \in SubmitStatuses => q.datetime <= stamp[r]

OrderInv ==
  /\ NothingFromTheFuture
  /\ HandlersFollowASubmission
  /\ OneRowPerDatetime
  /\ AnswerFollowsSubmission

OwnerInv ==
  /\ IdsIssuedOnce
  /\ HandlersKnowTheSubject
  /\ RowsNameTheirOwner

\* Progress of the send loop: what is behind pos[r] is on record, a message is
\* published only after the ones before it were recorded.
LoopInv ==
  \A r \in Requests :
    /\ pc[r] \in InLoop => \A j \in 1..(pos[r] - 1) : Submitted(sending[r][j].id)
    /\ pc[r] = "store" => Submitted(sending[r][pos[r]].id)
    /\ pc[r] \in {"stamp", "insert"} /\ status[r] = "cnm-submit-success"
         => published[sending[r][pos[r]].id] > 0
    /\ pc[r] \in {"new", "staging"} => pos[r] = 1

\* A traced request traces an identifier before publishing it.
TraceInv ==
  \A r \in Traced :
    /\ pc[r] = "publish" => sending[r][pos[r]].id \in traces
    /\ \A k \in DOMAIN sending[r] :
         published[sending[r][k].id] > 0 => sending[r][k].id \in traces

\* The DAAC only answers what it was sent.
AnswersWereAsked ==
  \A m \in Messages : mpc[m] # "unsent" => published[mid[m]] > 0

\* What a handler has done so far.
Recorded(m) == \E row \in Get(mid[m]) : row.status = ReceiveStatus(m)

HandlerInv ==
  \A m \in Messages :
    /\ mpc[m] = "result" /\ ~failed[m] => Recorded(m)
    /\ mpc[m] = "store" =>
         /\ Recorded(m)
         /\ outcome[m] = "SUCCESS" /\ mid[m] \in traces =>
              \E f \in results : f.identifier = mid[m]

\* The inductive invariant of the delivery.
DeliveryInv ==
  /\ TypeInv
  /\ OwnerInv
  /\ OrderInv
  /\ InsertsTheLatest
  /\ LoopInv
  /\ TraceInv
  /\ AnswersWereAsked
  /\ HandlerInv
  /\ StatusesAreTrue
  /\ SendLoopLeavesNoGap
  /\ DeletedMeansRecorded
=============================================================================
