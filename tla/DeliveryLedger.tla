--------------------------- MODULE DeliveryLedger ---------------------------
(***************************************************************************)
(* What the delivery pipeline promises about one granule file, without its  *)
(* queues, Lambdas, clock or retries: an identifier is issued, its message  *)
(* goes to the DAAC, the DAAC answers, and the ledger of recorded statuses  *)
(* only grows.  A success to submit is recorded only for a message that was *)
(* sent, and an answer only if the DAAC gave it and a submission of the     *)
(* identifier is already on record.                                         *)
(***************************************************************************)
CONSTANTS Ids, SubmitStatuses, ReceiveStatuses

VARIABLES
  issued,   \* identifiers handed to a caller
  sent,     \* identifiers whose message the DAAC's topic has
  answers,  \* <<identifier, status>> the DAAC has answered
  ledger    \* <<identifier, status>> on record

vars == <<issued, sent, answers, ledger>>

Init ==
  /\ issued = {}
  /\ sent = {}
  /\ answers = {}
  /\ ledger = {}

\* A request is accepted under identifiers nobody else has.
Issue ==
  /\ \E new \in SUBSET (Ids \ issued) : issued' = issued \union new
  /\ UNCHANGED <<sent, answers, ledger>>

Send(i) ==
  /\ i \in issued
  /\ sent' = sent \union {i}
  /\ UNCHANGED <<issued, answers, ledger>>

Answer(i, s) ==
  /\ i \in sent
  /\ answers' = answers \union {<<i, s>>}
  /\ UNCHANGED <<issued, sent, ledger>>

Submitted(i) == \E s \in SubmitStatuses : <<i, s>> \in ledger

RecordSubmit(i, s) ==
  /\ i \in issued
  /\ s = "cnm-submit-success" => i \in sent
  /\ ledger' = ledger \union {<<i, s>>}
  /\ UNCHANGED <<issued, sent, answers>>

RecordAnswer(i, s) ==
  /\ <<i, s>> \in answers
  /\ Submitted(i)
  /\ ledger' = ledger \union {<<i, s>>}
  /\ UNCHANGED <<issued, sent, answers>>

Next ==
  \/ Issue
  \/ \E i \in Ids :
       \/ Send(i)
       \/ \E s \in ReceiveStatuses : Answer(i, s) \/ RecordAnswer(i, s)
       \/ \E s \in SubmitStatuses : RecordSubmit(i, s)

Spec == Init /\ [][Next]_vars
=============================================================================
