--------------------------- MODULE CataliaStores ---------------------------
(***************************************************************************)
(* The durable stores that the archiver Lambda and the response Lambda      *)
(* share: the relational status table (sql_mws/catalia_status_db.py), the   *)
(* DynamoDB traces table (ddb_mws/catalia_archiving_traces.py), the raw CNM *)
(* bucket (raw_cnm_storage_s3.py) and the result files written next to the  *)
(* submitted STAC item (status_update_svc.py).  Both Lambdas stamp rows     *)
(* with the wall clock, so the clock is part of the shared state.           *)
(***************************************************************************)
EXTENDS Integers, FiniteSets

CONSTANTS
  Ids,           \* sending identifiers: the values uuid4() may return
  Items,         \* STAC items; one value stands for (collection, granule id)
  Targets,       \* DAAC collections; one archive agreement per value
  SecondLength,  \* clock ticks (milliseconds) per second
  MaxTime,       \* bound on the clock
  Failures       \* which services may fail in this configuration

Services == {"staging", "traces", "sns", "sns-reply", "db", "sfa", "s3", "storage",
             "lambda", "schema", "agreement"}

ASSUME StoresAssumption ==
  /\ IsFiniteSet(Targets)
  /\ SecondLength \in Nat \ {0}
  /\ MaxTime \in Nat
  /\ Failures \subseteq Services

VARIABLES
  now,      \* UTC clock in milliseconds
  rows,     \* the status table
  traces,   \* identifiers that have an entry in the traces table
  results,  \* result files written beside the submitted STAC item
  raw       \* objects in the raw CNM bucket, by (identifier, second)

storeVars == <<now, rows, traces, results, raw>>

SubmitStatuses  == {"cnm-submit-success", "cnm-submit-failed"}
ReceiveStatuses == {"cnm-receive-success", "cnm-receive-failed"}
Statuses        == SubmitStatuses \union ReceiveStatuses

\* What a row says the identifier stands for: collection and name, then
\* target_collection.
Subject == Items \X Targets

Row == [identifier: Ids, datetime: Nat, subject: Subject, status: Statuses]

StoresTypeOK ==
  /\ now \in 0..MaxTime
  /\ rows \subseteq Row
  /\ traces \subseteq Ids
  /\ results \subseteq [identifier: Ids, datetime: Nat]
  /\ raw \subseteq Ids \X Nat

StoresInit ==
  /\ now = 0
  /\ rows = {}
  /\ traces = {}
  /\ results = {}
  /\ raw = {}

(***************************************************************************)
(* The status table.                                                        *)
(***************************************************************************)

\* Faulty variant of Get: the filter on identifier is lost.
GetUnfiltered(i) == rows

\* CataliaStatusDb.get(i).
Get(i) == {r \in rows : r.identifier = i}

\* CataliaStatusDb.get(i)[0]: search orders by datetime ascending.
Earliest(i) ==
  CHOOSE r \in Get(i) : \A q \in Get(i) : r.datetime <= q.datetime

\* The UNIQUE (identifier, datetime) constraint would reject this row.
Collides(row) ==
  \E r \in rows : r.identifier = row.identifier /\ r.datetime = row.datetime

\* Faulty variant of AddRow: an upsert instead of an insert.
AddRowUpsert(row) ==
  rows' = {r \in rows : r.identifier # row.identifier \/ r.datetime # row.datetime}
            \union {row}

\* CataliaStatusDb.add, when the insert commits and when it raises.
AddRow(row) ==
  /\ ~Collides(row)
  /\ rows' = rows \union {row}

AddRowRaises(row) ==
  /\ Collides(row) \/ "db" \in Failures
  /\ UNCHANGED rows

(***************************************************************************)
(* The raw CNM bucket: RawCnmStorageS3.store_data.  The key ends in a       *)
(* timestamp with one-second resolution, so a second message of the same    *)
(* identifier within the second replaces the first.                         *)
(***************************************************************************)
StoreRaw(i) == raw' = raw \union {<<i, now \div SecondLength>>}

\* Time passes independently of both Lambdas.
Tick ==
  /\ now < MaxTime
  /\ now' = now + 1
  /\ UNCHANGED <<rows, traces, results, raw>>
=============================================================================
