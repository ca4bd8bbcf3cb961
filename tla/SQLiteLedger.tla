---------------------------- MODULE SQLiteLedger ----------------------------
(***************************************************************************)
(* The operational ledger, ledger/sqlite.py: one row per event_id, held    *)
(* apart by a UNIQUE constraint, and an append-only table of attempts.     *)
(*                                                                         *)
(* Every operator below is one database operation of the adapter, atomic   *)
(* because SQLite runs one statement or one commit at a time.  A method of *)
(* the adapter that runs two of them is two steps of the module that calls *)
(* it: the driver opens a transaction at the first INSERT or UPDATE only,  *)
(* so a SELECT does not keep other writers out until the UPDATE after it.  *)
(* Times and the columns copied from the envelope for reporting are left   *)
(* out: nothing reads them back.                                           *)
(***************************************************************************)
EXTENDS Integers

CONSTANTS
    EventId,  \* normalised event ids
    Digest,   \* values of the two hash columns
    RawText,  \* values of raw_envelope_json
    Uri,      \* storage URIs
    NoRow,    \* no row with that event_id
    None      \* NULL

LedgerStatus  == {"received", "stored", "failed"}
StoredError   == {"io", "conflict"}   \* the messages mark_failed is given
AttemptStatus == {"stored", "duplicate", "hash_conflict", "failed"}

Row == [event_sha256      : Digest,
        payload_sha256    : Digest,
        raw_envelope_json : RawText,
        status            : LedgerStatus,
        storage_uri       : Uri \cup {None},
        last_error        : StoredError \cup {None}]

VARIABLES
    rows,     \* rows[id]: the row of table ingest_event with that event_id
    attempts  \* attempts[id][s]: how many rows of ingest_attempt say s of id

LedgerTypeOK ==
    /\ rows \in [EventId -> Row \cup {NoRow}]
    /\ attempts \in [EventId -> [AttemptStatus -> Nat]]

LedgerInit ==
    /\ rows = [id \in EventId |-> NoRow]
    /\ attempts = [id \in EventId |-> [s \in AttemptStatus |-> 0]]

-----------------------------------------------------------------------------

ReceivedRow(event_sha256, payload_sha256, raw) ==
    [event_sha256      |-> event_sha256,
     payload_sha256    |-> payload_sha256,
     raw_envelope_json |-> raw,
     status            |-> "received",
     storage_uri       |-> None,
     last_error        |-> None]

(* Variants as a plausible bug would write them; each shows that a         *)
(* property notices.                                                       *)

InsertReceivedUpsert(id, row) ==   \* INSERT OR REPLACE
    rows' = [rows EXCEPT ![id] = row]

AsStoredWithoutStatus(row, uri) ==   \* the status is not set
    [row EXCEPT !.storage_uri = uri, !.last_error = None]

AsStoredKeepingError(row, uri) ==   \* the error of an earlier attempt stays
    [row EXCEPT !.status = "stored", !.storage_uri = uri]

AsFailedAsConflict(row, error) ==   \* the status of mark_hash_conflict
    [row EXCEPT !.status = "hash_conflict", !.last_error = error]

FlushWholeRow(current, loaded, new) == new   \* the UPDATE names every column

-----------------------------------------------------------------------------

(* insert_received up to its commit: the UNIQUE constraint turns the       *)
(* insert of a second row away and the adapter rolls back.                 *)
InsertReceived(id, row) ==
    rows' = IF rows[id] = NoRow THEN [rows EXCEPT ![id] = row] ELSE rows

(* The row object after the assignments of mark_stored and mark_failed.    *)
AsStored(row, uri) ==
    [row EXCEPT !.status = "stored", !.storage_uri = uri, !.last_error = None]
AsFailed(row, error) ==
    [row EXCEPT !.status = "failed", !.last_error = error]

(* The session's flush: the UPDATE names only the columns whose value      *)
(* differs from the one that was loaded; the others keep what the database *)
(* holds by now.                                                           *)
Flush(current, loaded, new) ==
    [c \in DOMAIN current |-> IF new[c] = loaded[c] THEN current[c] ELSE new[c]]

CommitUpdate(id, loaded, new) ==
    rows' = [rows EXCEPT ![id] = Flush(rows[id], loaded, new)]

(* record_attempt.                                                         *)
RecordAttempt(id, status) ==
    attempts' = [attempts EXCEPT ![id][status] = @ + 1]
=============================================================================
