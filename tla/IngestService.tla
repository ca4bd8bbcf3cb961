---------------------------- MODULE IngestService ----------------------------
(***************************************************************************)
(* IngestService.ingest, ingest/service.py, together with the ledger and   *)
(* the raw event store it writes to.                                       *)
(*                                                                         *)
(* A request is one call of ingest.  The HTTP handlers are plain functions *)
(* that run on a thread pool, and the command line tool and other server   *)
(* processes open the same database and directory, so calls interleave at  *)
(* every database operation and system call.  A retry by a producer is     *)
(* another request with the same envelope.                                 *)
(***************************************************************************)
EXTENDS SQLiteLedger, FiniteSets

CONSTANTS
    Request,               \* calls of ingest
    Place,                 \* values of producer_service, occurred_at's date and event_name
    Dir,                   \* directories under raw/
    SafeDir,               \* SafeDir[place]: the directory _path_for gives it
    Payload,               \* payloads
    Envelope,              \* the envelopes producers send
    require_payload_hash,  \* IngestConfig
    require_event_hash,
    reject_hash_conflicts,
    PoolSize,              \* how many calls may be in progress at once
    Faults,                \* what may go wrong, as in FilesystemStorage
    Absent, Torn           \* as in FilesystemStorage

(* SHA-256 over canonical JSON: no two values have one digest.             *)
sha256_json(value) == <<"sha256", value>>

canonical_json_text(value) == <<"json", value>>

(* The envelope without its event hash.                                    *)
canonical_event_without_event_hash(e) ==
    [event_id |-> e.event_id, place |-> e.place, payload |-> e.payload,
     payload_sha256 |-> e.payload_sha256]

(* The object of an event: _safe_segment maps several places to one name.  *)
PathFor(e) == <<SafeDir[e.place], e.event_id>>

EnvelopeType == [event_id : EventId, place : Place, payload : Payload,
                 payload_sha256 : Digest, event_sha256 : Digest]

ASSUME IngestServiceAssumption ==
    /\ Envelope \subseteq EnvelopeType
    /\ \A e \in Envelope : canonical_json_text(e) \in RawText /\ PathFor(e) \in Uri
    /\ SafeDir \in [Place -> Dir]
    /\ {require_payload_hash, require_event_hash, reject_hash_conflicts} \subseteq BOOLEAN
    /\ PoolSize \in Nat \ {0}
    /\ {Absent, Torn} \cap RawText = {} /\ Absent # Torn
    /\ None \notin Uri \cup RawText \cup StoredError
    /\ NoRow \notin Row
    /\ Faults \subseteq {"storage", "unlink", "crash", "power", "ledger"}

VARIABLES
    env,      \* env[r]: the envelope of request r
    pc,       \* pc[r]: the next step of r
    snap,     \* snap[r]: the row r read last
    answer,   \* answer[r]: what r returned or raised, and the storage_uri it returned
    replayed, \* replayed[r]: when r came, its event had been acknowledged, or stored
    overlapped, \* the ids of which two calls have been in progress at once
    files, durable, temps, wpc   \* the raw event store

FS == INSTANCE FilesystemStorage WITH
        Writer   <- Request,
        Path     <- Uri,
        Raw      <- RawText,
        MaxCalls <- PoolSize,
        call     <- [r \in Request |-> [path |-> PathFor(env[r]),
                                        raw  |-> canonical_json_text(env[r])]]

fsvars     == <<files, durable, temps, wpc>>
ledgervars == <<rows, attempts>>
vars == <<env, pc, snap, answer, replayed, overlapped, ledgervars, fsvars>>

(* Labels of the steps that use the ledger, and of a call in progress.     *)
LedgerStep == {"lookup", "insert", "reread", "record_conflict", "record_duplicate",
               "load_stored", "commit_stored", "refresh", "record_stored",
               "record_failed", "load_failed", "commit_failed", "refresh_failed"}
InProgress == LedgerStep \cup {"write"}

Success == {"stored", "duplicate"}
AnswerStatus == Success \cup {"none", "hash_conflict", "conflict_error", "invalid_hash",
                              "storage_error", "server_error"}

TypeOK ==
    /\ LedgerTypeOK
    /\ FS!TypeOK
    /\ env \in [Request -> Envelope]
    /\ pc \in [Request -> {"idle", "done", "dead"} \cup InProgress]
    /\ snap \in [Request -> Row \cup {NoRow}]
    /\ answer \in [Request -> [status : AnswerStatus, storage_uri : Uri \cup {None}]]
    /\ replayed \in [Request -> {"no", "stored", "acknowledged"}]
    /\ overlapped \subseteq EventId

Init ==
    /\ LedgerInit
    /\ FS!StorageInit
    /\ env \in [Request -> Envelope]
    /\ pc = [r \in Request |-> "idle"]
    /\ snap = [r \in Request |-> NoRow]
    /\ answer = [r \in Request |-> [status |-> "none", storage_uri |-> None]]
    /\ replayed = [r \in Request |-> "no"]
    /\ overlapped = {}

-----------------------------------------------------------------------------

Id(r)  == env[r].event_id
Raw(r) == canonical_json_text(env[r])

Goto(r, label) == pc' = [pc EXCEPT ![r] = label]

Answer(r, status, uri) ==
    /\ answer' = [answer EXCEPT ![r] = [status |-> status, storage_uri |-> uri]]
    /\ Goto(r, "done")

ReadRow(r) == snap' = [snap EXCEPT ![r] = rows[Id(r)]]

(* _validate_hashes.                                                       *)
HashesValid(e) ==
    /\ require_payload_hash => e.payload_sha256 = sha256_json(e.payload)
    /\ require_event_hash =>
          e.event_sha256 = sha256_json(canonical_event_without_event_hash(e))

(* Variants as a plausible bug would write them; each shows that a         *)
(* property notices.                                                       *)

HandleExistingByEventId(existing, e) ==   \* no hash is compared
    IF existing.status = "stored" /\ existing.storage_uri # None
    THEN "record_duplicate"
    ELSE "write"

HandleExistingUnfinishedConflicts(existing, e) ==   \* a row not stored is not retried
    IF existing.event_sha256 = e.event_sha256 /\ existing.payload_sha256 = e.payload_sha256
       /\ existing.status = "stored" /\ existing.storage_uri # None
    THEN "record_duplicate"
    ELSE "record_conflict"

HandleExistingStoresAgain(existing, e) ==   \* no short cut for a duplicate
    IF existing.event_sha256 # e.event_sha256 \/ existing.payload_sha256 # e.payload_sha256
    THEN "record_conflict"
    ELSE "write"

StoreAndMarkEarly(outcome) ==   \* stored once the temporary file is written
    IF outcome \in {"replace", "returned"} THEN "load_stored"
    ELSE IF outcome \in {"raised", "conflict"} THEN "record_failed"
    ELSE "write"

StoreAndMarkUnmarked(outcome) ==   \* the attempt is recorded without mark_stored
    IF outcome = "returned" THEN "record_stored"
    ELSE IF outcome \in {"raised", "conflict"} THEN "record_failed"
    ELSE "write"

RereadUnchecked(r) ==   \* the loser of the insert goes on as the winner does
    /\ pc[r] = "reread"
    /\ ReadRow(r)
    /\ Goto(r, "write")
    /\ UNCHANGED <<env, answer, replayed, overlapped, ledgervars, fsvars>>

RecordDuplicateUnrecorded(r) ==   \* a duplicate is answered at once
    /\ pc[r] = "record_duplicate"
    /\ Answer(r, "duplicate", snap[r].storage_uri)
    /\ UNCHANGED <<env, snap, replayed, overlapped, ledgervars, fsvars>>

-----------------------------------------------------------------------------

(* _handle_existing, up to its first ledger operation: where it goes on.   *)
HandleExisting(existing, e) ==
    IF existing.event_sha256 # e.event_sha256 \/ existing.payload_sha256 # e.payload_sha256
    THEN "record_conflict"
    ELSE IF existing.status = "stored" /\ existing.storage_uri # None
         THEN "record_duplicate"
         ELSE "write"

(* The very event of r has been acknowledged; or it has not, but the       *)
(* ledger has it as stored: the answer was lost to an error or is to come. *)
Acknowledged(r) == \E q \in Request : answer[q].status \in Success /\ env[q] = env[r]

StoredBefore(r) ==
    /\ rows[Id(r)] # NoRow
    /\ rows[Id(r)].status = "stored" /\ rows[Id(r)].raw_envelope_json = Raw(r)

(* A call comes in: the hashes are checked before anything is written.     *)
Submit(r) ==
    /\ pc[r] = "idle"
    /\ Cardinality({q \in Request : pc[q] \in InProgress}) < PoolSize
    /\ replayed' = [replayed EXCEPT ![r] =
           IF Acknowledged(r) THEN "acknowledged" ELSE IF StoredBefore(r) THEN "stored" ELSE "no"]
    /\ overlapped' = overlapped \cup
           {Id(q) : q \in {q \in Request : pc[q] \in InProgress /\ Id(q) = Id(r)}}
    /\ IF HashesValid(env[r])
       THEN Goto(r, "lookup") /\ UNCHANGED answer
       ELSE Answer(r, "invalid_hash", None)
    /\ UNCHANGED <<env, snap, ledgervars, fsvars>>

(* ledger.get_event.                                                       *)
Lookup(r) ==
    /\ pc[r] = "lookup"
    /\ ReadRow(r)
    /\ Goto(r, IF rows[Id(r)] = NoRow THEN "insert" ELSE HandleExisting(rows[Id(r)], env[r]))
    /\ UNCHANGED <<env, answer, replayed, overlapped, ledgervars, fsvars>>

(* ledger.insert_received: INSERT and commit, or the IntegrityError ...    *)
Insert(r) ==
    /\ pc[r] = "insert"
    /\ InsertReceived(Id(r),
           ReceivedRow(env[r].event_sha256, env[r].payload_sha256, Raw(r)))
    /\ Goto(r, "reread")
    /\ UNCHANGED <<env, snap, answer, replayed, overlapped, attempts, fsvars>>

(* ... and the SELECT after either.  Only event_sha256 is compared here.   *)
Reread(r) ==
    /\ pc[r] = "reread"
    /\ ReadRow(r)
    /\ Goto(r, IF rows[Id(r)].event_sha256 # env[r].event_sha256
               THEN HandleExisting(rows[Id(r)], env[r])
               ELSE "write")
    /\ UNCHANGED <<env, answer, replayed, overlapped, ledgervars, fsvars>>

(* The rest of _handle_existing for a conflict and for a duplicate.        *)
RecordConflict(r) ==
    /\ pc[r] = "record_conflict"
    /\ RecordAttempt(Id(r), "hash_conflict")
    /\ IF reject_hash_conflicts
       THEN Answer(r, "conflict_error", None)
       ELSE Answer(r, "hash_conflict", snap[r].storage_uri)
    /\ UNCHANGED <<env, snap, replayed, overlapped, rows, fsvars>>

RecordDuplicate(r) ==
    /\ pc[r] = "record_duplicate"
    /\ RecordAttempt(Id(r), "duplicate")
    /\ Answer(r, "duplicate", snap[r].storage_uri)
    /\ UNCHANGED <<env, snap, replayed, overlapped, rows, fsvars>>

(* Where _store_and_mark goes on when write_raw_event has come this far.   *)
StoreAndMark(outcome) ==
    IF outcome = "returned" THEN "load_stored"
    ELSE IF outcome \in {"raised", "conflict"} THEN "record_failed"
    ELSE "write"

(* _store_and_mark: the call of write_raw_event, one system call at a time,*)
(* until it returns a path or raises an exception of either kind.          *)
WriteRawEvent(r) ==
    /\ pc[r] = "write"
    /\ FS!Begin(r) \/ FS!Step(r)
    /\ Goto(r, StoreAndMark(wpc'[r]))
    /\ UNCHANGED <<env, snap, answer, replayed, overlapped, ledgervars>>

(* ledger.mark_stored: SELECT, then UPDATE and commit, then SELECT again.  *)
LoadForStored(r) ==
    /\ pc[r] = "load_stored"
    /\ ReadRow(r)
    /\ Goto(r, "commit_stored")
    /\ UNCHANGED <<env, answer, replayed, overlapped, ledgervars, fsvars>>

CommitStored(r) ==
    /\ pc[r] = "commit_stored"
    /\ CommitUpdate(Id(r), snap[r], AsStored(snap[r], PathFor(env[r])))
    /\ Goto(r, "refresh")
    /\ UNCHANGED <<env, snap, answer, replayed, overlapped, attempts, fsvars>>

Refresh(r) ==
    /\ pc[r] = "refresh"
    /\ ReadRow(r)
    /\ Goto(r, "record_stored")
    /\ UNCHANGED <<env, answer, replayed, overlapped, ledgervars, fsvars>>

RecordStored(r) ==
    /\ pc[r] = "record_stored"
    /\ RecordAttempt(Id(r), "stored")
    /\ Answer(r, "stored", snap[r].storage_uri)
    /\ UNCHANGED <<env, snap, replayed, overlapped, rows, fsvars>>

(* The except branch: record_attempt, then mark_failed in the same way as  *)
(* mark_stored (what its last SELECT reads is not used), then StorageError.*)
RecordFailed(r) ==
    /\ pc[r] = "record_failed"
    /\ RecordAttempt(Id(r), "failed")
    /\ Goto(r, "load_failed")
    /\ UNCHANGED <<env, snap, answer, replayed, overlapped, rows, fsvars>>

LoadForFailed(r) ==
    /\ pc[r] = "load_failed"
    /\ ReadRow(r)
    /\ Goto(r, "commit_failed")
    /\ UNCHANGED <<env, answer, replayed, overlapped, ledgervars, fsvars>>

CommitFailed(r) ==
    /\ pc[r] = "commit_failed"
    /\ CommitUpdate(Id(r), snap[r],
           AsFailed(snap[r], IF wpc[r] = "conflict" THEN "conflict" ELSE "io"))
    /\ Goto(r, "refresh_failed")
    /\ UNCHANGED <<env, snap, answer, replayed, overlapped, attempts, fsvars>>

RefreshFailed(r) ==
    /\ pc[r] = "refresh_failed"
    /\ Answer(r, "storage_error", None)
    /\ UNCHANGED <<env, snap, replayed, overlapped, ledgervars, fsvars>>

(* A database error, such as a lock that was not released in time: nothing *)
(* catches it, and nothing is committed.                                   *)
LedgerFault(r) ==
    /\ "ledger" \in Faults
    /\ pc[r] \in LedgerStep
    /\ Answer(r, "server_error", None)
    /\ UNCHANGED <<env, snap, replayed, overlapped, ledgervars, fsvars>>

(* The process of a call dies.  Every file operation needs pc "write".     *)
Crash(r) ==
    /\ "crash" \in Faults
    /\ pc[r] \in InProgress
    /\ Goto(r, "dead")
    /\ UNCHANGED <<env, snap, answer, replayed, overlapped, ledgervars, fsvars>>

(* The machine loses power.  SQLite syncs what it commits.                 *)
PowerLoss ==
    /\ FS!PowerLoss
    /\ pc' = [r \in Request |-> IF pc[r] \in InProgress THEN "dead" ELSE pc[r]]
    /\ UNCHANGED <<env, snap, answer, replayed, overlapped, ledgervars>>

Handle(r) ==
    \/ Submit(r) \/ Lookup(r) \/ Insert(r) \/ Reread(r)
    \/ RecordConflict(r) \/ RecordDuplicate(r)
    \/ WriteRawEvent(r)
    \/ LoadForStored(r) \/ CommitStored(r) \/ Refresh(r) \/ RecordStored(r)
    \/ RecordFailed(r) \/ LoadForFailed(r) \/ CommitFailed(r) \/ RefreshFailed(r)
    \/ LedgerFault(r)
    \/ Crash(r)

Next == (\E r \in Request : Handle(r)) \/ PowerLoss

Spec == Init /\ [][Next]_vars

-----------------------------------------------------------------------------
(* Properties.                                                             *)

Acked(r) == answer[r].status \in Success

(* Acknowledge only after durability: a request that is told "stored" or   *)
(* "duplicate" is told a URI whose object holds exactly its own canonical  *)
(* text, then and ever after, whatever the other requests do.              *)
AckedIsArchived ==
    \A r \in Request : Acked(r) =>
        answer[r].storage_uri # None /\ files[answer[r].storage_uri] = Raw(r)

(* No two different events are both accepted under one event_id.           *)
OneContentPerId ==
    \A q, r \in Request : Acked(q) /\ Acked(r) /\ Id(q) = Id(r) => env[q] = env[r]

(* A request is told of a conflict only if a different envelope with its   *)
(* event_id was sent by someone: losing a race against its own retry, or   *)
(* meeting what a crashed or failed attempt left, is never a conflict.  An *)
(* object that the answer names is that other event's.                     *)
ConflictIsGenuine ==
    \A r \in Request : answer[r].status \in {"conflict_error", "hash_conflict"} =>
        /\ \E q \in Request : /\ Id(q) = Id(r) /\ env[q] # env[r]
                              /\ pc[q] # "idle" /\ answer[q].status # "invalid_hash"
        /\ answer[r].storage_uri # None =>
                files[answer[r].storage_uri] \notin {Absent, Raw(r)}

(* A ledger row that names an object agrees with it: the file at           *)
(* storage_uri holds the row's raw_envelope_json.                          *)
LedgerAgreesWithArchive ==
    \A id \in EventId : rows[id] # NoRow =>
        /\ rows[id].storage_uri # None => files[rows[id].storage_uri] = rows[id].raw_envelope_json
        /\ rows[id].status = "stored" => rows[id].storage_uri # None

(* Every object in the archive is accounted for: there is a ledger row of  *)
(* its event with its very text, even if the process died right after the  *)
(* object appeared.                                                        *)
NoUnledgeredObject ==
    \A u \in Uri : files[u] # Absent =>
        \E id \in EventId : rows[id] # NoRow /\ rows[id].raw_envelope_json = files[u]

(* A retry is never stopped by what an earlier attempt left behind: the    *)
(* adapter's StorageConflictError does not occur behind the ledger.        *)
NoStorageConflict == \A r \in Request : wpc[r] # "conflict"

(* A reader of an object never finds half of it, even after power loss.    *)
ObjectsAreWhole == FS!ObjectsAreWhole

ObjectsKept == \A u \in Uri : files[u] # Absent => files'[u] = files[u]

(* An archived object never changes and never goes away.                   *)
ArchiveImmutable == [][ObjectsKept]_vars

RowIdentityKept ==
    \A id \in EventId : rows[id] # NoRow =>
        /\ rows'[id] # NoRow
        /\ rows'[id].event_sha256 = rows[id].event_sha256
        /\ rows'[id].payload_sha256 = rows[id].payload_sha256
        /\ rows'[id].raw_envelope_json = rows[id].raw_envelope_json

(* A row, once inserted, keeps its identity: the hashes and the text of    *)
(* the event it was inserted for.                                          *)
RowIdentityFixed == [][RowIdentityKept]_vars

(* The audit trail can be relied on: no request is answered "stored",      *)
(* "duplicate" or with a conflict before the attempt is on record, and     *)
(* once an attempt "stored" or "duplicate" is on record the row names the  *)
(* object, for good.                                                       *)
AnswersAreAudited ==
    \A id \in EventId :
        LET Told(S) == Cardinality({r \in Request : Id(r) = id /\ answer[r].status \in S})
        IN  /\ Told({"stored"}) <= attempts[id]["stored"]
            /\ Told({"duplicate"}) <= attempts[id]["duplicate"]
            /\ Told({"hash_conflict", "conflict_error"}) <= attempts[id]["hash_conflict"]
            /\ Told({"storage_error"}) <= attempts[id]["failed"]

AttemptsHaveObjects ==
    \A id \in EventId : attempts[id]["stored"] + attempts[id]["duplicate"] > 0 =>
        rows[id].storage_uri # None

AuditTrailIsTrue == AnswersAreAudited /\ AttemptsHaveObjects

AnsweredAsReplay(r) == answer[r].status \in {"duplicate", "server_error"}

(* A producer that sends again what was acknowledged to it is answered     *)
(* "duplicate", or the ledger fails; nothing is stored a second time.      *)
ReplayIsDuplicate ==
    \A r \in Request : replayed[r] = "acknowledged" /\ pc[r] = "done" => AnsweredAsReplay(r)

(* What spoils that is a failed write of the same event and nothing else:  *)
(* as long as no attempt for its id is on record as failed, a resubmission *)
(* of what was acknowledged, or stored by a call whose answer was lost, is *)
(* a duplicate in every interleaving.                                      *)
OnlyFailureSpoilsReplay ==
    \A r \in Request :
        replayed[r] # "no" /\ pc[r] = "done" /\ attempts[Id(r)]["failed"] = 0 => AnsweredAsReplay(r)

(* And only a failed write that overlapped another call: while the calls   *)
(* of an id have come one after the other a resubmission is a duplicate,   *)
(* whatever failed, crashed or lost power before, also where event hashes  *)
(* are not verified.                                                       *)
OnlyOverlapSpoilsReplay ==
    \A r \in Request :
        replayed[r] # "no" /\ pc[r] = "done" /\ Id(r) \notin overlapped => AnsweredAsReplay(r)

StoredRowKept ==
    \A id \in EventId : rows[id] # NoRow =>
        /\ rows[id].storage_uri # None => rows'[id].storage_uri # None
        /\ rows[id].status = "stored" =>
              \/ rows'[id].status = "stored"
              \/ attempts[id]["failed"] > 0 /\ id \in overlapped

(* The ledger takes back that an event is stored only for a failed write   *)
(* that is on record and overlapped another call of the id; the URI of the *)
(* object stays even then.                                                 *)
StoredIsTakenBackForFailure == [][StoredRowKept]_vars

(* A row never shows a failure that no attempt is on record for, and a row *)
(* that is stored and yet carries an error is the trace of calls that      *)
(* overlapped: one loaded it before the other had failed.                  *)
ErrorsAreOnRecord ==
    \A id \in EventId : rows[id] # NoRow =>
        /\ rows[id].status = "failed" \/ rows[id].last_error # None =>
              attempts[id]["failed"] > 0
        /\ rows[id].status = "stored" /\ rows[id].last_error # None => id \in overlapped

(* No two events that declare different event hashes are both accepted     *)
(* under one event_id, also where the hashes are not verified: this is all *)
(* the comparison after a lost race sees to.                               *)
OneEventHashPerId ==
    \A q, r \in Request :
        Acked(q) /\ Acked(r) /\ Id(q) = Id(r) => env[q].event_sha256 = env[r].event_sha256
=============================================================================
