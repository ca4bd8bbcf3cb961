------------------------- MODULE IngestServiceProofs -------------------------
(***************************************************************************)
(* What holds of IngestService in every configuration and whatever fails,  *)
(* power loss included, for every number of requests and every set of      *)
(* envelopes: the types, the identity of the rows, the audit trail, what   *)
(* an acknowledgement says of the event hash, and what the ledger keeps of *)
(* the ids whose calls have not overlapped.                                *)
(***************************************************************************)
EXTENDS IngestService, FiniteSetTheorems, TLAPS

(* What the types need to be inductive: past the insert the row is there,  *)
(* and a step that uses the row it read last has read one.                 *)
PastInsert == InProgress \ {"lookup", "insert"}

UsesSnap == {"record_conflict", "record_duplicate", "commit_stored", "refresh",
             "record_stored", "commit_failed"}

RowPresent == \A r \in Request : pc[r] \in PastInsert => rows[Id(r)] # NoRow

SnapPresent == \A r \in Request : pc[r] \in UsesSnap => snap[r] # NoRow

TypeInv == TypeOK /\ RowPresent /\ SnapPresent

-----------------------------------------------------------------------------
(* Lemmas about the operators of the ledger.                               *)

(* A flush writes back a whole row whatever was loaded before.             *)
LEMMA FlushType ==
    ASSUME NEW current \in Row, NEW loaded \in Row, NEW new \in Row
    PROVE  Flush(current, loaded, new) \in Row
  BY DEF Flush, Row

(* mark_stored and mark_failed assign values the columns may have.         *)
LEMMA MarkedType ==
    ASSUME NEW row \in Row, NEW uri \in Uri, NEW error \in StoredError
    PROVE  AsStored(row, uri) \in Row /\ AsFailed(row, error) \in Row
  BY DEF AsStored, AsFailed, Row, LedgerStatus

(* An envelope has a path and a text of the right kinds.                   *)
LEMMA EnvelopeType1 ==
    ASSUME NEW e \in Envelope
    PROVE  /\ e \in EnvelopeType
           /\ e.event_id \in EventId
           /\ e.payload_sha256 \in Digest /\ e.event_sha256 \in Digest
           /\ canonical_json_text(e) \in RawText
           /\ PathFor(e) \in Uri
  BY IngestServiceAssumption DEF EnvelopeType

(* A row as insert_received builds it is a row.                            *)
LEMMA ReceivedRowType ==
    ASSUME NEW e \in Envelope
    PROVE  ReceivedRow(e.event_sha256, e.payload_sha256, canonical_json_text(e)) \in Row
  BY EnvelopeType1 DEF ReceivedRow, Row, LedgerStatus

-----------------------------------------------------------------------------

LEMMA TypeInit == Init => TypeInv
  <1> SUFFICES ASSUME Init PROVE TypeInv
    OBVIOUS
  <1> USE DEF Init, LedgerInit, FS!StorageInit
  <1>1. LedgerTypeOK
    BY DEF LedgerTypeOK
  <1>2. FS!TypeOK
    BY EnvelopeType1 DEF FS!TypeOK, FS!Call, FS!Content, FS!InCall, FS!Ended
  <1>3. RowPresent /\ SnapPresent
    BY DEF RowPresent, SnapPresent, PastInsert, UsesSnap, InProgress, LedgerStep
  <1> QED
    BY <1>1, <1>2, <1>3 DEF TypeInv, TypeOK, AnswerStatus

(* One step of write_raw_event keeps the types of the raw event store.     *)
LEMMA StorageStepType ==
    ASSUME TypeOK, NEW r \in Request, FS!Begin(r) \/ FS!Step(r)
    PROVE  /\ files' \in [Uri -> FS!Content]
           /\ durable' \in [Uri -> FS!Content]
           /\ temps' \in [Request -> FS!Content]
           /\ wpc' \in [Request -> {"idle"} \cup FS!InCall \cup FS!Ended]
  <1> DEFINE call == [q \in Request |-> [path |-> PathFor(env[q]),
                                        raw  |-> canonical_json_text(env[q])]]
  <1>1. call[r].path \in Uri /\ call[r].raw \in RawText
    BY EnvelopeType1 DEF TypeOK
  <1> USE <1>1 DEF TypeOK, FS!TypeOK, FS!Content, FS!InCall, FS!Ended, FS!Goto
  <1>2. CASE FS!Begin(r)        BY <1>2 DEF FS!Begin
  <1>3. CASE FS!CheckExists(r)  BY <1>3 DEF FS!CheckExists
  <1>4. CASE FS!ReadExisting(r) BY <1>4 DEF FS!ReadExisting
  <1>5. CASE FS!MakeTemp(r)     BY <1>5 DEF FS!MakeTemp
  <1>6. CASE FS!WriteTemp(r)    BY <1>6 DEF FS!WriteTemp
  <1>7. CASE FS!Replace(r) \/ FS!FailAfterReplace(r)
    BY <1>7 DEF FS!Replace, FS!FailAfterReplace, FS!Rename
  <1>8. CASE FS!Unlink(r)       BY <1>8 DEF FS!Unlink
  <1>9. CASE FS!FailEarly(r) \/ FS!FailLate(r) \/ FS!FailUnlink(r)
    BY <1>9 DEF FS!FailEarly, FS!FailLate, FS!FailUnlink
  <1> QED
    BY <1>2, <1>3, <1>4, <1>5, <1>6, <1>7, <1>8, <1>9 DEF FS!Step

(* What a call that comes in leaves for the record: whether its event was  *)
(* acknowledged or stored, and whether it overlaps another call of its id. *)
Overlaps(r) == \E q \in Request : pc[q] \in InProgress /\ Id(q) = Id(r)

Replays(r) ==
    IF Acknowledged(r) THEN "acknowledged" ELSE IF StoredBefore(r) THEN "stored" ELSE "no"

LEMMA SubmitGhosts ==
    ASSUME TypeOK, NEW r \in Request, Submit(r)
    PROVE  /\ replayed' \in [Request -> {"no", "stored", "acknowledged"}]
           /\ replayed'[r] = Replays(r)
           /\ \A q \in Request \ {r} : replayed'[q] = replayed[q]
           /\ overlapped' \subseteq EventId /\ overlapped \subseteq overlapped'
           /\ Overlaps(r) => Id(r) \in overlapped'
  <1>1. replayed' = [replayed EXCEPT ![r] = Replays(r)]
    BY DEF Submit, Replays
  <1>2. Replays(r) \in {"no", "stored", "acknowledged"}
    BY DEF Replays
  <1>3. overlapped' = overlapped \cup
            {Id(q) : q \in {q \in Request : pc[q] \in InProgress /\ Id(q) = Id(r)}}
    BY DEF Submit
  <1>4. \A q \in Request : Id(q) \in EventId
    BY EnvelopeType1 DEF TypeOK, Id
  <1> QED
    BY <1>1, <1>2, <1>3, <1>4 DEF TypeOK, Overlaps

(* Every step keeps the types.                                             *)
LEMMA TypeStep == TypeInv /\ [Next]_vars => TypeInv'
  <1> SUFFICES ASSUME TypeInv, [Next]_vars PROVE TypeInv'
    OBVIOUS
  <1> USE IngestServiceAssumption
      DEF TypeInv, TypeOK, LedgerTypeOK, FS!TypeOK, FS!Call, RowPresent, SnapPresent,
          PastInsert, UsesSnap, InProgress, LedgerStep, AnswerStatus, Success,
          Goto, Answer, ReadRow, Id, Raw
  <1>1. ASSUME NEW r \in Request, Submit(r) PROVE TypeInv'
    <2>1. /\ replayed' \in [Request -> {"no", "stored", "acknowledged"}]
          /\ overlapped' \subseteq EventId
      BY <1>1, SubmitGhosts DEF TypeInv, TypeOK
    <2>2. pc[r] = "idle" /\ UNCHANGED <<env, snap, ledgervars, fsvars>>
      BY <1>1 DEF Submit
    <2>3. \/ pc' = [pc EXCEPT ![r] = "lookup"] /\ answer' = answer
          \/ /\ pc' = [pc EXCEPT ![r] = "done"]
             /\ answer' = [answer EXCEPT ![r] =
                              [status |-> "invalid_hash", storage_uri |-> None]]
      <3> HIDE DEF TypeOK, RowPresent, SnapPresent
      <3> QED
        BY <1>1 DEF Submit
    <2>4. CASE pc' = [pc EXCEPT ![r] = "lookup"] /\ answer' = answer
      BY <2>1, <2>2, <2>4 DEF ledgervars, fsvars
    <2>5. CASE /\ pc' = [pc EXCEPT ![r] = "done"]
               /\ answer' = [answer EXCEPT ![r] =
                                [status |-> "invalid_hash", storage_uri |-> None]]
      BY <2>1, <2>2, <2>5 DEF ledgervars, fsvars
    <2> QED
      BY <2>3, <2>4, <2>5
  <1>2. ASSUME NEW r \in Request, Lookup(r) PROVE TypeInv'
    BY <1>2, EnvelopeType1 DEF Lookup, HandleExisting, ledgervars, fsvars
  <1>3. ASSUME NEW r \in Request, Insert(r) PROVE TypeInv'
    <2>1. /\ env[r].event_id \in EventId
          /\ ReceivedRow(env[r].event_sha256, env[r].payload_sha256,
                         canonical_json_text(env[r])) \in Row
      BY EnvelopeType1, ReceivedRowType
    <2> QED
      BY <1>3, <2>1, EnvelopeType1 DEF Insert, InsertReceived, fsvars
  <1>4. ASSUME NEW r \in Request, Reread(r) PROVE TypeInv'
    BY <1>4, EnvelopeType1 DEF Reread, HandleExisting, ledgervars, fsvars
  <1>5. ASSUME NEW r \in Request, RecordConflict(r) PROVE TypeInv'
    <2>1. snap[r] \in Row /\ Id(r) \in EventId
      BY <1>5, EnvelopeType1 DEF RecordConflict
    <2>2. snap[r].storage_uri \in Uri \cup {None}
      BY <2>1 DEF Row
    <2>3. attempts' \in [EventId -> [AttemptStatus -> Nat]]
      BY <1>5, <2>1 DEF RecordConflict, RecordAttempt, AttemptStatus
    <2>4. PICK status \in {"conflict_error", "hash_conflict"}, uri \in Uri \cup {None} :
              answer' = [answer EXCEPT ![r] = [status |-> status, storage_uri |-> uri]]
      BY <1>5, <2>2 DEF RecordConflict
    <2>5. /\ pc' = [pc EXCEPT ![r] = "done"]
          /\ UNCHANGED <<env, snap, replayed, overlapped, rows, fsvars>>
      BY <1>5 DEF RecordConflict
    <2> QED
      BY <2>3, <2>4, <2>5 DEF fsvars
  <1>6. ASSUME NEW r \in Request, RecordDuplicate(r) PROVE TypeInv'
    BY <1>6, EnvelopeType1 DEF RecordDuplicate, RecordAttempt, AttemptStatus, Row, fsvars
  <1>7. ASSUME NEW r \in Request, WriteRawEvent(r) PROVE TypeInv'
    BY <1>7, StorageStepType DEF WriteRawEvent, StoreAndMark, ledgervars
  <1>8. ASSUME NEW r \in Request, LoadForStored(r) PROVE TypeInv'
    BY <1>8, EnvelopeType1 DEF LoadForStored, ledgervars, fsvars
  <1>9. ASSUME NEW r \in Request, CommitStored(r) PROVE TypeInv'
    <2>1. snap[r] \in Row /\ rows[Id(r)] \in Row /\ Id(r) \in EventId
      BY <1>9, EnvelopeType1 DEF CommitStored
    <2>2. AsStored(snap[r], PathFor(env[r])) \in Row
      BY <2>1, EnvelopeType1, MarkedType DEF StoredError, TypeInv, TypeOK
    <2>3. Flush(rows[Id(r)], snap[r], AsStored(snap[r], PathFor(env[r]))) \in Row
      BY <2>1, <2>2, FlushType
    <2> QED
      BY <1>9, <2>1, <2>3 DEF CommitStored, CommitUpdate, fsvars
  <1>10. ASSUME NEW r \in Request, Refresh(r) PROVE TypeInv'
    BY <1>10, EnvelopeType1 DEF Refresh, ledgervars, fsvars
  <1>11. ASSUME NEW r \in Request, RecordStored(r) PROVE TypeInv'
    BY <1>11, EnvelopeType1 DEF RecordStored, RecordAttempt, AttemptStatus, Row, fsvars
  <1>12. ASSUME NEW r \in Request, RecordFailed(r) PROVE TypeInv'
    BY <1>12, EnvelopeType1 DEF RecordFailed, RecordAttempt, AttemptStatus, fsvars
  <1>13. ASSUME NEW r \in Request, LoadForFailed(r) PROVE TypeInv'
    BY <1>13, EnvelopeType1 DEF LoadForFailed, ledgervars, fsvars
  <1>14. ASSUME NEW r \in Request, CommitFailed(r) PROVE TypeInv'
    <2> DEFINE error == IF wpc[r] = "conflict" THEN "conflict" ELSE "io"
    <2>1. snap[r] \in Row /\ rows[Id(r)] \in Row /\ Id(r) \in EventId
      BY <1>14, EnvelopeType1 DEF CommitFailed
    <2>2. AsFailed(snap[r], error) \in Row
      BY <2>1, EnvelopeType1, MarkedType DEF StoredError, TypeInv, TypeOK
    <2>3. Flush(rows[Id(r)], snap[r], AsFailed(snap[r], error)) \in Row
      BY <2>1, <2>2, FlushType
    <2> QED
      BY <1>14, <2>1, <2>3 DEF CommitFailed, CommitUpdate, fsvars
  <1>15. ASSUME NEW r \in Request, LedgerFault(r) \/ RefreshFailed(r) PROVE TypeInv'
    <2>1. CASE LedgerFault(r)
      BY <2>1 DEF LedgerFault, ledgervars, fsvars
    <2>2. CASE RefreshFailed(r)
      BY <2>2 DEF RefreshFailed, ledgervars, fsvars
    <2> QED
      BY <1>15, <2>1, <2>2
  <1>16. ASSUME NEW r \in Request, Crash(r) PROVE TypeInv'
    BY <1>16 DEF Crash, ledgervars, fsvars
  <1>17. ASSUME PowerLoss PROVE TypeInv'
    BY <1>17 DEF PowerLoss, FS!PowerLoss, FS!Content, FS!InCall, FS!Ended, ledgervars
  <1>18. CASE UNCHANGED vars
    BY <1>18 DEF vars, ledgervars, fsvars
  <1> QED
    BY <1>1, <1>2, <1>3, <1>4, <1>5, <1>6, <1>7, <1>8, <1>9, <1>10, <1>11, <1>12,
       <1>13, <1>14, <1>15, <1>16, <1>17, <1>18 DEF Next, Handle

(* In every configuration and whatever fails, the variables keep their     *)
(* types: no step of ingest reads a row that is not there.                 *)
THEOREM TypeCorrect == Spec => []TypeOK
  <1>1. Spec => []TypeInv
    BY TypeInit, TypeStep, PTL DEF Spec
  <1>2. TypeInv => TypeOK
    BY DEF TypeInv
  <1> QED
    BY <1>1, <1>2, PTL

-----------------------------------------------------------------------------
(* The identity of a row.                                                  *)

(* A flush leaves a column that was not assigned as the database has it:   *)
(* of mark_stored ...                                                      *)
LEMMA FlushStored ==
    ASSUME NEW current \in Row, NEW loaded \in Row, NEW uri,
           NEW new, new = Flush(current, loaded, AsStored(loaded, uri))
    PROVE  /\ new.event_sha256 = current.event_sha256
           /\ new.payload_sha256 = current.payload_sha256
           /\ new.raw_envelope_json = current.raw_envelope_json
           /\ uri = loaded.storage_uri => new.storage_uri = current.storage_uri
           /\ uri # loaded.storage_uri => new.storage_uri = uri
  BY DEF Flush, AsStored, Row

(* ... and of mark_failed.                                                 *)
LEMMA FlushFailed ==
    ASSUME NEW current \in Row, NEW loaded \in Row, NEW error,
           NEW new, new = Flush(current, loaded, AsFailed(loaded, error))
    PROVE  /\ new.event_sha256 = current.event_sha256
           /\ new.payload_sha256 = current.payload_sha256
           /\ new.raw_envelope_json = current.raw_envelope_json
           /\ new.storage_uri = current.storage_uri
           /\ new.status \in {"failed", current.status}
  BY DEF Flush, AsFailed, Row

(* No step disturbs the identity of a row that is there.                   *)
LEMMA RowIdentityStep == TypeInv /\ [Next]_vars => RowIdentityKept
  <1> SUFFICES ASSUME TypeInv, [Next]_vars PROVE RowIdentityKept
    OBVIOUS
  <1> USE DEF RowIdentityKept
  <1>1. ASSUME UNCHANGED rows PROVE RowIdentityKept
    BY <1>1
  <1>2. ASSUME NEW r \in Request, Insert(r) PROVE RowIdentityKept
    BY <1>2 DEF Insert, InsertReceived, TypeInv, TypeOK, LedgerTypeOK
  <1>3. ASSUME NEW r \in Request, CommitStored(r) PROVE RowIdentityKept
    <2> DEFINE new == Flush(rows[Id(r)], snap[r], AsStored(snap[r], PathFor(env[r])))
    <2>1. snap[r] \in Row /\ rows[Id(r)] \in Row /\ Id(r) \in EventId
      BY <1>3, EnvelopeType1 DEF CommitStored, TypeInv, TypeOK, LedgerTypeOK, RowPresent,
         SnapPresent, UsesSnap, PastInsert, InProgress, LedgerStep, Id
    <2>2. AsStored(snap[r], PathFor(env[r])) \in Row
      BY <2>1, EnvelopeType1, MarkedType DEF StoredError, TypeInv, TypeOK
    <2>3. new \in Row
      BY <2>1, <2>2, FlushType
    <2>4. /\ new.event_sha256 = rows[Id(r)].event_sha256
          /\ new.payload_sha256 = rows[Id(r)].payload_sha256
          /\ new.raw_envelope_json = rows[Id(r)].raw_envelope_json
      BY <2>1, FlushStored
    <2>5. new # NoRow
      BY <2>3, IngestServiceAssumption
    <2>6. rows' = [rows EXCEPT ![Id(r)] = new]
      BY <1>3 DEF CommitStored, CommitUpdate
    <2> HIDE DEF new
    <2> QED
      BY <2>1, <2>4, <2>5, <2>6 DEF TypeInv, TypeOK, LedgerTypeOK
  <1>4. ASSUME NEW r \in Request, CommitFailed(r) PROVE RowIdentityKept
    <2> DEFINE error == IF wpc[r] = "conflict" THEN "conflict" ELSE "io"
    <2> DEFINE new == Flush(rows[Id(r)], snap[r], AsFailed(snap[r], error))
    <2>1. snap[r] \in Row /\ rows[Id(r)] \in Row /\ Id(r) \in EventId
      BY <1>4, EnvelopeType1 DEF CommitFailed, TypeInv, TypeOK, LedgerTypeOK, RowPresent,
         SnapPresent, UsesSnap, PastInsert, InProgress, LedgerStep, Id
    <2>2. AsFailed(snap[r], error) \in Row
      BY <2>1, EnvelopeType1, MarkedType DEF StoredError, TypeInv, TypeOK
    <2>3. new \in Row
      BY <2>1, <2>2, FlushType
    <2>4. /\ new.event_sha256 = rows[Id(r)].event_sha256
          /\ new.payload_sha256 = rows[Id(r)].payload_sha256
          /\ new.raw_envelope_json = rows[Id(r)].raw_envelope_json
      BY <2>1, FlushFailed
    <2>5. new # NoRow
      BY <2>3, IngestServiceAssumption
    <2>6. rows' = [rows EXCEPT ![Id(r)] = new]
      BY <1>4 DEF CommitFailed, CommitUpdate
    <2> HIDE DEF new
    <2> QED
      BY <2>1, <2>4, <2>5, <2>6 DEF TypeInv, TypeOK, LedgerTypeOK
  <1> QED
    <2>1. ASSUME NEW r \in Request, Handle(r) PROVE RowIdentityKept
      BY <2>1, <1>1, <1>2, <1>3, <1>4
      DEF Handle, ledgervars, Submit, Lookup, Reread, RecordConflict, RecordDuplicate,
          WriteRawEvent, LoadForStored, Refresh, RecordStored, RecordFailed,
          LoadForFailed, RefreshFailed, LedgerFault, Crash
    <2> QED
      BY <2>1, <1>1 DEF Next, PowerLoss, vars, ledgervars

(* In every configuration and whatever fails, a row keeps the identity it  *)
(* was inserted with: racing calls of mark_stored and mark_failed write    *)
(* back status columns only, and the UNIQUE constraint does the rest.      *)
THEOREM RowIdentity == Spec => RowIdentityFixed
  <1>1. Spec => []TypeInv
    BY TypeInit, TypeStep, PTL DEF Spec
  <1> QED
    BY <1>1, RowIdentityStep, PTL DEF Spec, RowIdentityFixed

-----------------------------------------------------------------------------
(* The requests.                                                           *)

ConflictAnswer == {"conflict_error", "hash_conflict"}

(* The row of the request's event id is of another event.                  *)
Contradicts(r) ==
    /\ rows[Id(r)] # NoRow
    /\ \/ rows[Id(r)].event_sha256 # env[r].event_sha256
       \/ rows[Id(r)].payload_sha256 # env[r].payload_sha256

(* What a step of r does to the requests: the others stay where they are,  *)
(* and r moves on, or is answered and done.                                *)
LEMMA RequestMoves ==
    ASSUME TypeInv, NEW r \in Request, Handle(r)
    PROVE  /\ UNCHANGED env
           /\ pc[r] \in {"idle"} \cup InProgress
           /\ \A q \in Request \ {r} :
                 pc'[q] = pc[q] /\ snap'[q] = snap[q] /\ answer'[q] = answer[q]
           /\ \/ pc'[r] \in InProgress \cup {"dead"} /\ answer'[r] = answer[r]
              \/ pc'[r] = "done" /\ answer'[r].status \in AnswerStatus \ {"none"}
           /\ answer'[r].status = "invalid_hash" =>
                 (pc[r] = "idle" /\ ~HashesValid(env[r])) \/ answer'[r] = answer[r]
           /\ answer'[r].status \in Success =>
                 \/ answer'[r] = answer[r]
                 \/ /\ pc[r] \in {"record_stored", "record_duplicate"} /\ UNCHANGED rows
                    /\ answer'[r].storage_uri = snap[r].storage_uri
           /\ pc'[r] = "record_conflict" =>
                 /\ snap'[r] = rows[Id(r)] /\ Contradicts(r) /\ UNCHANGED rows
           /\ answer'[r].status \in ConflictAnswer =>
                 \/ answer'[r] = answer[r]
                 \/ /\ pc[r] = "record_conflict" /\ UNCHANGED rows
                    /\ answer'[r].storage_uri \in {None, snap[r].storage_uri}
  <1> USE DEF InProgress, LedgerStep, AnswerStatus, Success, ConflictAnswer, Goto, Answer,
              ReadRow, TypeInv, TypeOK
  <1>1. CASE Submit(r)
    <2>1. /\ pc[r] = "idle" /\ UNCHANGED <<env, snap>>
          /\ \/ pc' = [pc EXCEPT ![r] = "lookup"] /\ answer' = answer
             \/ /\ pc' = [pc EXCEPT ![r] = "done"] /\ ~HashesValid(env[r])
                /\ answer' = [answer EXCEPT ![r] =
                                [status |-> "invalid_hash", storage_uri |-> None]]
      BY <1>1 DEF Submit
    <2> QED
      BY <2>1
  <1>2. CASE Lookup(r) \/ Reread(r)
    <2>1. /\ UNCHANGED <<env, rows, answer>> /\ snap' = [snap EXCEPT ![r] = rows[Id(r)]]
          /\ pc[r] \in {"lookup", "reread"} /\ pc' = [pc EXCEPT ![r] = pc'[r]]
          /\ pc'[r] \in {"insert", "record_conflict", "record_duplicate", "write"}
          /\ pc'[r] = "record_conflict" => Contradicts(r)
      BY <1>2 DEF Lookup, Reread, HandleExisting, ledgervars, Contradicts, RowPresent, PastInsert
    <2> QED
      BY <2>1
  <1>3. CASE Insert(r) \/ LoadForStored(r) \/ CommitStored(r) \/ Refresh(r)
             \/ RecordFailed(r) \/ LoadForFailed(r) \/ CommitFailed(r) \/ Crash(r)
    BY <1>3 DEF Insert, LoadForStored, CommitStored, Refresh, RecordFailed, LoadForFailed,
                CommitFailed, Crash
  <1>4. CASE RecordConflict(r)
    BY <1>4 DEF RecordConflict
  <1>5. CASE RecordDuplicate(r) \/ RecordStored(r) \/ RefreshFailed(r) \/ LedgerFault(r)
    BY <1>5 DEF RecordDuplicate, RecordStored, RefreshFailed, LedgerFault
  <1>6. CASE WriteRawEvent(r)
    BY <1>6 DEF WriteRawEvent, StoreAndMark
  <1> QED
    BY <1>1, <1>2, <1>3, <1>4, <1>5, <1>6 DEF Handle

(* Only an insert makes a row, and makes it from its own envelope.         *)
LEMMA RowsComeFromInserts ==
    ASSUME TypeInv, NEW id \in EventId, NEW r \in Request, Handle(r),
           rows[id] = NoRow, rows'[id] # NoRow
    PROVE  /\ Insert(r) /\ id = Id(r)
           /\ rows'[id].event_sha256 = env[r].event_sha256
           /\ rows'[id].payload_sha256 = env[r].payload_sha256
           /\ rows'[id].raw_envelope_json = Raw(r)
  <1>1. ASSUME CommitStored(r) \/ CommitFailed(r) PROVE FALSE
    <2>1. rows[Id(r)] # NoRow /\ Id(r) \in EventId
      BY <1>1, EnvelopeType1 DEF CommitStored, CommitFailed, TypeInv, TypeOK, RowPresent,
         PastInsert, InProgress, LedgerStep, Id
    <2>2. rows'[id] = rows[id]
      BY <1>1, <2>1 DEF CommitStored, CommitFailed, CommitUpdate, TypeInv, TypeOK, LedgerTypeOK
    <2> QED
      BY <2>2
  <1>2. Insert(r)
    BY <1>1
    DEF Handle, ledgervars, Submit, Lookup, Reread, RecordConflict, RecordDuplicate,
        WriteRawEvent, LoadForStored, Refresh, RecordStored, RecordFailed,
        LoadForFailed, RefreshFailed, LedgerFault, Crash
  <1> QED
    BY <1>2 DEF Insert, InsertReceived, ReceivedRow, TypeInv, TypeOK, LedgerTypeOK

-----------------------------------------------------------------------------
(* The audit trail.                                                        *)

(* Request r has been, or is sure to be, answered as attempt s says.       *)
Counts(r, s) ==
    \/ s = "stored" /\ answer[r].status = "stored"
    \/ s = "duplicate" /\ answer[r].status = "duplicate"
    \/ s = "hash_conflict" /\ answer[r].status \in ConflictAnswer
    \/ s = "failed" /\ \/ answer[r].status = "storage_error"
                       \/ pc[r] \in {"load_failed", "commit_failed", "refresh_failed"}

Counted(id, s) == {r \in Request : Id(r) = id /\ Counts(r, s)}

AuditInv ==
    \A id \in EventId, s \in AttemptStatus :
        IsFiniteSet(Counted(id, s)) /\ Cardinality(Counted(id, s)) <= attempts[id][s]

(* A set that gains one element at most, and only if the counter rises.    *)
LEMMA CountStep ==
    ASSUME NEW T, NEW U, NEW r, NEW m \in Nat, NEW n \in Nat,
           IsFiniteSet(T), Cardinality(T) <= m, m <= n,
           U \subseteq T \cup {r},
           U \subseteq T \/ m + 1 <= n
    PROVE  IsFiniteSet(U) /\ Cardinality(U) <= n
  <1>1. CASE U \subseteq T
    <2>1. IsFiniteSet(U) /\ Cardinality(U) <= Cardinality(T)
      <3>1. U \in SUBSET T
        BY <1>1
      <3> QED
        BY <3>1, FS_Subset
    <2>2. Cardinality(U) \in Nat /\ Cardinality(T) \in Nat
      BY <2>1, FS_CardinalityType
    <2> QED
      BY <2>1, <2>2
  <1>2. CASE m + 1 <= n
    <2>1. /\ IsFiniteSet(T \cup {r}) /\ Cardinality(T) \in Nat
          /\ Cardinality(T \cup {r}) <= Cardinality(T) + 1
      <3>1. Cardinality(T) \in Nat
        BY FS_CardinalityType
      <3>2. /\ IsFiniteSet(T \cup {r})
            /\ Cardinality(T \cup {r}) = IF r \in T THEN Cardinality(T) ELSE Cardinality(T) + 1
        BY FS_AddElement, Zenon
      <3> QED
        BY <3>1, <3>2
    <2>2. IsFiniteSet(U) /\ Cardinality(U) <= Cardinality(T \cup {r})
      <3>1. U \in SUBSET (T \cup {r})
        OBVIOUS
      <3> QED
        BY <2>1, <3>1, FS_Subset
    <2>3. Cardinality(U) \in Nat /\ Cardinality(T \cup {r}) \in Nat
      BY <2>1, <2>2, FS_CardinalityType
    <2> QED
      BY <1>2, <2>1, <2>2, <2>3
  <1> QED
    BY <1>1, <1>2

(* What a step does to the attempts, and how the request that takes it is  *)
(* counted: it is counted newly only where an attempt is recorded.         *)
LEMMA AttemptMoves ==
    ASSUME TypeInv, NEW r \in Request, Handle(r)
    PROVE  \/ /\ UNCHANGED attempts
              /\ \A s \in AttemptStatus : Counts(r, s)' => Counts(r, s)
           \/ \E t \in AttemptStatus :
                 /\ attempts' = [attempts EXCEPT ![Id(r)][t] = @ + 1]
                 /\ \A s \in AttemptStatus \ {t} : Counts(r, s)' => Counts(r, s)
                 /\ t \in {"stored", "duplicate"} =>
                       /\ pc[r] \in {"record_stored", "record_duplicate"}
                       /\ UNCHANGED rows
  <1> USE DEF Goto, Answer, TypeInv, TypeOK, AttemptStatus, Counts, ConflictAnswer
  <1>1. CASE Submit(r)
    <2>1. /\ pc[r] = "idle" /\ UNCHANGED attempts
          /\ \/ pc' = [pc EXCEPT ![r] = "lookup"] /\ answer' = answer
             \/ /\ pc' = [pc EXCEPT ![r] = "done"]
                /\ answer' = [answer EXCEPT ![r] =
                                [status |-> "invalid_hash", storage_uri |-> None]]
      BY <1>1 DEF Submit, ledgervars
    <2> QED
      BY <2>1
  <1>2. CASE Lookup(r) \/ Reread(r)
    <2>1. /\ UNCHANGED <<attempts, answer>> /\ pc' = [pc EXCEPT ![r] = pc'[r]]
          /\ pc'[r] \in {"insert", "record_conflict", "record_duplicate", "write"}
      BY <1>2 DEF Lookup, Reread, HandleExisting, ledgervars
    <2> QED
      BY <2>1
  <1>3. CASE Insert(r) \/ LoadForStored(r) \/ CommitStored(r) \/ Refresh(r)
             \/ LoadForFailed(r) \/ CommitFailed(r) \/ Crash(r)
    BY <1>3 DEF Insert, LoadForStored, CommitStored, Refresh, LoadForFailed, CommitFailed, Crash,
                ledgervars
  <1>4. CASE RecordConflict(r)
    BY <1>4 DEF RecordConflict, RecordAttempt
  <1>5. CASE RecordDuplicate(r)
    BY <1>5 DEF RecordDuplicate, RecordAttempt
  <1>6. CASE RecordStored(r)
    BY <1>6 DEF RecordStored, RecordAttempt
  <1>7. CASE RecordFailed(r)
    BY <1>7 DEF RecordFailed, RecordAttempt
  <1>8. CASE RefreshFailed(r) \/ LedgerFault(r)
    BY <1>8 DEF RefreshFailed, LedgerFault, ledgervars
  <1>9. CASE WriteRawEvent(r)
    BY <1>9 DEF WriteRawEvent, StoreAndMark, ledgervars
  <1> QED
    BY <1>1, <1>2, <1>3, <1>4, <1>5, <1>6, <1>7, <1>8, <1>9 DEF Handle

LEMMA AttemptsType ==
    ASSUME TypeInv, NEW id \in EventId, NEW s \in AttemptStatus
    PROVE  attempts[id][s] \in Nat
  BY DEF TypeInv, TypeOK, LedgerTypeOK

LEMMA AuditInit == Init => AuditInv
  <1> SUFFICES ASSUME Init PROVE AuditInv
    OBVIOUS
  <1>1. \A id \in EventId, s \in AttemptStatus : Counted(id, s) = {}
    BY DEF Init, Counted, Counts, ConflictAnswer
  <1>2. \A id \in EventId, s \in AttemptStatus : attempts[id][s] = 0
    BY DEF Init, LedgerInit
  <1> QED
    BY <1>1, <1>2, FS_EmptySet DEF AuditInv

LEMMA AuditStep == TypeInv /\ AuditInv /\ [Next]_vars => AuditInv'
  <1> SUFFICES ASSUME TypeInv, TypeInv', AuditInv, [Next]_vars,
                      NEW id \in EventId, NEW s \in AttemptStatus
               PROVE  /\ IsFiniteSet(Counted(id, s)')
                      /\ Cardinality(Counted(id, s)') <= attempts'[id][s]
    BY TypeStep DEF AuditInv
  <1>0. /\ attempts[id][s] \in Nat /\ attempts'[id][s] \in Nat
        /\ IsFiniteSet(Counted(id, s)) /\ Cardinality(Counted(id, s)) <= attempts[id][s]
    BY DEF TypeInv, TypeOK, LedgerTypeOK, AuditInv
  <1>1. ASSUME NEW r \in Request,
               attempts[id][s] <= attempts'[id][s],
               Counted(id, s)' \subseteq Counted(id, s) \cup {r},
               \/ Counted(id, s)' \subseteq Counted(id, s)
               \/ attempts[id][s] + 1 <= attempts'[id][s]
        PROVE  /\ IsFiniteSet(Counted(id, s)')
               /\ Cardinality(Counted(id, s)') <= attempts'[id][s]
    <2> DEFINE T == Counted(id, s)
               U == Counted(id, s)'
               m == attempts[id][s]
               n == attempts'[id][s]
    <2>1. /\ m \in Nat /\ n \in Nat /\ IsFiniteSet(T) /\ Cardinality(T) <= m /\ m <= n
          /\ U \subseteq T \cup {r} /\ (U \subseteq T \/ m + 1 <= n)
      BY <1>0, <1>1
    <2> HIDE DEF T, U, m, n
    <2>2. IsFiniteSet(U) /\ Cardinality(U) <= n
      BY <2>1, CountStep
    <2> QED
      BY <2>2 DEF U, n
  <1>2. ASSUME NEW r \in Request, Handle(r)
        PROVE  /\ IsFiniteSet(Counted(id, s)')
               /\ Cardinality(Counted(id, s)') <= attempts'[id][s]
    <2>1. /\ UNCHANGED env
          /\ \A q \in Request \ {r} : Counts(q, s)' = Counts(q, s)
      BY <1>2, RequestMoves DEF Counts
    <2>2. Counted(id, s)' \subseteq Counted(id, s) \cup {r}
      BY <2>1 DEF Counted, Id
    <2>3. CASE Counts(r, s)' => Counts(r, s)
      <3>1. Counted(id, s)' \subseteq Counted(id, s)
        BY <2>1, <2>3 DEF Counted, Id
      <3>2. attempts[id][s] <= attempts'[id][s]
        <4>1. CASE UNCHANGED attempts
          BY <1>0, <4>1
        <4>2. ASSUME NEW t \in AttemptStatus,
                     attempts' = [attempts EXCEPT ![Id(r)][t] = @ + 1]
              PROVE  attempts[id][s] <= attempts'[id][s]
          BY <4>2 DEF TypeInv, TypeOK, LedgerTypeOK
        <4> QED
          BY <1>2, <4>1, <4>2, AttemptMoves
      <3> QED
        BY <1>1, <2>2, <3>1, <3>2
    <2>4. CASE ~(Counts(r, s)' => Counts(r, s))
      <3>1. attempts' = [attempts EXCEPT ![Id(r)][s] = @ + 1]
        BY <1>2, <2>4, AttemptMoves
      <3>2. CASE id = Id(r)
        <4>1. attempts'[id][s] = attempts[id][s] + 1
          BY <3>1, <3>2 DEF TypeInv, TypeOK, LedgerTypeOK
        <4> QED
          BY <1>0, <1>1, <2>2, <4>1
      <3>3. CASE id # Id(r)
        <4>1. attempts'[id][s] = attempts[id][s]
          BY <3>1, <3>3 DEF TypeInv, TypeOK, LedgerTypeOK
        <4>2. Counted(id, s)' \subseteq Counted(id, s)
          BY <2>1, <3>3 DEF Counted, Id
        <4> QED
          BY <1>0, <1>1, <2>2, <4>1, <4>2
      <3> QED
        BY <3>2, <3>3
    <2> QED
      BY <2>3, <2>4
  <1>3. CASE PowerLoss \/ UNCHANGED vars
    <2>1. Counted(id, s)' \subseteq Counted(id, s) /\ UNCHANGED attempts
      <3>1. /\ UNCHANGED <<env, answer, attempts>>
            /\ \A q \in Request : pc'[q] \in {pc[q], "dead"}
        BY <1>3 DEF PowerLoss, vars, ledgervars
      <3>2. \A q \in Request : Counts(q, s)' => Counts(q, s)
        BY <3>1 DEF Counts
      <3> QED
        BY <3>1, <3>2 DEF Counted, Id
    <2> DEFINE T == Counted(id, s)
               U == Counted(id, s)'
               m == attempts[id][s]
    <2>2. m \in Nat /\ IsFiniteSet(T) /\ Cardinality(T) <= m /\ U \subseteq T \cup {id}
          /\ U \subseteq T /\ m <= m
      BY <1>0, <2>1
    <2> HIDE DEF T, U, m
    <2>3. IsFiniteSet(U) /\ Cardinality(U) <= m
      BY <2>2, CountStep
    <2> QED
      BY <2>1, <2>3 DEF U, m
  <1> QED
    BY <1>2, <1>3 DEF Next

(* In every configuration and whatever fails, no request is answered       *)
(* before its attempt is on record.                                        *)
THEOREM AnswersAreAuditedAlways == Spec => []AnswersAreAudited
  <1>1. TypeInv /\ AuditInv => AnswersAreAudited
    <2> SUFFICES ASSUME TypeInv, AuditInv, NEW id \in EventId,
                        NEW S, NEW s \in AttemptStatus,
                        \A r \in Request : answer[r].status \in S => Counts(r, s)
                 PROVE  Cardinality({r \in Request : Id(r) = id /\ answer[r].status \in S})
                           <= attempts[id][s]
      BY DEF AnswersAreAudited, AttemptStatus, Counts, ConflictAnswer
    <2> DEFINE T == Counted(id, s)
               U == {r \in Request : Id(r) = id /\ answer[r].status \in S}
               m == attempts[id][s]
    <2>1. m \in Nat /\ IsFiniteSet(T) /\ Cardinality(T) <= m /\ U \subseteq T \cup {id}
          /\ U \subseteq T /\ m <= m
      BY AttemptsType DEF AuditInv, Counted
    <2> HIDE DEF T, U, m
    <2>2. Cardinality(U) <= m
      BY <2>1, CountStep
    <2> QED
      BY <2>2 DEF U, m
  <1> QED
    BY <1>1, TypeInit, TypeStep, AuditInit, AuditStep, PTL DEF Spec

(* A row that names an object goes on naming one.                          *)
UriNamed(id) == rows[id] # NoRow /\ rows[id].storage_uri # None

UrisStay == \A id \in EventId : UriNamed(id) => UriNamed(id)'

(* Before it records a success a request has seen the row name an object,  *)
(* and the row does so still; a URI that mark_stored has loaded is another *)
(* one that stays.                                                         *)
UriSeen(r) ==
    /\ pc[r] \in {"refresh", "record_stored", "record_duplicate"} => UriNamed(Id(r))
    /\ pc[r] = "commit_stored" /\ snap[r].storage_uri # None => UriNamed(Id(r))

AttemptInv ==
    \A id \in EventId :
        attempts[id]["stored"] + attempts[id]["duplicate"] > 0 => UriNamed(id)

TrailInv == AttemptInv /\ \A r \in Request : UriSeen(r)

(* What the two updates make of the row: both leave a row, mark_failed     *)
(* leaves its URI as it is, and mark_stored sets it unless the URI that it *)
(* loaded is the same.                                                     *)
LEMMA UpdatedRow ==
    ASSUME TypeInv, NEW r \in Request, CommitStored(r) \/ CommitFailed(r)
    PROVE  /\ Id(r) \in EventId /\ rows[Id(r)] # NoRow /\ rows'[Id(r)] # NoRow
           /\ \A id \in EventId \ {Id(r)} : rows'[id] = rows[id]
           /\ \/ rows'[Id(r)].storage_uri = rows[Id(r)].storage_uri
              \/ CommitStored(r) /\ rows'[Id(r)].storage_uri = PathFor(env[r])
           /\ CommitStored(r) /\ snap[r].storage_uri # PathFor(env[r]) =>
                 rows'[Id(r)].storage_uri = PathFor(env[r])
           /\ CommitFailed(r) =>
                 /\ rows'[Id(r)].storage_uri = rows[Id(r)].storage_uri
                 /\ rows'[Id(r)].status \in {"failed", rows[Id(r)].status}
  <1>1. /\ snap[r] \in Row /\ rows[Id(r)] \in Row /\ Id(r) \in EventId
        /\ rows[Id(r)] # NoRow
    BY EnvelopeType1
    DEF CommitStored, CommitFailed, TypeInv, TypeOK, LedgerTypeOK, RowPresent, SnapPresent,
        UsesSnap, PastInsert, InProgress, LedgerStep, Id
  <1>2. rows'[Id(r)] # NoRow
    BY <1>1, RowIdentityStep DEF Next, Handle, RowIdentityKept
  <1>3. PICK new : /\ rows' = [rows EXCEPT ![Id(r)] = new]
                   /\ \/ /\ CommitFailed(r) /\ ~CommitStored(r)
                         /\ new.storage_uri = rows[Id(r)].storage_uri
                         /\ new.status \in {"failed", rows[Id(r)].status}
                      \/ /\ CommitStored(r) /\ ~CommitFailed(r)
                         /\ PathFor(env[r]) = snap[r].storage_uri =>
                               new.storage_uri = rows[Id(r)].storage_uri
                         /\ PathFor(env[r]) # snap[r].storage_uri =>
                               new.storage_uri = PathFor(env[r])
    <2>1. CASE CommitStored(r)
      <3> DEFINE stored == Flush(rows[Id(r)], snap[r], AsStored(snap[r], PathFor(env[r])))
      <3>1. rows' = [rows EXCEPT ![Id(r)] = stored] /\ ~CommitFailed(r)
        BY <2>1 DEF CommitStored, CommitFailed, CommitUpdate
      <3>2. /\ PathFor(env[r]) = snap[r].storage_uri =>
                  stored.storage_uri = rows[Id(r)].storage_uri
            /\ PathFor(env[r]) # snap[r].storage_uri =>
                  stored.storage_uri = PathFor(env[r])
        BY <1>1, FlushStored
      <3> HIDE DEF stored
      <3> QED
        BY <2>1, <3>1, <3>2
    <2>2. CASE CommitFailed(r)
      <3> DEFINE error == IF wpc[r] = "conflict" THEN "conflict" ELSE "io"
                 failed == Flush(rows[Id(r)], snap[r], AsFailed(snap[r], error))
      <3>1. rows' = [rows EXCEPT ![Id(r)] = failed] /\ ~CommitStored(r)
        BY <2>2 DEF CommitFailed, CommitStored, CommitUpdate
      <3>2. /\ failed.storage_uri = rows[Id(r)].storage_uri
            /\ failed.status \in {"failed", rows[Id(r)].status}
        BY <1>1, FlushFailed
      <3> HIDE DEF failed
      <3> QED
        BY <2>2, <3>1, <3>2
    <2> QED
      BY <2>1, <2>2
  <1> QED
    BY <1>1, <1>2, <1>3 DEF TypeInv, TypeOK, LedgerTypeOK

(* No step takes the URI of a row away.                                    *)
LEMMA UrisStayStep == TypeInv /\ [Next]_vars => UrisStay
  <1> SUFFICES ASSUME TypeInv, [Next]_vars PROVE UrisStay
    OBVIOUS
  <1>1. ASSUME UNCHANGED rows PROVE UrisStay
    BY <1>1 DEF UrisStay, UriNamed
  <1>2. ASSUME NEW r \in Request, Insert(r) PROVE UrisStay
    BY <1>2 DEF Insert, InsertReceived, UrisStay, UriNamed, TypeInv, TypeOK, LedgerTypeOK
  <1>3. ASSUME NEW r \in Request, CommitStored(r) \/ CommitFailed(r) PROVE UrisStay
    <2>1. PathFor(env[r]) # None
      BY EnvelopeType1, IngestServiceAssumption DEF TypeInv, TypeOK
    <2> QED
      BY <1>3, <2>1, UpdatedRow DEF UrisStay, UriNamed
  <1>4. ASSUME NEW r \in Request, Handle(r) PROVE UrisStay
    BY <1>1, <1>2, <1>3, <1>4
    DEF Handle, ledgervars, Submit, Lookup, Reread, RecordConflict, RecordDuplicate,
        WriteRawEvent, LoadForStored, Refresh, RecordStored, RecordFailed,
        LoadForFailed, RefreshFailed, LedgerFault, Crash
  <1> QED
    BY <1>1, <1>4 DEF Next, PowerLoss, vars, ledgervars

LEMMA UriSeenStep ==
    ASSUME TypeInv, TrailInv, [Next]_vars, NEW q \in Request
    PROVE  UriSeen(q)'
  <1>1. Id(q) \in EventId
    BY EnvelopeType1 DEF TypeInv, TypeOK, Id
  <1>2. UriNamed(Id(q)) => (Id(q)' = Id(q) => UriNamed(Id(q))')
    BY <1>1, UrisStayStep DEF UrisStay, UriNamed
  <1>3. CASE UNCHANGED env /\ pc'[q] = pc[q] /\ snap'[q] = snap[q]
    BY <1>2, <1>3 DEF TrailInv, UriSeen, Id
  <1>4. CASE UNCHANGED env /\ pc'[q] \notin {"refresh", "record_stored", "record_duplicate",
                                             "commit_stored"}
    BY <1>4 DEF UriSeen
  <1>5. ASSUME NEW r \in Request, Handle(r) PROVE UriSeen(q)'
    <2>1. UNCHANGED env /\ (q # r => pc'[q] = pc[q] /\ snap'[q] = snap[q])
      BY <1>5, RequestMoves
    <2>2. Id(q)' = Id(q)
      BY <2>1 DEF Id
    <2>3. CASE q # r
      BY <1>3, <2>1, <2>3
    <2>4. CASE q = r
      <3> USE DEF Goto, TypeInv, TypeOK
      <3>1. CASE Lookup(r) \/ Reread(r)
        <4>1. /\ UNCHANGED rows /\ pc' = [pc EXCEPT ![r] = pc'[r]]
              /\ pc'[r] \in {"insert", "record_conflict", "record_duplicate", "write"}
              /\ pc'[r] = "record_duplicate" =>
                    rows[Id(r)] # NoRow /\ rows[Id(r)].storage_uri # None
          BY <3>1 DEF Lookup, Reread, HandleExisting, ledgervars, RowPresent, PastInsert,
             InProgress, LedgerStep
        <4> QED
          BY <2>2, <2>4, <4>1 DEF UriSeen, UriNamed
      <3>2. CASE LoadForStored(r)
        BY <2>2, <2>4, <3>2
        DEF LoadForStored, ReadRow, ledgervars, UriSeen, UriNamed, RowPresent, PastInsert,
            InProgress, LedgerStep
      <3>3. CASE CommitStored(r)
        <4>1. PathFor(env[r]) # None /\ pc'[r] = "refresh"
          BY <3>3, EnvelopeType1, IngestServiceAssumption DEF CommitStored
        <4>2. snap[r].storage_uri # None => UriNamed(Id(r))'
          BY <1>2, <2>2, <2>4, <3>3 DEF CommitStored, TrailInv, UriSeen
        <4>3. snap[r].storage_uri # PathFor(env[r]) => UriNamed(Id(r))'
          BY <2>2, <2>4, <3>3, <4>1, UpdatedRow DEF UriNamed
        <4> QED
          BY <2>4, <4>1, <4>2, <4>3 DEF UriSeen
      <3>4. CASE Refresh(r)
        BY <1>2, <2>2, <2>4, <3>4 DEF Refresh, TrailInv, UriSeen
      <3>5. CASE WriteRawEvent(r)
        BY <1>4, <2>1, <2>4, <3>5 DEF WriteRawEvent, StoreAndMark
      <3>6. CASE Submit(r)
        <4>1. pc' = [pc EXCEPT ![r] = "lookup"] \/ pc' = [pc EXCEPT ![r] = "done"]
          BY <3>6 DEF Submit, Answer
        <4> QED
          BY <1>4, <2>1, <2>4, <4>1
      <3>7. CASE \/ Insert(r) \/ RecordConflict(r) \/ RecordDuplicate(r) \/ RecordStored(r)
                 \/ RecordFailed(r) \/ LoadForFailed(r) \/ CommitFailed(r)
                 \/ RefreshFailed(r) \/ LedgerFault(r) \/ Crash(r)
        BY <1>4, <2>1, <2>4, <3>7
        DEF Insert, RecordConflict, RecordDuplicate, RecordStored, RecordFailed,
            LoadForFailed, CommitFailed, RefreshFailed, LedgerFault, Crash, Answer
      <3> QED
        BY <1>5, <3>1, <3>2, <3>3, <3>4, <3>5, <3>6, <3>7 DEF Handle
    <2> QED
      BY <2>3, <2>4
  <1>6. CASE PowerLoss
    BY <1>3, <1>4, <1>6 DEF PowerLoss, TypeInv, TypeOK
  <1>7. CASE UNCHANGED vars
    BY <1>3, <1>7 DEF vars
  <1> QED
    BY <1>5, <1>6, <1>7 DEF Next

(* A recorded attempt that stored the event, or found it stored, leaves a  *)
(* row that names the object.                                              *)
LEMMA AttemptStep ==
    ASSUME TypeInv, TrailInv, [Next]_vars
    PROVE  AttemptInv'
  <1> SUFFICES ASSUME NEW id \in EventId, ~UriNamed(id),
                      (attempts[id]["stored"] + attempts[id]["duplicate"] > 0)'
               PROVE  UriNamed(id)'
    BY UrisStayStep DEF AttemptInv, UrisStay
  <1>1. /\ attempts[id]["stored"] \in Nat /\ attempts[id]["duplicate"] \in Nat
        /\ attempts[id]["stored"] = 0 /\ attempts[id]["duplicate"] = 0
    BY AttemptsType DEF TrailInv, AttemptInv, AttemptStatus
  <1>2. ASSUME UNCHANGED attempts PROVE FALSE
    BY <1>1, <1>2
  <1>3. ASSUME NEW r \in Request, Handle(r), NEW t \in AttemptStatus,
               attempts' = [attempts EXCEPT ![Id(r)][t] = @ + 1],
               t \in {"stored", "duplicate"} =>
                  /\ pc[r] \in {"record_stored", "record_duplicate"} /\ UNCHANGED rows
        PROVE  FALSE
    <2>1. id = Id(r) /\ t \in {"stored", "duplicate"}
      BY <1>1, <1>3 DEF TypeInv, TypeOK, LedgerTypeOK, AttemptStatus
    <2> QED
      BY <1>3, <2>1 DEF TrailInv, UriSeen
  <1>4. ASSUME NEW r \in Request, Handle(r) PROVE FALSE
    BY <1>2, <1>3, <1>4, AttemptMoves
  <1> QED
    BY <1>2, <1>4 DEF Next, PowerLoss, vars, ledgervars

(* In every configuration and whatever fails the audit trail is true:      *)
(* answers are audited, and once a success is on record the row names an   *)
(* object, for good.                                                       *)
THEOREM AuditTrailIsTrueAlways == Spec => []AuditTrailIsTrue
  <1>1. Init => TrailInv
    BY DEF Init, LedgerInit, TrailInv, AttemptInv, AttemptStatus, UriSeen
  <1>2. TypeInv /\ TrailInv /\ [Next]_vars => TrailInv'
    BY UriSeenStep, AttemptStep DEF TrailInv
  <1>3. TrailInv => AttemptsHaveObjects
    BY DEF TrailInv, AttemptInv, UriNamed, AttemptsHaveObjects
  <1> QED
    BY <1>1, <1>2, <1>3, TypeInit, TypeStep, AnswersAreAuditedAlways, PTL
    DEF Spec, AuditTrailIsTrue
-----------------------------------------------------------------------------
(* Where rows come from, and what their event hash says.                   *)

(* The canonical text of an envelope determines it, and its path at least  *)
(* determines its event id.                                                *)
LEMMA TextAndPath ==
    ASSUME NEW e \in Envelope, NEW f \in Envelope
    PROVE  /\ canonical_json_text(e) = canonical_json_text(f) => e = f
           /\ PathFor(e) = PathFor(f) => e.event_id = f.event_id
  BY DEF canonical_json_text, PathFor

(* The row has the event hash that r declares; it has both of its hashes;  *)
(* and it says stored.                                                     *)
RowHasHash(r) == rows[Id(r)] # NoRow /\ rows[Id(r)].event_sha256 = env[r].event_sha256

RowMatches(r) == RowHasHash(r) /\ rows[Id(r)].payload_sha256 = env[r].payload_sha256

RowAccepts(r) == RowMatches(r) /\ rows[Id(r)].status = "stored"

(* A row was inserted for one validated envelope.                          *)
RowOrigin(id) ==
    rows[id] # NoRow =>
        \E e \in Envelope :
            /\ HashesValid(e) /\ e.event_id = id
            /\ rows[id].event_sha256 = e.event_sha256
            /\ rows[id].payload_sha256 = e.payload_sha256
            /\ rows[id].raw_envelope_json = canonical_json_text(e)

(* Steps of a request that has found its event hash in the row.            *)
HashSeen == {"record_duplicate", "write", "load_stored", "commit_stored", "refresh",
             "record_stored", "record_failed", "load_failed", "commit_failed", "refresh_failed"}

Validated(r) ==
    /\ pc[r] \in InProgress => HashesValid(env[r])
    /\ pc[r] \in HashSeen => RowHasHash(r)
    /\ Acked(r) => HashesValid(env[r]) /\ RowHasHash(r)

OriginInv == /\ \A id \in EventId : RowOrigin(id)
             /\ \A r \in Request : Validated(r)

LEMMA OriginInit == Init => OriginInv
  BY DEF Init, LedgerInit, OriginInv, RowOrigin, Validated, HashSeen, Acked, Success,
         InProgress, LedgerStep

LEMMA ValidatedStep ==
    ASSUME TypeInv, OriginInv, NEW r \in Request, Handle(r)
    PROVE  Validated(r)'
  <1>0. /\ Id(r) \in EventId /\ Id(r)' = Id(r) /\ env'[r] = env[r] /\ UNCHANGED env
        /\ env[r] \in Envelope /\ RowIdentityKept
    BY RequestMoves, EnvelopeType1, RowIdentityStep DEF TypeInv, TypeOK, Id, Next
  <1>1. HashesValid(env[r])' = HashesValid(env[r])
    BY <1>0 DEF HashesValid, canonical_event_without_event_hash, sha256_json
  <1>2. RowHasHash(r) => RowHasHash(r)'
    BY <1>0 DEF RowHasHash, RowIdentityKept
  <1>3. Validated(r)
    BY DEF OriginInv
  <1> USE DEF Goto, Answer, ReadRow, TypeInv, TypeOK
  <1>4. CASE Submit(r)
    <2>1. \/ pc' = [pc EXCEPT ![r] = "lookup"] /\ answer' = answer /\ HashesValid(env[r])
          \/ /\ pc' = [pc EXCEPT ![r] = "done"]
             /\ answer' = [answer EXCEPT ![r] =
                             [status |-> "invalid_hash", storage_uri |-> None]]
      BY <1>4 DEF Submit
    <2> QED
      BY <1>1, <1>2, <1>3, <2>1 DEF Validated, HashSeen, Acked, Success, InProgress, LedgerStep
  <1>5. CASE Lookup(r) \/ Reread(r)
    <2>1. /\ pc[r] \in InProgress /\ UNCHANGED <<rows, answer>>
          /\ pc' = [pc EXCEPT ![r] = pc'[r]]
          /\ pc'[r] \in HashSeen => RowHasHash(r)
      BY <1>0, <1>5 DEF Lookup, Reread, HandleExisting, ledgervars, RowHasHash, HashSeen,
         RowPresent, PastInsert, InProgress, LedgerStep
    <2> QED
      BY <1>1, <1>2, <1>3, <2>1 DEF Validated, Acked
  <1>6. CASE Insert(r)
    <2>1. pc[r] = "insert" /\ pc' = [pc EXCEPT ![r] = "reread"] /\ answer' = answer
      BY <1>6 DEF Insert
    <2> QED
      BY <1>1, <1>2, <1>3, <2>1 DEF Validated, HashSeen, Acked, InProgress, LedgerStep
  <1>7. CASE \/ WriteRawEvent(r) \/ LoadForStored(r) \/ CommitStored(r) \/ Refresh(r)
             \/ RecordFailed(r) \/ LoadForFailed(r) \/ CommitFailed(r)
    <2>1. /\ pc[r] \in HashSeen /\ answer' = answer
          /\ pc' = [pc EXCEPT ![r] = pc'[r]] /\ pc'[r] \in HashSeen
      BY <1>7 DEF WriteRawEvent, StoreAndMark, LoadForStored, CommitStored, Refresh, RecordFailed,
         LoadForFailed, CommitFailed, HashSeen
    <2> QED
      BY <1>1, <1>2, <1>3, <2>1 DEF Validated, HashSeen, Acked, InProgress, LedgerStep
  <1>8. CASE RecordDuplicate(r) \/ RecordStored(r)
    <2>1. pc[r] \in HashSeen /\ pc' = [pc EXCEPT ![r] = "done"]
      BY <1>8 DEF RecordDuplicate, RecordStored, HashSeen
    <2> QED
      BY <1>1, <1>2, <1>3, <2>1 DEF Validated, HashSeen, Acked, InProgress, LedgerStep
  <1>9. CASE RecordConflict(r) \/ RefreshFailed(r) \/ LedgerFault(r) \/ Crash(r)
    <2>1. /\ pc'[r] \in {"done", "dead"}
          /\ answer'[r] = answer[r] \/ answer'[r].status \notin Success
      BY <1>9 DEF RecordConflict, RefreshFailed, LedgerFault, Crash, Success, InProgress, LedgerStep
    <2> QED
      BY <1>1, <1>2, <1>3, <2>1 DEF Validated, HashSeen, Acked, InProgress, LedgerStep
  <1> QED
    BY <1>4, <1>5, <1>6, <1>7, <1>8, <1>9 DEF Handle

LEMMA OriginStep == TypeInv /\ OriginInv /\ [Next]_vars => OriginInv'
  <1> SUFFICES ASSUME TypeInv, OriginInv, [Next]_vars PROVE OriginInv'
    OBVIOUS
  <1>1. RowIdentityKept
    BY RowIdentityStep
  <1>2. ASSUME UNCHANGED env, NEW id \in EventId, rows[id] # NoRow PROVE RowOrigin(id)'
    <2>1. PICK e \in Envelope :
            /\ HashesValid(e) /\ e.event_id = id
            /\ rows[id].event_sha256 = e.event_sha256
            /\ rows[id].payload_sha256 = e.payload_sha256
            /\ rows[id].raw_envelope_json = canonical_json_text(e)
      BY <1>2 DEF OriginInv, RowOrigin
    <2> QED
      BY <1>1, <1>2, <2>1 DEF RowOrigin, RowIdentityKept
  <1>3. ASSUME UNCHANGED env, NEW q \in Request, answer'[q] = answer[q],
               pc'[q] = pc[q] \/ pc'[q] = "dead"
        PROVE  Validated(q)'
    <2>1. Id(q) \in EventId /\ Id(q)' = Id(q) /\ env'[q] = env[q]
      BY <1>3, EnvelopeType1 DEF TypeInv, TypeOK, Id
    <2>2. HashesValid(env[q])' = HashesValid(env[q])
      BY <2>1 DEF HashesValid, canonical_event_without_event_hash, sha256_json
    <2>3. RowHasHash(q) => RowHasHash(q)'
      BY <1>1, <2>1 DEF RowHasHash, RowIdentityKept
    <2> QED
      BY <1>3, <2>2, <2>3 DEF OriginInv, Validated, HashSeen, Acked, InProgress, LedgerStep
  <1>4. ASSUME NEW r \in Request, Handle(r) PROVE OriginInv'
    <2>1. UNCHANGED env
      BY <1>4, RequestMoves
    <2>2. ASSUME NEW id \in EventId PROVE RowOrigin(id)'
      <3>1. CASE rows[id] = NoRow /\ rows'[id] # NoRow
        <4>1. /\ Insert(r) /\ id = Id(r)
              /\ rows'[id].event_sha256 = env[r].event_sha256
              /\ rows'[id].payload_sha256 = env[r].payload_sha256
              /\ rows'[id].raw_envelope_json = Raw(r)
          BY <1>4, <3>1, RowsComeFromInserts
        <4>2. HashesValid(env[r]) /\ env[r] \in Envelope
          BY <4>1 DEF Insert, OriginInv, Validated, InProgress, LedgerStep, TypeInv, TypeOK
        <4> QED
          BY <4>1, <4>2 DEF RowOrigin, Raw, Id
      <3>2. CASE rows'[id] = NoRow
        BY <3>2 DEF RowOrigin
      <3> QED
        BY <1>2, <2>1, <3>1, <3>2
    <2>3. ASSUME NEW q \in Request PROVE Validated(q)'
      BY <1>3, <1>4, <2>1, RequestMoves, ValidatedStep
    <2> QED
      BY <2>2, <2>3 DEF OriginInv
  <1>5. CASE PowerLoss \/ UNCHANGED vars
    <2>1. /\ UNCHANGED <<env, rows, answer>>
          /\ \A q \in Request : pc'[q] = pc[q] \/ pc'[q] = "dead"
      BY <1>5 DEF PowerLoss, vars, ledgervars
    <2>2. \A id \in EventId : RowOrigin(id)'
      BY <2>1 DEF OriginInv, RowOrigin
    <2> QED
      BY <1>3, <2>1, <2>2 DEF OriginInv
  <1> QED
    BY <1>4, <1>5 DEF Next

(* In every configuration and whatever fails, no two events that declare   *)
(* different event hashes are both accepted under one event id: what the   *)
(* service compares in every case, also where it does not verify it.       *)
THEOREM OneEventHashPerIdAlways == Spec => []OneEventHashPerId
  <1>1. OriginInv => OneEventHashPerId
    BY DEF OriginInv, Validated, RowHasHash, OneEventHashPerId
  <1> QED
    BY <1>1, TypeInit, TypeStep, OriginInit, OriginStep, PTL DEF Spec

(* Validated envelopes with one event hash are one envelope: the hash      *)
(* covers every field but itself.                                          *)
LEMMA EventHashDeterminesEnvelope ==
    ASSUME NEW e \in Envelope, NEW f \in Envelope, require_event_hash,
           HashesValid(e), HashesValid(f), e.event_sha256 = f.event_sha256
    PROVE  e = f
  BY IngestServiceAssumption
  DEF HashesValid, EnvelopeType, sha256_json, canonical_event_without_event_hash

-----------------------------------------------------------------------------
(* What failures leave on record.                                          *)

Unfailed(id) == attempts[id]["failed"] = 0

(* A failure on record stays.                                              *)
LEMMA FailuresStay ==
    ASSUME TypeInv, NEW r \in Request, Handle(r), NEW id \in EventId, ~Unfailed(id)
    PROVE  ~Unfailed(id)'
  <1>1. \A s \in AttemptStatus : attempts[id][s] \in Nat
    BY AttemptsType
  <1>2. "failed" \in AttemptStatus
    BY DEF AttemptStatus
  <1>3. CASE UNCHANGED attempts
    BY <1>3 DEF Unfailed
  <1>4. ASSUME NEW t \in AttemptStatus, attempts' = [attempts EXCEPT ![Id(r)][t] = @ + 1]
        PROVE  ~Unfailed(id)'
    BY <1>1, <1>2, <1>4 DEF Unfailed, TypeInv, TypeOK, LedgerTypeOK
  <1> QED
    BY <1>3, <1>4, AttemptMoves

Failing == {"load_failed", "commit_failed", "refresh_failed"}

(* Where a call is failing, or a row shows a failure, one is on record.    *)
ErrorInv ==
    /\ \A r \in Request : pc[r] \in Failing => ~Unfailed(Id(r))
    /\ \A id \in EventId :
          rows[id] # NoRow /\ (rows[id].status = "failed" \/ rows[id].last_error # None) =>
              ~Unfailed(id)

(* mark_stored makes no row "failed" and leaves no error that was not      *)
(* there.                                                                  *)
LEMMA FlushStoredStatus ==
    ASSUME NEW current \in Row, NEW loaded \in Row, NEW uri,
           NEW new, new = Flush(current, loaded, AsStored(loaded, uri))
    PROVE  /\ new.status \in {"stored", current.status}
           /\ new.last_error \in {None, current.last_error}
  BY DEF Flush, AsStored, Row

LEMMA ErrorInit == Init => ErrorInv
  BY DEF Init, LedgerInit, ErrorInv, Failing

LEMMA ErrorStep == TypeInv /\ ErrorInv /\ [Next]_vars => ErrorInv'
  <1> SUFFICES ASSUME TypeInv, ErrorInv, [Next]_vars PROVE ErrorInv'
    OBVIOUS
  <1>1. ASSUME NEW r \in Request, Handle(r) PROVE ErrorInv'
    <2>0. Id(r) \in EventId /\ UNCHANGED env
      BY <1>1, EnvelopeType1, RequestMoves DEF TypeInv, TypeOK, Id
    <2>1. ASSUME NEW q \in Request, pc'[q] \in Failing PROVE ~Unfailed(Id(q))'
      <3>1. Id(q) \in EventId /\ Id(q)' = Id(q)
        BY <2>0, EnvelopeType1 DEF TypeInv, TypeOK, Id
      <3>2. CASE pc[q] \in Failing
        <4>1. ~Unfailed(Id(q))
          BY <3>2 DEF ErrorInv
        <4>2. \A id \in EventId : ~Unfailed(id) => ~Unfailed(id)'
          BY <1>1, FailuresStay
        <4> QED
          BY <3>1, <4>1, <4>2 DEF Unfailed
      <3>3. CASE pc[q] \notin Failing
        <4>1. q = r
          BY <1>1, <2>1, <3>3, RequestMoves
        <4>2. CASE RecordFailed(r)
          <5>1. attempts' = [attempts EXCEPT ![Id(r)]["failed"] = @ + 1]
            BY <4>2 DEF RecordFailed, RecordAttempt
          <5>2. attempts[Id(r)]["failed"] \in Nat
            BY <2>0, AttemptsType DEF AttemptStatus
          <5>3. attempts'[Id(r)]["failed"] = attempts[Id(r)]["failed"] + 1
            BY <2>0, <5>1 DEF TypeInv, TypeOK, LedgerTypeOK, AttemptStatus
          <5> QED
            BY <3>1, <4>1, <5>2, <5>3 DEF Unfailed
        <4>3. CASE Submit(r)
          <5>1. pc' = [pc EXCEPT ![r] = "lookup"] \/ pc' = [pc EXCEPT ![r] = "done"]
            BY <4>3 DEF Submit, Goto, Answer
          <5> QED
            BY <2>1, <4>1, <5>1 DEF Failing, TypeInv, TypeOK
        <4>4. CASE Lookup(r) \/ Reread(r) \/ WriteRawEvent(r)
          <5>1. /\ pc' = [pc EXCEPT ![r] = pc'[r]]
                /\ pc'[r] \notin Failing
            BY <4>4 DEF Lookup, Reread, HandleExisting, WriteRawEvent, StoreAndMark, Goto, Failing,
               TypeInv, TypeOK
          <5> QED
            BY <2>1, <4>1, <5>1
        <4>5. CASE \/ Insert(r) \/ LoadForStored(r) \/ CommitStored(r) \/ Refresh(r) \/ Crash(r)
                   \/ RecordConflict(r) \/ RecordDuplicate(r) \/ RecordStored(r)
                   \/ RefreshFailed(r) \/ LedgerFault(r)
          BY <2>1, <4>1, <4>5
          DEF Insert, LoadForStored, CommitStored, Refresh, Crash, RecordConflict,
              RecordDuplicate, RecordStored, RefreshFailed, LedgerFault, Goto, Answer, Failing,
              TypeInv, TypeOK
        <4>6. CASE LoadForFailed(r) \/ CommitFailed(r)
          BY <3>3, <4>1, <4>6 DEF LoadForFailed, CommitFailed, Failing
        <4> QED
          BY <1>1, <4>2, <4>3, <4>4, <4>5, <4>6 DEF Handle
      <3> QED
        BY <3>2, <3>3
    <2>2. ASSUME NEW id \in EventId, rows'[id] # NoRow,
                 rows'[id].status = "failed" \/ rows'[id].last_error # None
          PROVE  ~Unfailed(id)'
      <3>1. ~Unfailed(id) => ~Unfailed(id)'
        BY <1>1, FailuresStay
      <3>2. CASE rows'[id] = rows[id]
        BY <2>2, <3>1, <3>2 DEF ErrorInv
      <3>3. CASE Insert(r)
        <4>1. \/ rows' = rows
              \/ rows' = [rows EXCEPT ![Id(r)] =
                             ReceivedRow(env[r].event_sha256, env[r].payload_sha256, Raw(r))]
          BY <3>3 DEF Insert, InsertReceived
        <4> QED
          BY <2>0, <2>2, <3>2, <4>1 DEF ReceivedRow, TypeInv, TypeOK, LedgerTypeOK
      <3>4. CASE CommitStored(r)
        <4> DEFINE new == Flush(rows[Id(r)], snap[r], AsStored(snap[r], PathFor(env[r])))
        <4>1. rows[Id(r)] \in Row /\ snap[r] \in Row
          BY <2>0, <3>4 DEF CommitStored, TypeInv, TypeOK, LedgerTypeOK, RowPresent, SnapPresent,
             UsesSnap, PastInsert, InProgress, LedgerStep
        <4>2. /\ new.status \in {"stored", rows[Id(r)].status}
              /\ new.last_error \in {None, rows[Id(r)].last_error}
          BY <4>1, FlushStoredStatus
        <4>3. rows' = [rows EXCEPT ![Id(r)] = new]
          BY <3>4 DEF CommitStored, CommitUpdate
        <4>4. rows[Id(r)] # NoRow
          BY <4>1, IngestServiceAssumption
        <4> HIDE DEF new
        <4>5. CASE id # Id(r)
          BY <3>2, <4>3, <4>5 DEF TypeInv, TypeOK, LedgerTypeOK
        <4>6. CASE id = Id(r)
          <5>1. rows'[id] = new
            BY <4>3, <4>6 DEF TypeInv, TypeOK, LedgerTypeOK
          <5> QED
            BY <2>2, <3>1, <4>2, <4>4, <4>6, <5>1 DEF ErrorInv
        <4> QED
          BY <4>5, <4>6
      <3>5. CASE CommitFailed(r)
        <4>1. CASE id = Id(r)
          <5>1. ~Unfailed(Id(r))
            BY <3>5 DEF CommitFailed, ErrorInv, Failing
          <5> QED
            BY <3>1, <4>1, <5>1
        <4>2. CASE id # Id(r)
          BY <3>2, <3>5, <4>2, UpdatedRow
        <4> QED
          BY <4>1, <4>2
      <3> QED
        BY <1>1, <3>2, <3>3, <3>4, <3>5
        DEF Handle, ledgervars, Submit, Lookup, Reread, RecordConflict, RecordDuplicate,
            WriteRawEvent, LoadForStored, Refresh, RecordStored, RecordFailed,
            LoadForFailed, RefreshFailed, LedgerFault, Crash
    <2> QED
      BY <2>1, <2>2 DEF ErrorInv
  <1>2. CASE PowerLoss \/ UNCHANGED vars
    <2>1. /\ UNCHANGED <<env, rows, attempts>>
          /\ \A q \in Request : pc'[q] = pc[q] \/ pc'[q] = "dead"
      BY <1>2 DEF PowerLoss, vars, ledgervars, TypeInv, TypeOK
    <2> QED
      BY <2>1 DEF ErrorInv, Failing, Unfailed, Id
  <1> QED
    BY <1>1, <1>2 DEF Next

-----------------------------------------------------------------------------
(* The ids whose calls have come one after the other so far.               *)

OneAtATime ==
    \A q, r \in Request :
        pc[q] \in InProgress /\ pc[r] \in InProgress /\ Id(q) = Id(r) =>
            q = r \/ Id(r) \in overlapped

(* A stored row names its object and carries no error.                     *)
RowSettled(id) ==
    rows[id] # NoRow /\ rows[id].status = "stored" =>
        rows[id].storage_uri # None /\ rows[id].last_error = None

(* The steps of a call whose event is not stored yet, and of one whose     *)
(* event is.                                                               *)
Unfinished == {"reread", "write", "load_stored", "commit_stored", "record_failed",
               "load_failed", "commit_failed", "refresh_failed"}
Finished == {"record_duplicate", "refresh", "record_stored"}

(* Nobody else touches the row while a call is on its way: what it found   *)
(* out about the row, and what it read of it, is so still.                 *)
Serial(r) ==
    /\ pc[r] = "insert" => rows[Id(r)] = NoRow
    /\ pc[r] \in Unfinished => RowMatches(r) /\ rows[Id(r)].status # "stored"
    /\ pc[r] \in {"commit_stored", "commit_failed"} => snap[r] = rows[Id(r)]
    /\ pc[r] \in Finished => RowAccepts(r)

(* An acknowledgement rests on a row that accepts the event ever after ... *)
AnswerKnown(r) == Acked(r) => HashesValid(env[r]) /\ RowAccepts(r)

(* ... so that a replay takes the short cut.                               *)
ReplayKnown(r) ==
    replayed[r] # "no" =>
        /\ HashesValid(env[r]) /\ RowAccepts(r)
        /\ pc[r] \in {"lookup", "record_duplicate", "done", "dead"}
        /\ pc[r] = "done" => AnsweredAsReplay(r)

RequestSerial(r) == Serial(r) /\ AnswerKnown(r) /\ ReplayKnown(r)

SerialInv ==
    /\ OneAtATime
    /\ \A id \in EventId \ overlapped : RowSettled(id)
    /\ \A r \in Request : Id(r) \notin overlapped => RequestSerial(r)

StoredKept ==
    \A id \in EventId \ overlapped :
        rows[id] # NoRow /\ rows[id].status = "stored" => rows'[id].status = "stored"

(* Only a call that comes in adds to the ghosts, and it changes no row.    *)
LEMMA GhostsStay ==
    ASSUME TypeInv, NEW r \in Request, Handle(r)
    PROVE  /\ overlapped \subseteq overlapped'
           /\ \A q \in Request \ {r} : replayed'[q] = replayed[q]
           /\ UNCHANGED <<overlapped, replayed>> \/ Submit(r)
  <1>1. CASE Submit(r)
    BY <1>1, SubmitGhosts DEF TypeInv
  <1>2. CASE ~Submit(r)
    BY <1>2
    DEF Handle, Lookup, Insert, Reread, RecordConflict, RecordDuplicate, WriteRawEvent,
        LoadForStored, CommitStored, Refresh, RecordStored, RecordFailed,
        LoadForFailed, CommitFailed, RefreshFailed, LedgerFault, Crash
  <1> QED
    BY <1>1, <1>2

(* A step of a call changes no row but that of its own id.                 *)
LEMMA OtherRowsStay ==
    ASSUME TypeInv, NEW r \in Request, Handle(r), NEW id \in EventId, id # Id(r)
    PROVE  rows'[id] = rows[id]
  <1>1. CASE Insert(r)
    BY <1>1 DEF Insert, InsertReceived, TypeInv, TypeOK, LedgerTypeOK
  <1>2. CASE CommitStored(r) \/ CommitFailed(r)
    BY <1>2, UpdatedRow
  <1> QED
    BY <1>1, <1>2
    DEF Handle, ledgervars, Submit, Lookup, Reread, RecordConflict, RecordDuplicate,
        WriteRawEvent, LoadForStored, Refresh, RecordStored, RecordFailed,
        LoadForFailed, RefreshFailed, LedgerFault, Crash

(* A request that is not on its way keeps what it knows, as long as rows   *)
(* keep their identity and stored rows stay stored.                        *)
LEMMA RestingKnows ==
    ASSUME TypeInv, SerialInv, RowIdentityKept, StoredKept, NEW q \in Request,
           Id(q) \notin overlapped,
           UNCHANGED env, pc'[q] \in {pc[q], "dead"}, pc'[q] \notin InProgress,
           answer'[q] = answer[q], replayed'[q] = replayed[q]
    PROVE  RequestSerial(q)'
  <1>1. Id(q) \in EventId /\ Id(q)' = Id(q) /\ env'[q] = env[q]
    BY EnvelopeType1 DEF TypeInv, TypeOK, Id
  <1>2. RowAccepts(q) => RowAccepts(q)'
    BY <1>1 DEF RowAccepts, RowMatches, RowHasHash, RowIdentityKept, StoredKept
  <1>3. HashesValid(env[q])' = HashesValid(env[q])
    BY <1>1 DEF HashesValid, canonical_event_without_event_hash, sha256_json
  <1>4. Serial(q)'
    BY DEF Serial, Unfinished, Finished, InProgress, LedgerStep
  <1>5. AnswerKnown(q)'
    BY <1>2, <1>3 DEF SerialInv, RequestSerial, AnswerKnown, Acked
  <1>6. ReplayKnown(q)'
    BY <1>2, <1>3 DEF SerialInv, RequestSerial, ReplayKnown, AnsweredAsReplay, InProgress, LedgerStep
  <1> QED
    BY <1>4, <1>5, <1>6 DEF RequestSerial

(* A call of another id makes no difference at all.                        *)
LEMMA OtherIdsKnow ==
    ASSUME TypeInv, SerialInv, NEW q \in Request, Id(q) \notin overlapped,
           UNCHANGED env, rows'[Id(q)] = rows[Id(q)],
           pc'[q] = pc[q], snap'[q] = snap[q], answer'[q] = answer[q],
           replayed'[q] = replayed[q]
    PROVE  RequestSerial(q)'
  <1>1. Id(q)' = Id(q) /\ env'[q] = env[q]
    BY DEF Id
  <1>2. HashesValid(env[q])' = HashesValid(env[q])
    BY <1>1 DEF HashesValid, canonical_event_without_event_hash, sha256_json
  <1>3. RowMatches(q)' = RowMatches(q) /\ RowAccepts(q)' = RowAccepts(q)
    BY <1>1 DEF RowMatches, RowAccepts, RowHasHash
  <1>4. RequestSerial(q)
    BY DEF SerialInv
  <1> QED
    BY <1>1, <1>2, <1>3, <1>4
    DEF RequestSerial, Serial, AnswerKnown, ReplayKnown, AnsweredAsReplay, Acked

(* The two updates, done on the row as it was loaded.                      *)
LEMMA FlushCurrent ==
    ASSUME NEW row \in Row, NEW uri, NEW error
    PROVE  /\ Flush(row, row, AsStored(row, uri)) = AsStored(row, uri)
           /\ Flush(row, row, AsFailed(row, error)) = AsFailed(row, error)
  BY DEF Flush, AsStored, AsFailed, Row

(* How a call that is alone with its id changes its row.                   *)
LEMMA SerialRow ==
    ASSUME TypeInv, SerialInv, NEW r \in Request, Handle(r), Id(r) \notin overlapped
    PROVE  \/ UNCHANGED rows
           \/ /\ Insert(r) /\ rows[Id(r)] = NoRow
              /\ rows' = [rows EXCEPT ![Id(r)] =
                             ReceivedRow(env[r].event_sha256, env[r].payload_sha256, Raw(r))]
           \/ /\ CommitStored(r) /\ rows[Id(r)] \in Row
              /\ rows' = [rows EXCEPT ![Id(r)] = AsStored(rows[Id(r)], PathFor(env[r]))]
           \/ /\ CommitFailed(r) /\ rows[Id(r)] \in Row /\ rows[Id(r)].status # "stored"
              /\ \E error : rows' = [rows EXCEPT ![Id(r)] = AsFailed(rows[Id(r)], error)]
  <1>1. Id(r) \in EventId
    BY EnvelopeType1 DEF TypeInv, TypeOK, Id
  <1>2. CASE Insert(r)
    BY <1>2 DEF Insert, InsertReceived
  <1>3. CASE CommitStored(r) \/ CommitFailed(r)
    <2>1. rows[Id(r)] \in Row /\ snap[r] = rows[Id(r)] /\ rows[Id(r)].status # "stored"
      BY <1>1, <1>3
      DEF CommitStored, CommitFailed, TypeInv, TypeOK, LedgerTypeOK, RowPresent, PastInsert,
          InProgress, LedgerStep, SerialInv, RequestSerial, Serial, Unfinished
    <2> QED
      BY <1>3, <2>1, FlushCurrent DEF CommitStored, CommitFailed, CommitUpdate
  <1> QED
    BY <1>2, <1>3
    DEF Handle, ledgervars, Submit, Lookup, Reread, RecordConflict, RecordDuplicate,
        WriteRawEvent, LoadForStored, Refresh, RecordStored, RecordFailed,
        LoadForFailed, RefreshFailed, LedgerFault, Crash

(* The row of such an id stays stored and is settled.                      *)
LEMMA SerialRowsStep ==
    ASSUME TypeInv, SerialInv, [Next]_vars
    PROVE  StoredKept /\ \A id \in EventId \ overlapped : RowSettled(id)'
  <1>1. ASSUME UNCHANGED rows
        PROVE  StoredKept /\ \A id \in EventId \ overlapped : RowSettled(id)'
    BY <1>1 DEF StoredKept, SerialInv, RowSettled
  <1>2. ASSUME NEW r \in Request, Handle(r), NEW id \in EventId \ overlapped
        PROVE  /\ rows[id] # NoRow /\ rows[id].status = "stored" => rows'[id].status = "stored"
               /\ RowSettled(id)'
    <2>1. Id(r) \in EventId /\ PathFor(env[r]) # None
      BY EnvelopeType1, IngestServiceAssumption DEF TypeInv, TypeOK, Id
    <2>2. CASE rows'[id] = rows[id]
      BY <1>2, <2>2 DEF SerialInv, RowSettled
    <2>3. CASE id = Id(r) /\ ~UNCHANGED rows
      <3>1. PICK new : /\ rows' = [rows EXCEPT ![Id(r)] = new]
                       /\ \/ rows[Id(r)] = NoRow /\ new.status # "stored"
                          \/ rows[Id(r)].status # "stored" /\ new.status # "stored"
                          \/ /\ new.status = "stored" /\ new.storage_uri # None
                             /\ new.last_error = None
        <4>1. ReceivedRow(env[r].event_sha256, env[r].payload_sha256, Raw(r)).status # "stored"
          BY DEF ReceivedRow
        <4>2. ASSUME rows[Id(r)] \in Row
              PROVE  /\ AsStored(rows[Id(r)], PathFor(env[r])).status = "stored"
                     /\ AsStored(rows[Id(r)], PathFor(env[r])).storage_uri # None
                     /\ AsStored(rows[Id(r)], PathFor(env[r])).last_error = None
                     /\ \A error : AsFailed(rows[Id(r)], error).status # "stored"
          BY <2>1, <4>2 DEF AsStored, AsFailed, Row
        <4>3. Id(r) \notin overlapped
          BY <1>2, <2>3
        <4> QED
          BY <1>2, <2>3, <4>1, <4>2, <4>3, SerialRow
      <3>2. rows'[id] = new
        BY <2>1, <2>3, <3>1 DEF TypeInv, TypeOK, LedgerTypeOK
      <3> QED
        BY <2>3, <3>1, <3>2 DEF RowSettled
    <2> QED
      BY <1>2, <2>2, <2>3, OtherRowsStay
  <1> QED
    BY <1>1, <1>2 DEF Next, PowerLoss, vars, ledgervars, StoredKept

(* What a call comes in with, if its event was acknowledged or stored.     *)
LEMMA ReplayStarts ==
    ASSUME TypeInv, OriginInv, SerialInv, NEW r \in Request, Id(r) \notin overlapped,
           Replays(r) # "no"
    PROVE  HashesValid(env[r]) /\ RowAccepts(r)
  <1>1. env[r] \in Envelope /\ Id(r) \in EventId
    BY EnvelopeType1 DEF TypeInv, TypeOK, Id
  <1>2. ASSUME NEW x \in Request, Acked(x), env[x] = env[r]
        PROVE  HashesValid(env[r]) /\ RowAccepts(r)
    <2>1. AnswerKnown(x) /\ Id(x) = Id(r)
      BY <1>2 DEF SerialInv, RequestSerial, Id
    <2> QED
      BY <1>2, <2>1 DEF AnswerKnown, RowAccepts, RowMatches, RowHasHash
  <1>3. CASE StoredBefore(r)
    <2>1. rows[Id(r)] # NoRow /\ RowOrigin(Id(r))
      BY <1>1, <1>3 DEF StoredBefore, OriginInv
    <2>2. PICK e \in Envelope :
            /\ HashesValid(e) /\ e.event_id = Id(r)
            /\ rows[Id(r)].event_sha256 = e.event_sha256
            /\ rows[Id(r)].payload_sha256 = e.payload_sha256
            /\ rows[Id(r)].raw_envelope_json = canonical_json_text(e)
      BY <2>1 DEF RowOrigin
    <2>3. canonical_json_text(e) = canonical_json_text(env[r])
      BY <1>3, <2>2 DEF StoredBefore, Raw
    <2>4. e = env[r]
      BY <1>1, <2>3, TextAndPath
    <2> QED
      BY <1>3, <2>1, <2>2, <2>4 DEF StoredBefore, RowAccepts, RowMatches, RowHasHash
  <1>4. Acknowledged(r) \/ StoredBefore(r)
    BY DEF Replays
  <1> QED
    BY <1>2, <1>3, <1>4 DEF Acknowledged, Acked

(* What the call that takes a step knows afterwards.                       *)
LEMMA SerialRequestStep ==
    ASSUME TypeInv, OriginInv, SerialInv, RowIdentityKept, StoredKept,
           NEW r \in Request, Handle(r), Id(r) \notin overlapped
    PROVE  RequestSerial(r)'
  <1>0. /\ Id(r) \in EventId /\ Id(r)' = Id(r) /\ env'[r] = env[r] /\ UNCHANGED env
        /\ env[r] \in Envelope
    BY RequestMoves, EnvelopeType1 DEF TypeInv, TypeOK, Id
  <1>1. HashesValid(env[r])' = HashesValid(env[r])
    BY <1>0 DEF HashesValid, canonical_event_without_event_hash, sha256_json
  <1>2. /\ RowMatches(r) => RowMatches(r)'
        /\ RowAccepts(r) => RowAccepts(r)'
    BY <1>0 DEF RowAccepts, RowMatches, RowHasHash, RowIdentityKept, StoredKept
  <1>3. RequestSerial(r) /\ (pc[r] \in InProgress => HashesValid(env[r]))
    BY DEF SerialInv, OriginInv, Validated
  <1>4. UNCHANGED rows => (RowMatches(r)' = RowMatches(r) /\ RowAccepts(r)' = RowAccepts(r))
    BY <1>0 DEF RowAccepts, RowMatches, RowHasHash
  <1> USE DEF Goto, Answer, ReadRow, TypeInv, TypeOK
  <1>5. CASE Submit(r)
    <2>1. Replays(r) # "no" => HashesValid(env[r]) /\ RowAccepts(r)
      BY ReplayStarts
    <2>2. replayed'[r] = Replays(r) /\ UNCHANGED rows
      BY <1>5, SubmitGhosts DEF Submit, ledgervars
    <2>3. \/ pc' = [pc EXCEPT ![r] = "lookup"] /\ answer' = answer /\ HashesValid(env[r])
          \/ /\ pc' = [pc EXCEPT ![r] = "done"] /\ ~HashesValid(env[r])
             /\ answer' = [answer EXCEPT ![r] =
                             [status |-> "invalid_hash", storage_uri |-> None]]
      BY <1>5 DEF Submit
    <2>4. Serial(r)' /\ AnswerKnown(r)'
      BY <1>1, <1>2, <1>3, <2>3
      DEF RequestSerial, Serial, AnswerKnown, Acked, Success, Unfinished, Finished
    <2>5. ReplayKnown(r)'
      BY <1>1, <1>2, <2>1, <2>2, <2>3 DEF ReplayKnown
    <2> QED
      BY <2>4, <2>5 DEF RequestSerial
  <1>6. CASE Lookup(r)
    <2>1. /\ pc[r] = "lookup" /\ UNCHANGED <<rows, answer, replayed>>
          /\ snap' = [snap EXCEPT ![r] = rows[Id(r)]]
          /\ pc' = [pc EXCEPT ![r] = pc'[r]]
          /\ \/ pc'[r] = "insert" /\ rows[Id(r)] = NoRow
             \/ pc'[r] = "record_conflict" /\ ~RowMatches(r)
             \/ pc'[r] = "record_duplicate" /\ RowAccepts(r)
             \/ pc'[r] = "write" /\ RowMatches(r) /\ rows[Id(r)].status # "stored"
      BY <1>0, <1>6
      DEF Lookup, HandleExisting, ledgervars, RowMatches, RowAccepts, RowHasHash, SerialInv, RowSettled
    <2>2. HashesValid(env[r])
      BY <1>3, <2>1 DEF InProgress, LedgerStep
    <2>3. Serial(r)'
      BY <1>0, <1>1, <1>2, <2>1, <2>2 DEF Serial, Unfinished, Finished
    <2>4. AnswerKnown(r)'
      BY <1>1, <1>2, <1>3, <2>1 DEF RequestSerial, AnswerKnown, Acked
    <2>5. ReplayKnown(r)'
      BY <1>1, <1>2, <1>3, <2>1 DEF RequestSerial, ReplayKnown, RowAccepts, RowMatches, RowHasHash
    <2> QED
      BY <2>3, <2>4, <2>5 DEF RequestSerial
  <1>7. CASE Insert(r)
    <2>1. /\ pc[r] = "insert" /\ pc' = [pc EXCEPT ![r] = "reread"]
          /\ UNCHANGED <<answer, replayed>>
      BY <1>7 DEF Insert
    <2>2. rows[Id(r)] = NoRow /\ replayed[r] = "no"
      BY <1>3, <2>1 DEF RequestSerial, Serial, ReplayKnown
    <2>3. rows'[Id(r)] = ReceivedRow(env[r].event_sha256, env[r].payload_sha256, Raw(r))
      BY <1>0, <1>7, <2>2 DEF Insert, InsertReceived, LedgerTypeOK
    <2>4. rows'[Id(r)] # NoRow
      BY <1>0, <2>3, ReceivedRowType, IngestServiceAssumption DEF Raw
    <2>5. RowMatches(r)' /\ rows'[Id(r)].status # "stored"
      BY <1>0, <2>3, <2>4 DEF RowMatches, RowHasHash, ReceivedRow
    <2>6. Serial(r)'
      BY <1>0, <2>1, <2>5 DEF Serial, Finished
    <2>7. AnswerKnown(r)' /\ ReplayKnown(r)'
      BY <1>1, <1>2, <1>3, <2>1, <2>2 DEF RequestSerial, AnswerKnown, Acked, ReplayKnown
    <2> QED
      BY <2>6, <2>7 DEF RequestSerial
  <1>8. CASE \/ Reread(r) \/ WriteRawEvent(r) \/ LoadForStored(r) \/ RecordFailed(r)
             \/ LoadForFailed(r)
    <2>1. /\ pc[r] \in Unfinished \ {"commit_stored", "commit_failed", "refresh_failed"}
          /\ pc' = [pc EXCEPT ![r] = pc'[r]]
          /\ pc'[r] \in Unfinished
          /\ pc'[r] \in {"commit_stored", "commit_failed"} =>
                snap' = [snap EXCEPT ![r] = rows[Id(r)]]
          /\ UNCHANGED <<rows, answer, replayed>>
      BY <1>3, <1>8
      DEF Reread, WriteRawEvent, LoadForStored, RecordFailed, LoadForFailed, StoreAndMark,
          ledgervars, Unfinished, RequestSerial, Serial, RowMatches, RowHasHash
    <2>2. replayed[r] = "no" /\ RowMatches(r) /\ rows[Id(r)].status # "stored"
      BY <1>3, <2>1 DEF RequestSerial, Serial, ReplayKnown, Unfinished
    <2>3. Serial(r)'
      BY <1>0, <1>1, <1>2, <2>1, <2>2 DEF Serial, Unfinished, Finished
    <2>4. AnswerKnown(r)' /\ ReplayKnown(r)'
      BY <1>1, <1>2, <1>3, <2>1, <2>2 DEF RequestSerial, AnswerKnown, Acked, ReplayKnown
    <2> QED
      BY <2>3, <2>4 DEF RequestSerial
  <1>9. CASE CommitStored(r) \/ CommitFailed(r)
    <2>1. /\ pc[r] \in {"commit_stored", "commit_failed"}
          /\ \/ CommitStored(r) /\ pc' = [pc EXCEPT ![r] = "refresh"]
             \/ CommitFailed(r) /\ pc' = [pc EXCEPT ![r] = "refresh_failed"]
          /\ UNCHANGED <<answer, replayed>>
      BY <1>9 DEF CommitStored, CommitFailed
    <2>2. replayed[r] = "no" /\ RowMatches(r) /\ snap[r] = rows[Id(r)] /\ rows[Id(r)] \in Row
      BY <1>0, <1>3, <2>1
      DEF RequestSerial, Serial, ReplayKnown, Unfinished, RowMatches, RowHasHash, LedgerTypeOK
    <2>3. /\ CommitStored(r) => rows'[Id(r)].status = "stored"
          /\ CommitFailed(r) => rows'[Id(r)].status # "stored"
      <3>1. /\ CommitStored(r) =>
                  rows' = [rows EXCEPT ![Id(r)] = AsStored(rows[Id(r)], PathFor(env[r]))]
            /\ CommitFailed(r) =>
                  \E error : rows' = [rows EXCEPT ![Id(r)] = AsFailed(rows[Id(r)], error)]
        <4>1. CASE CommitStored(r)
          BY <2>1, <2>2, <4>1, FlushCurrent DEF CommitStored, CommitFailed, CommitUpdate
        <4>2. CASE CommitFailed(r)
          <5> DEFINE error == IF wpc[r] = "conflict" THEN "conflict" ELSE "io"
          <5>1. rows' = [rows EXCEPT ![Id(r)] = Flush(rows[Id(r)], snap[r], AsFailed(snap[r], error))]
            BY <4>2 DEF CommitFailed, CommitUpdate
          <5>2. Flush(rows[Id(r)], snap[r], AsFailed(snap[r], error)) = AsFailed(rows[Id(r)], error)
            BY <2>2, FlushCurrent
          <5>3. ~CommitStored(r)
            BY <4>2 DEF CommitStored, CommitFailed
          <5> HIDE DEF error
          <5> QED
            BY <5>1, <5>2, <5>3
        <4> QED
          BY <4>1, <4>2
      <3>2. /\ AsStored(rows[Id(r)], PathFor(env[r])).status = "stored"
            /\ \A error : AsFailed(rows[Id(r)], error).status # "stored"
        BY <2>2 DEF AsStored, AsFailed, Row
      <3> QED
        BY <1>0, <3>1, <3>2 DEF LedgerTypeOK
    <2>4. Serial(r)'
      BY <1>0, <1>2, <2>1, <2>2, <2>3 DEF Serial, Unfinished, Finished, RowAccepts
    <2>5. AnswerKnown(r)' /\ ReplayKnown(r)'
      BY <1>1, <1>2, <1>3, <2>1, <2>2 DEF RequestSerial, AnswerKnown, Acked, ReplayKnown
    <2> QED
      BY <2>4, <2>5 DEF RequestSerial
  <1>10. CASE Refresh(r)
    <2>1. /\ pc[r] = "refresh" /\ pc' = [pc EXCEPT ![r] = "record_stored"]
          /\ UNCHANGED <<answer, replayed, rows>>
      BY <1>10 DEF Refresh, ledgervars
    <2>2. replayed[r] = "no" /\ RowAccepts(r)
      BY <1>3, <2>1 DEF RequestSerial, Serial, ReplayKnown, Finished
    <2> QED
      BY <1>1, <1>2, <1>3, <2>1, <2>2
      DEF RequestSerial, Serial, AnswerKnown, ReplayKnown, Unfinished, Acked
  <1>11. CASE RecordDuplicate(r) \/ RecordStored(r)
    <2>1. /\ pc[r] \in {"record_duplicate", "record_stored"}
          /\ pc' = [pc EXCEPT ![r] = "done"]
          /\ pc[r] = "record_duplicate" => answer'[r].status = "duplicate"
          /\ UNCHANGED <<replayed, rows>>
      BY <1>11 DEF RecordDuplicate, RecordStored
    <2>2. /\ HashesValid(env[r]) /\ RowAccepts(r)
          /\ replayed[r] # "no" => pc[r] = "record_duplicate"
      BY <1>3, <2>1 DEF RequestSerial, Serial, ReplayKnown, Finished, InProgress, LedgerStep
    <2> QED
      BY <1>1, <1>2, <2>1, <2>2
      DEF RequestSerial, Serial, AnswerKnown, ReplayKnown, AnsweredAsReplay, Unfinished, Finished
  <1>12. CASE RecordConflict(r) \/ RefreshFailed(r) \/ LedgerFault(r) \/ Crash(r)
    <2>1. /\ pc[r] \in InProgress /\ UNCHANGED replayed
          /\ \/ pc' = [pc EXCEPT ![r] = "dead"] /\ UNCHANGED answer
             \/ /\ pc' = [pc EXCEPT ![r] = "done"] /\ answer'[r].status \notin Success
                /\ \/ answer'[r].status = "server_error"
                   \/ pc[r] \in {"record_conflict", "refresh_failed"}
      BY <1>12 DEF RecordConflict, RefreshFailed, LedgerFault, Crash, Success, InProgress, LedgerStep
    <2>2. replayed[r] # "no" => pc[r] \in {"lookup", "record_duplicate"}
      BY <1>3, <2>1 DEF RequestSerial, ReplayKnown, InProgress, LedgerStep
    <2>3. Serial(r)'
      BY <2>1 DEF Serial, Unfinished, Finished
    <2>4. AnswerKnown(r)' /\ ReplayKnown(r)'
      BY <1>1, <1>2, <1>3, <2>1, <2>2
      DEF RequestSerial, AnswerKnown, Acked, ReplayKnown, AnsweredAsReplay
    <2> QED
      BY <2>3, <2>4 DEF RequestSerial
  <1> QED
    BY <1>5, <1>6, <1>7, <1>8, <1>9, <1>10, <1>11, <1>12 DEF Handle

LEMMA SerialInit == Init => SerialInv
  BY DEF Init, LedgerInit, SerialInv, OneAtATime, RowSettled, RequestSerial, Serial, AnswerKnown,
     ReplayKnown, Acked, Success, Unfinished, Finished, InProgress, LedgerStep

LEMMA SerialStep == TypeInv /\ OriginInv /\ SerialInv /\ [Next]_vars => SerialInv'
  <1> SUFFICES ASSUME TypeInv, OriginInv, SerialInv, [Next]_vars PROVE SerialInv'
    OBVIOUS
  <1>1. RowIdentityKept /\ StoredKept /\ \A id \in EventId \ overlapped : RowSettled(id)'
    BY RowIdentityStep, SerialRowsStep
  <1>2. ASSUME NEW r \in Request, Handle(r) PROVE SerialInv'
    <2>1. /\ UNCHANGED env /\ overlapped \subseteq overlapped'
          /\ \A q \in Request \ {r} :
                /\ pc'[q] = pc[q] /\ snap'[q] = snap[q] /\ answer'[q] = answer[q]
                /\ replayed'[q] = replayed[q]
      BY <1>2, RequestMoves, GhostsStay
    <2>2. \A q \in Request : Id(q)' = Id(q) /\ Id(q) \in EventId
      BY <2>1, EnvelopeType1 DEF TypeInv, TypeOK, Id
    <2>3. ASSUME NEW q \in Request \ {r}, Id(q) = Id(r), Id(r) \notin overlapped'
          PROVE  pc[q] \notin InProgress
      <3>1. CASE Submit(r)
        BY <2>3, <3>1, SubmitGhosts DEF Overlaps, TypeInv
      <3>2. CASE pc[r] \in InProgress
        BY <2>1, <2>3, <3>2 DEF SerialInv, OneAtATime
      <3> QED
        BY <1>2, <3>1, <3>2
        DEF Handle, Lookup, Insert, Reread, RecordConflict, RecordDuplicate, WriteRawEvent,
            LoadForStored, CommitStored, Refresh, RecordStored, RecordFailed,
            LoadForFailed, CommitFailed, RefreshFailed, LedgerFault, Crash, InProgress, LedgerStep
    <2>4. OneAtATime'
      <3>1. SUFFICES ASSUME NEW p \in Request, NEW q \in Request, p # q,
                            pc'[p] \in InProgress, pc'[q] \in InProgress,
                            Id(p) = Id(q), Id(q) \notin overlapped'
                     PROVE  FALSE
        BY <2>2 DEF OneAtATime
      <3>2. CASE p = r
        BY <2>1, <2>3, <3>1, <3>2
      <3>3. CASE q = r
        BY <2>1, <2>3, <3>1, <3>3
      <3>4. CASE p # r /\ q # r
        BY <2>1, <3>1, <3>4 DEF SerialInv, OneAtATime
      <3> QED
        BY <3>2, <3>3, <3>4
    <2>5. ASSUME NEW q \in Request, Id(q)' \notin overlapped' PROVE RequestSerial(q)'
      <3>0. Id(q) \notin overlapped' /\ Id(q) \notin overlapped
        BY <2>1, <2>2, <2>5
      <3>1. CASE q = r
        BY <1>1, <1>2, <3>0, <3>1, SerialRequestStep
      <3>2. CASE q # r /\ Id(q) = Id(r)
        BY <1>1, <2>1, <2>3, <3>0, <3>2, RestingKnows
      <3>3. CASE Id(q) # Id(r)
        <4>1. rows'[Id(q)] = rows[Id(q)] /\ q # r
          BY <1>2, <2>2, <3>3, OtherRowsStay
        <4> QED
          BY <2>1, <3>0, <4>1, OtherIdsKnow
      <3> QED
        BY <3>1, <3>2, <3>3
    <2> QED
      BY <1>1, <2>1, <2>4, <2>5 DEF SerialInv
  <1>3. CASE PowerLoss
    <2>1. /\ UNCHANGED <<env, answer, replayed, overlapped>>
          /\ \A q \in Request : pc'[q] \in {pc[q], "dead"} /\ pc'[q] \notin InProgress
      BY <1>3 DEF PowerLoss, InProgress, LedgerStep
    <2>2. OneAtATime'
      BY <2>1 DEF OneAtATime
    <2>3. \A q \in Request : Id(q)' = Id(q)
      BY <2>1 DEF Id
    <2> QED
      BY <1>1, <2>1, <2>2, <2>3, RestingKnows DEF SerialInv
  <1>4. CASE UNCHANGED vars
    BY <1>4 DEF vars, ledgervars, SerialInv, OneAtATime, RowSettled, RequestSerial, Serial,
       AnswerKnown, ReplayKnown, AnsweredAsReplay, RowAccepts, RowMatches, RowHasHash, Acked,
       HashesValid, Id
  <1> QED
    BY <1>2, <1>3, <1>4 DEF Next

THEOREM Invariants == Spec => [](TypeInv /\ OriginInv /\ ErrorInv /\ SerialInv)
  BY TypeInit, TypeStep, OriginInit, OriginStep, ErrorInit, ErrorStep, SerialInit, SerialStep, PTL
  DEF Spec

(* In every configuration and whatever fails, crashes or loses power: as   *)
(* long as the calls of an event id have come one after the other, what    *)
(* was acknowledged or stored before is answered "duplicate" when it comes *)
(* again, or the ledger fails.  Concurrency with other ids is no matter.   *)
THEOREM OnlyOverlapSpoilsReplayEver == Spec => []OnlyOverlapSpoilsReplay
  <1>1. SerialInv => OnlyOverlapSpoilsReplay
    BY DEF SerialInv, RequestSerial, ReplayKnown, OnlyOverlapSpoilsReplay
  <1> QED
    BY <1>1, Invariants, PTL

(* In every configuration the ledger takes back that an event is stored    *)
(* only for a failure that is on record, of a call that overlapped another *)
(* call of the id, and it never forgets the URI.                           *)
THEOREM StoredTakenBackOnlyForFailure == Spec => StoredIsTakenBackForFailure
  <1>1. TypeInv /\ ErrorInv /\ SerialInv /\ [Next]_vars => StoredRowKept
    <2> SUFFICES ASSUME TypeInv, ErrorInv, SerialInv, [Next]_vars,
                        NEW id \in EventId, rows[id] # NoRow
                 PROVE  /\ rows[id].storage_uri # None => rows'[id].storage_uri # None
                        /\ rows[id].status = "stored" =>
                              \/ rows'[id].status = "stored"
                              \/ attempts[id]["failed"] > 0 /\ id \in overlapped
      BY DEF StoredRowKept
    <2>1. rows[id].storage_uri # None => rows'[id].storage_uri # None
      BY UrisStayStep DEF UrisStay, UriNamed
    <2>2. ASSUME rows[id].status = "stored", rows'[id].status # "stored"
          PROVE  attempts[id]["failed"] > 0 /\ id \in overlapped
      <3>1. id \in overlapped
        BY <2>2, SerialRowsStep DEF StoredKept
      <3>2. PICK r \in Request : Handle(r) /\ ~UNCHANGED rows
        BY <2>2 DEF Next, PowerLoss, vars, ledgervars
      <3>3. id = Id(r) /\ Id(r) \in EventId
        BY <2>2, <3>2, OtherRowsStay, EnvelopeType1 DEF TypeInv, TypeOK, Id
      <3>4. CASE Insert(r)
        BY <3>2, <3>3, <3>4 DEF Insert, InsertReceived
      <3>5. CASE CommitStored(r)
        <4> DEFINE new == Flush(rows[id], snap[r], AsStored(snap[r], PathFor(env[r])))
        <4>1. rows[id] \in Row /\ snap[r] \in Row
          BY <3>3, <3>5 DEF CommitStored, TypeInv, TypeOK, LedgerTypeOK, SnapPresent, UsesSnap
        <4>2. new.status \in {"stored", rows[id].status}
          BY <4>1, FlushStoredStatus
        <4>3. rows' = [rows EXCEPT ![id] = new]
          BY <3>3, <3>5 DEF CommitStored, CommitUpdate
        <4> HIDE DEF new
        <4> QED
          BY <2>2, <4>2, <4>3 DEF TypeInv, TypeOK, LedgerTypeOK
      <3>6. CASE CommitFailed(r)
        <4>1. ~Unfailed(id)
          BY <3>3, <3>6 DEF CommitFailed, ErrorInv, Failing
        <4>2. attempts[id]["failed"] \in Nat
          BY AttemptsType DEF AttemptStatus
        <4> QED
          BY <3>1, <4>1, <4>2 DEF Unfailed
      <3> QED
        BY <3>2, <3>4, <3>5, <3>6
        DEF Handle, ledgervars, Submit, Lookup, Reread, RecordConflict, RecordDuplicate,
            WriteRawEvent, LoadForStored, Refresh, RecordStored, RecordFailed,
            LoadForFailed, RefreshFailed, LedgerFault, Crash
    <2> QED
      BY <2>1, <2>2
  <1> QED
    BY <1>1, Invariants, PTL DEF Spec, StoredIsTakenBackForFailure

(* In every configuration a row shows no failure that is not on record,    *)
(* and a stored row no error unless calls of its id have overlapped.       *)
THEOREM ErrorsAreOnRecordAlways == Spec => []ErrorsAreOnRecord
  <1>1. TypeInv /\ ErrorInv /\ SerialInv => ErrorsAreOnRecord
    <2> SUFFICES ASSUME TypeInv, ErrorInv, SerialInv, NEW id \in EventId, rows[id] # NoRow
                 PROVE  /\ rows[id].status = "failed" \/ rows[id].last_error # None =>
                              attempts[id]["failed"] > 0
                        /\ rows[id].status = "stored" /\ rows[id].last_error # None =>
                              id \in overlapped
      BY DEF ErrorsAreOnRecord
    <2>1. attempts[id]["failed"] \in Nat
      BY AttemptsType DEF AttemptStatus
    <2>2. rows[id].status = "failed" \/ rows[id].last_error # None => attempts[id]["failed"] # 0
      BY DEF ErrorInv, Unfailed
    <2>3. rows[id].status = "stored" /\ rows[id].last_error # None => id \in overlapped
      BY DEF SerialInv, RowSettled
    <2> QED
      BY <2>1, <2>2, <2>3
  <1> QED
    BY <1>1, Invariants, PTL
=============================================================================
