------------------------- MODULE IngestArchiveProofs -------------------------
(***************************************************************************)
(* What an acknowledgement is worth where event hashes are required, for   *)
(* every number of requests, every set of envelopes, every interleaving    *)
(* and every failure of storage, ledger or process.  The first part, what  *)
(* the ledger's row lets through, holds across power loss too; that the    *)
(* objects stay needs the power to stay on.                                *)
(***************************************************************************)
EXTENDS IngestServiceProofs

(* Steps of a request that the ledger's row has let through.               *)
PastGate == {"record_duplicate", "write", "load_stored", "commit_stored", "refresh",
             "record_stored", "record_failed", "load_failed", "commit_failed",
             "refresh_failed"}

(* A row of id was inserted for one validated envelope, and names that     *)
(* envelope's object or none; a stored row names one.                      *)
RowGenuine(id) ==
    rows[id] # NoRow =>
        /\ \E e \in Envelope :
              /\ HashesValid(e)
              /\ e.event_id = id
              /\ rows[id].event_sha256 = e.event_sha256
              /\ rows[id].raw_envelope_json = canonical_json_text(e)
              /\ rows[id].storage_uri \in {None, PathFor(e)}
        /\ rows[id].status = "stored" => rows[id].storage_uri # None

(* What a path may hold is the text of an envelope the path was made from, *)
(* and the ledger has a row for it.                                        *)
TextLedgered(u, text) ==
    text # Absent =>
        \E e \in Envelope :
            /\ u = PathFor(e)
            /\ text = canonical_json_text(e)
            /\ rows[e.event_id] # NoRow
            /\ rows[e.event_id].raw_envelope_json = canonical_json_text(e)

(* So it is of the objects, and of what power loss may turn them back to.  *)
ObjectLedgered(u) == TextLedgered(u, files[u]) /\ TextLedgered(u, durable[u])

(* A request in progress was validated; past the gate it has the text of   *)
(* the row of its event id.                                                *)
Gated(r) ==
    /\ pc[r] \in InProgress => HashesValid(env[r])
    /\ pc[r] \in PastGate => rows[Id(r)].raw_envelope_json = Raw(r)

(* The call of write_raw_event: what it will rename is complete, what it   *)
(* will read is there, and what it has returned holds the text.            *)
Writing(r) ==
    /\ wpc[r] = "replace" => temps[r] = Raw(r)
    /\ wpc[r] = "read" => files[PathFor(env[r])] # Absent
    /\ wpc[r] # "conflict"
    /\ pc[r] \in {"load_stored", "commit_stored", "refresh", "record_stored"} =>
           files[PathFor(env[r])] = Raw(r)

(* The row a request has loaded is not stale where it matters: a URI it    *)
(* saw is still the row's, and before an answer it has seen one.           *)
SnapFits(r) ==
    /\ /\ pc[r] \in {"record_duplicate", "commit_stored", "commit_failed", "record_stored"}
       /\ snap[r].storage_uri # None
       => rows[Id(r)].storage_uri = snap[r].storage_uri
    /\ pc[r] \in {"record_duplicate", "record_stored"} => snap[r].storage_uri # None
    /\ pc[r] = "refresh" => rows[Id(r)].storage_uri # None

(* An acknowledged request has the text and the URI of its row.            *)
AckRow(r) ==
    Acked(r) =>
        /\ answer[r].storage_uri # None
        /\ rows[Id(r)] # NoRow
        /\ rows[Id(r)].raw_envelope_json = Raw(r)
        /\ rows[Id(r)].storage_uri = answer[r].storage_uri

RequestInv(r) == Gated(r) /\ Writing(r) /\ SnapFits(r) /\ AckRow(r)

LedgerInv == \A id \in EventId : RowGenuine(id)

FilesInv == \A u \in Uri : ObjectLedgered(u)

GateInv == LedgerInv /\ FilesInv /\ \A r \in Request : RequestInv(r)

(* The object a row names is there and holds the row's text.               *)
RowBacked(id) ==
    rows[id] # NoRow /\ rows[id].storage_uri # None =>
        files[rows[id].storage_uri] = rows[id].raw_envelope_json

ArchiveInv == GateInv /\ \A id \in EventId : RowBacked(id)

-----------------------------------------------------------------------------
(* Lemmas about envelopes, paths and rows.                                 *)

(* No text of an envelope is one of the two special contents.              *)
LEMMA TextIsPresent ==
    ASSUME NEW e \in Envelope
    PROVE  canonical_json_text(e) \notin {Absent, Torn}
  BY EnvelopeType1, IngestServiceAssumption

(* A validated request that finds its own event hash in the row has the    *)
(* text of the row.                                                        *)
LEMMA GateOpens ==
    ASSUME require_event_hash, TypeInv, GateInv, NEW r \in Request,
           pc[r] \in InProgress, rows[Id(r)] # NoRow,
           rows[Id(r)].event_sha256 = env[r].event_sha256
    PROVE  rows[Id(r)].raw_envelope_json = Raw(r)
  <1>1. env[r] \in Envelope /\ Id(r) \in EventId
    BY EnvelopeType1 DEF TypeInv, TypeOK, Id
  <1>2. HashesValid(env[r])
    BY DEF GateInv, RequestInv, Gated
  <1>3. PICK e \in Envelope :
            /\ HashesValid(e)
            /\ rows[Id(r)].event_sha256 = e.event_sha256
            /\ rows[Id(r)].raw_envelope_json = canonical_json_text(e)
    BY <1>1 DEF GateInv, LedgerInv, RowGenuine
  <1> QED
    BY <1>1, <1>2, <1>3, EventHashDeterminesEnvelope DEF Raw

(* Past the gate, the row names the request's own path or none, and an     *)
(* object at that path holds the request's text.                           *)
LEMMA PastTheGate ==
    ASSUME TypeInv, GateInv, NEW r \in Request, pc[r] \in PastGate
    PROVE  /\ rows[Id(r)] \in Row
           /\ rows[Id(r)].raw_envelope_json = Raw(r)
           /\ rows[Id(r)].storage_uri \in {None, PathFor(env[r])}
           /\ files[PathFor(env[r])] \in {Absent, Raw(r)}
  <1>1. env[r] \in Envelope /\ Id(r) \in EventId /\ PathFor(env[r]) \in Uri
    BY EnvelopeType1 DEF TypeInv, TypeOK, Id
  <1>2. rows[Id(r)] \in Row
    BY <1>1 DEF TypeInv, TypeOK, LedgerTypeOK, RowPresent, PastInsert, PastGate,
       InProgress, LedgerStep
  <1>3. rows[Id(r)].raw_envelope_json = Raw(r)
    BY DEF GateInv, RequestInv, Gated
  <1>4. rows[Id(r)].storage_uri \in {None, PathFor(env[r])}
    <2>1. PICK e \in Envelope :
              /\ rows[Id(r)].raw_envelope_json = canonical_json_text(e)
              /\ rows[Id(r)].storage_uri \in {None, PathFor(e)}
      BY <1>1, <1>2, IngestServiceAssumption DEF GateInv, LedgerInv, RowGenuine
    <2>2. e = env[r]
      BY <1>1, <1>3, <2>1, TextAndPath DEF Raw
    <2> QED
      BY <2>1, <2>2
  <1>5. ASSUME files[PathFor(env[r])] # Absent
        PROVE  files[PathFor(env[r])] = Raw(r)
    <2>1. PICK e \in Envelope :
              /\ PathFor(env[r]) = PathFor(e)
              /\ files[PathFor(env[r])] = canonical_json_text(e)
              /\ rows[e.event_id].raw_envelope_json = canonical_json_text(e)
      BY <1>1, <1>5 DEF GateInv, FilesInv, ObjectLedgered, TextLedgered
    <2>2. e.event_id = Id(r)
      BY <1>1, <2>1, TextAndPath DEF Id
    <2> QED
      BY <1>3, <2>1, <2>2
  <1> QED
    BY <1>2, <1>3, <1>4, <1>5

-----------------------------------------------------------------------------
(* What a step leaves alone.                                               *)

UrisKept ==
    \A id \in EventId :
        rows[id] # NoRow /\ rows[id].storage_uri # None =>
            rows'[id].storage_uri = rows[id].storage_uri

Undisturbed(q) ==
    /\ UNCHANGED env
    /\ pc'[q] = pc[q] /\ snap'[q] = snap[q] /\ answer'[q] = answer[q]
    /\ wpc'[q] = wpc[q] /\ temps'[q] = temps[q]

(* A request that takes no step itself keeps its invariant as long as the  *)
(* others only add rows, URIs and objects.                                 *)
LEMMA OthersKeepInvariant ==
    ASSUME TypeInv, GateInv, NEW q \in Request, Undisturbed(q),
           RowIdentityKept, UrisKept, ObjectsKept
    PROVE  RequestInv(q)'
  <1>1. /\ Id(q) \in EventId /\ env[q] \in Envelope /\ PathFor(env[q]) \in Uri
        /\ Id(q)' = Id(q) /\ Raw(q)' = Raw(q) /\ env'[q] = env[q]
    BY EnvelopeType1 DEF TypeInv, TypeOK, Id, Raw, Undisturbed
  <1>2. Raw(q) # Absent
    BY <1>1, TextIsPresent DEF Raw
  <1>3. pc[q] \in PastInsert => rows[Id(q)] # NoRow
    BY DEF TypeInv, RowPresent
  <1>4. Gated(q)'
    BY <1>1, <1>3 DEF GateInv, RequestInv, Gated, Undisturbed, RowIdentityKept,
       PastGate, PastInsert, InProgress, LedgerStep
  <1>5. Writing(q)'
    BY <1>1, <1>2 DEF GateInv, RequestInv, Writing, Undisturbed, ObjectsKept
  <1>6. SnapFits(q)'
    BY <1>1, <1>3 DEF GateInv, RequestInv, SnapFits, Undisturbed, UrisKept,
       PastInsert, InProgress, LedgerStep
  <1>7. AckRow(q)'
    BY <1>1
    DEF GateInv, RequestInv, AckRow, Acked, Undisturbed, RowIdentityKept, UrisKept
  <1> QED
    BY <1>4, <1>5, <1>6, <1>7 DEF RequestInv

(* A step that writes no row and no object keeps what relates the two.     *)
LEMMA QuietStep ==
    ASSUME GateInv, UNCHANGED <<rows, files, durable>>
    PROVE  LedgerInv' /\ FilesInv' /\ RowIdentityKept /\ UrisKept /\ ObjectsKept
  BY DEF GateInv, LedgerInv, RowGenuine, FilesInv, ObjectLedgered, TextLedgered,
     RowIdentityKept, UrisKept, ObjectsKept

(* The invariant after a step of r, from what r itself must show.          *)
LEMMA Assemble ==
    ASSUME TypeInv, GateInv, NEW r \in Request,
           \A q \in Request \ {r} : Undisturbed(q),
           RowIdentityKept, UrisKept, ObjectsKept,
           LedgerInv', FilesInv', RequestInv(r)'
    PROVE  GateInv'
  <1>1. ASSUME NEW q \in Request PROVE RequestInv(q)'
    BY <1>1, OthersKeepInvariant
  <1> QED
    BY <1>1 DEF GateInv

LEMMA AssembleQuiet ==
    ASSUME TypeInv, GateInv, NEW r \in Request,
           \A q \in Request \ {r} : Undisturbed(q),
           UNCHANGED <<rows, files, durable>>, RequestInv(r)'
    PROVE  GateInv'
  BY QuietStep, Assemble

-----------------------------------------------------------------------------
(* The steps of a request.                                                 *)

(* A call that comes in is validated or answered.                          *)
LEMMA SubmitStep ==
    ASSUME TypeInv, GateInv, NEW r \in Request, Submit(r)
    PROVE  GateInv'
  <1>1. /\ pc[r] = "idle" /\ UNCHANGED <<env, snap, rows, files, durable, temps, wpc>>
        /\ \/ /\ pc' = [pc EXCEPT ![r] = "lookup"] /\ answer' = answer
              /\ HashesValid(env[r])
           \/ /\ pc' = [pc EXCEPT ![r] = "done"]
              /\ answer' = [answer EXCEPT ![r] =
                              [status |-> "invalid_hash", storage_uri |-> None]]
    BY DEF Submit, Goto, Answer, ledgervars, fsvars
  <1>2. \A q \in Request \ {r} : Undisturbed(q)
    BY <1>1 DEF Undisturbed, TypeInv, TypeOK
  <1>3. RequestInv(r)'
    BY <1>1 DEF GateInv, RequestInv, Gated, Writing, SnapFits, AckRow, Acked, Success,
       Raw, Id, PastGate, InProgress, LedgerStep, TypeInv, TypeOK, FS!TypeOK
  <1> QED
    BY <1>1, <1>2, <1>3, AssembleQuiet

(* A read of the row that decides where to go on.                          *)
LEMMA DecideStep ==
    ASSUME require_event_hash, TypeInv, GateInv, NEW r \in Request,
           Lookup(r) \/ Reread(r)
    PROVE  GateInv'
  <1>1. /\ pc[r] \in {"lookup", "reread"}
        /\ UNCHANGED <<env, answer, rows, files, durable, temps, wpc>>
        /\ snap' = [snap EXCEPT ![r] = rows[Id(r)]]
        /\ pc' = [pc EXCEPT ![r] = pc'[r]]
        /\ \/ pc'[r] \in {"insert", "record_conflict"}
           \/ /\ rows[Id(r)] # NoRow
              /\ rows[Id(r)].event_sha256 = env[r].event_sha256
              /\ \/ pc'[r] = "write"
                 \/ pc'[r] = "record_duplicate" /\ rows[Id(r)].storage_uri # None
    BY DEF Lookup, Reread, HandleExisting, Goto, ReadRow, ledgervars, fsvars,
       TypeInv, TypeOK, RowPresent, PastInsert, InProgress, LedgerStep
  <1>2. \A q \in Request \ {r} : Undisturbed(q)
    BY <1>1 DEF Undisturbed, TypeInv, TypeOK
  <1>3. pc'[r] \in {"write", "record_duplicate"} => rows[Id(r)].raw_envelope_json = Raw(r)
    BY <1>1, GateOpens DEF InProgress, LedgerStep
  <1>4. Gated(r)'
    BY <1>1, <1>3 DEF GateInv, RequestInv, Gated, PastGate, InProgress, LedgerStep, Raw, Id
  <1>5. Writing(r)' /\ AckRow(r)'
    BY <1>1 DEF GateInv, RequestInv, Writing, AckRow, Acked, Raw, Id
  <1>6. SnapFits(r)'
    BY <1>1 DEF SnapFits, TypeInv, TypeOK, Id
  <1> QED
    BY <1>1, <1>2, <1>4, <1>5, <1>6, AssembleQuiet DEF RequestInv

(* Reading the row again before or after an update.                        *)
LEMMA ReadStep ==
    ASSUME TypeInv, GateInv, NEW r \in Request,
           LoadForStored(r) \/ Refresh(r) \/ LoadForFailed(r)
    PROVE  GateInv'
  <1>1. /\ UNCHANGED <<env, answer, rows, files, durable, temps, wpc>>
        /\ snap' = [snap EXCEPT ![r] = rows[Id(r)]]
        /\ \/ pc[r] = "load_stored" /\ pc' = [pc EXCEPT ![r] = "commit_stored"]
           \/ pc[r] = "refresh" /\ pc' = [pc EXCEPT ![r] = "record_stored"]
           \/ pc[r] = "load_failed" /\ pc' = [pc EXCEPT ![r] = "commit_failed"]
    BY DEF LoadForStored, Refresh, LoadForFailed, Goto, ReadRow, ledgervars, fsvars
  <1>2. \A q \in Request \ {r} : Undisturbed(q)
    BY <1>1 DEF Undisturbed, TypeInv, TypeOK
  <1>3. Gated(r)' /\ Writing(r)' /\ AckRow(r)'
    BY <1>1 DEF GateInv, RequestInv, Gated, Writing, AckRow, Acked, PastGate,
       InProgress, LedgerStep, Raw, Id, TypeInv, TypeOK
  <1>4. SnapFits(r)'
    BY <1>1 DEF GateInv, RequestInv, SnapFits, TypeInv, TypeOK, Id
  <1> QED
    BY <1>1, <1>2, <1>3, <1>4, AssembleQuiet DEF RequestInv

(* Steps that answer without success, go on to mark the failure, or die.   *)
LEMMA NoSuccessStep ==
    ASSUME TypeInv, GateInv, NEW r \in Request,
           \/ RecordConflict(r) \/ RecordFailed(r) \/ RefreshFailed(r)
           \/ LedgerFault(r) \/ Crash(r)
    PROVE  GateInv'
  <1>1. /\ UNCHANGED <<env, snap, rows, files, durable, temps, wpc>>
        /\ pc' = [pc EXCEPT ![r] = pc'[r]]
        /\ \/ pc[r] = "record_failed" /\ pc'[r] = "load_failed" /\ answer' = answer
           \/ pc[r] \in InProgress /\ pc'[r] = "dead" /\ answer' = answer
           \/ /\ pc'[r] = "done"
              /\ \E s \in {"conflict_error", "hash_conflict", "storage_error", "server_error"} :
                 \E u : answer' = [answer EXCEPT ![r] = [status |-> s, storage_uri |-> u]]
    <2>1. CASE RecordConflict(r)
      BY <2>1 DEF RecordConflict, Goto, Answer, fsvars, TypeInv, TypeOK
    <2>2. CASE RecordFailed(r)
      BY <2>2 DEF RecordFailed, Goto, fsvars, TypeInv, TypeOK
    <2>3. CASE RefreshFailed(r) \/ LedgerFault(r)
      BY <2>3 DEF RefreshFailed, LedgerFault, Goto, Answer, ledgervars, fsvars, TypeInv, TypeOK
    <2>4. CASE Crash(r)
      BY <2>4 DEF Crash, Goto, ledgervars, fsvars, TypeInv, TypeOK
    <2> QED
      BY <2>1, <2>2, <2>3, <2>4
  <1>2. \A q \in Request \ {r} : Undisturbed(q)
    BY <1>1 DEF Undisturbed, TypeInv, TypeOK
  <1>3. Gated(r)' /\ Writing(r)' /\ SnapFits(r)'
    BY <1>1 DEF GateInv, RequestInv, Gated, Writing, SnapFits, PastGate,
       InProgress, LedgerStep, Raw, Id, TypeInv, TypeOK
  <1>4. AckRow(r)'
    BY <1>1 DEF GateInv, RequestInv, AckRow, Acked, Success, Raw, Id, TypeInv, TypeOK
  <1> QED
    BY <1>1, <1>2, <1>3, <1>4, AssembleQuiet DEF RequestInv

(* A success is answered with a URI that the row still has.                *)
LEMMA SuccessStep ==
    ASSUME TypeInv, GateInv, NEW r \in Request, RecordDuplicate(r) \/ RecordStored(r)
    PROVE  GateInv'
  <1>1. /\ pc[r] \in {"record_duplicate", "record_stored"}
        /\ UNCHANGED <<env, snap, rows, files, durable, temps, wpc>>
        /\ pc' = [pc EXCEPT ![r] = "done"]
        /\ \E s \in Success :
              answer' = [answer EXCEPT ![r] =
                            [status |-> s, storage_uri |-> snap[r].storage_uri]]
    BY DEF RecordDuplicate, RecordStored, Goto, Answer, fsvars, Success
  <1>2. \A q \in Request \ {r} : Undisturbed(q)
    BY <1>1 DEF Undisturbed, TypeInv, TypeOK
  <1>3. Gated(r)' /\ Writing(r)' /\ SnapFits(r)'
    BY <1>1 DEF GateInv, RequestInv, Gated, Writing, SnapFits, PastGate,
       InProgress, LedgerStep, Raw, Id, TypeInv, TypeOK
  <1>4. AckRow(r)'
    <2>1. Id(r) \in EventId /\ pc[r] \in PastGate
      BY <1>1, EnvelopeType1 DEF TypeInv, TypeOK, Id, PastGate
    <2>2. rows[Id(r)] \in Row /\ rows[Id(r)].raw_envelope_json = Raw(r)
      BY <2>1, PastTheGate
    <2>3. rows[Id(r)] # NoRow
      BY <2>2, IngestServiceAssumption
    <2>4. snap[r].storage_uri # None /\ rows[Id(r)].storage_uri = snap[r].storage_uri
      BY <1>1 DEF GateInv, RequestInv, SnapFits
    <2> QED
      BY <1>1, <2>2, <2>3, <2>4 DEF AckRow, Raw, Id, TypeInv, TypeOK
  <1> QED
    BY <1>1, <1>2, <1>3, <1>4, AssembleQuiet DEF RequestInv

(* The insert: a new row is the text of a validated envelope without an    *)
(* object; the loser of a race changes nothing.                            *)
LEMMA InsertStep ==
    ASSUME TypeInv, GateInv, RowIdentityKept, NEW r \in Request, Insert(r)
    PROVE  GateInv'
  <1> DEFINE new == ReceivedRow(env[r].event_sha256, env[r].payload_sha256, Raw(r))
  <1>1. /\ pc[r] = "insert" /\ pc' = [pc EXCEPT ![r] = "reread"]
        /\ UNCHANGED <<env, snap, answer, files, durable, temps, wpc>>
        /\ rows' = IF rows[Id(r)] = NoRow THEN [rows EXCEPT ![Id(r)] = new] ELSE rows
    BY DEF Insert, InsertReceived, Goto, fsvars
  <1>2. env[r] \in Envelope /\ Id(r) \in EventId
    BY EnvelopeType1 DEF TypeInv, TypeOK, Id
  <1>3. /\ new.event_sha256 = env[r].event_sha256
        /\ new.raw_envelope_json = Raw(r)
        /\ new.storage_uri = None /\ new.status = "received"
    BY DEF ReceivedRow
  <1> HIDE DEF new
  <1>4. \A q \in Request \ {r} : Undisturbed(q)
    BY <1>1 DEF Undisturbed, TypeInv, TypeOK
  <1>5. UrisKept /\ ObjectsKept
    BY <1>1, <1>2 DEF UrisKept, ObjectsKept, TypeInv, TypeOK, LedgerTypeOK
  <1>6. ASSUME NEW id \in EventId PROVE RowGenuine(id)'
    <2>1. CASE rows[Id(r)] = NoRow /\ id = Id(r)
      <3>1. rows'[id] = new
        BY <1>1, <1>2, <2>1 DEF TypeInv, TypeOK, LedgerTypeOK
      <3>2. HashesValid(env[r])
        BY <1>1 DEF GateInv, RequestInv, Gated, InProgress, LedgerStep
      <3> QED
        BY <1>2, <1>3, <2>1, <3>1, <3>2 DEF RowGenuine, Raw, Id
    <2>2. CASE ~(rows[Id(r)] = NoRow /\ id = Id(r))
      <3>1. rows'[id] = rows[id]
        BY <1>1, <1>2, <2>2 DEF TypeInv, TypeOK, LedgerTypeOK
      <3> QED
        BY <1>1, <1>6, <3>1 DEF GateInv, LedgerInv, RowGenuine
    <2> QED
      BY <2>1, <2>2
  <1>7. FilesInv'
    BY <1>1, EnvelopeType1 DEF GateInv, FilesInv, ObjectLedgered, TextLedgered, RowIdentityKept
  <1>8. RequestInv(r)'
    BY <1>1 DEF GateInv, RequestInv, Gated, Writing, SnapFits, AckRow, Acked, PastGate,
       InProgress, LedgerStep, Raw, Id, TypeInv, TypeOK
  <1> QED
    BY <1>4, <1>5, <1>6, <1>7, <1>8, Assemble DEF LedgerInv

(* mark_stored and mark_failed: whatever else has happened to the row      *)
(* since it was loaded, it ends up naming the object or as it was.         *)
LEMMA CommittedRow ==
    ASSUME TypeInv, GateInv, NEW r \in Request, CommitStored(r) \/ CommitFailed(r)
    PROVE  /\ rows[Id(r)].storage_uri \in {None, PathFor(env[r])}
           /\ PathFor(env[r]) # None
           /\ CommitStored(r) => rows'[Id(r)].storage_uri = PathFor(env[r])
           /\ CommitFailed(r) => rows'[Id(r)].storage_uri = rows[Id(r)].storage_uri
           /\ CommitStored(r) => files[PathFor(env[r])] = Raw(r)
           /\ UrisKept
  <1>1. pc[r] \in {"commit_stored", "commit_failed"} /\ ~(CommitStored(r) /\ CommitFailed(r))
    BY DEF CommitStored, CommitFailed
  <1>2. rows[Id(r)].storage_uri \in {None, PathFor(env[r])}
    BY <1>1, PastTheGate DEF PastGate
  <1>3. PathFor(env[r]) # None
    BY EnvelopeType1, IngestServiceAssumption DEF TypeInv, TypeOK
  <1>4. snap[r].storage_uri # None => rows[Id(r)].storage_uri = snap[r].storage_uri
    BY <1>1 DEF GateInv, RequestInv, SnapFits
  <1>5. CommitStored(r) => files[PathFor(env[r])] = Raw(r)
    BY DEF CommitStored, GateInv, RequestInv, Writing
  <1>6. /\ Id(r) \in EventId /\ \A id \in EventId \ {Id(r)} : rows'[id] = rows[id]
        /\ CommitStored(r) => rows'[Id(r)].storage_uri = PathFor(env[r])
        /\ CommitFailed(r) => rows'[Id(r)].storage_uri = rows[Id(r)].storage_uri
    BY <1>1, <1>3, <1>4, UpdatedRow
  <1>7. UrisKept
    BY <1>2, <1>6 DEF UrisKept
  <1> QED
    BY <1>2, <1>3, <1>5, <1>6, <1>7

LEMMA CommitStep ==
    ASSUME TypeInv, GateInv, RowIdentityKept, NEW r \in Request,
           CommitStored(r) \/ CommitFailed(r)
    PROVE  GateInv'
  <1>1. /\ pc[r] \in {"commit_stored", "commit_failed"}
        /\ UNCHANGED <<env, snap, files, durable, temps, wpc>>
    BY DEF CommitStored, CommitFailed, fsvars
  <1>2. env[r] \in Envelope /\ Id(r) \in EventId
    BY EnvelopeType1 DEF TypeInv, TypeOK, Id
  <1>3. rows[Id(r)].raw_envelope_json = Raw(r)
    BY <1>1, PastTheGate DEF PastGate
  <1>4. /\ rows[Id(r)].storage_uri \in {None, PathFor(env[r])}
        /\ PathFor(env[r]) # None
        /\ CommitStored(r) => rows'[Id(r)].storage_uri = PathFor(env[r])
        /\ CommitFailed(r) => rows'[Id(r)].storage_uri = rows[Id(r)].storage_uri
        /\ CommitStored(r) => files[PathFor(env[r])] = Raw(r)
        /\ UrisKept
    BY CommittedRow
  <1>5. /\ rows[Id(r)] # NoRow /\ rows'[Id(r)] # NoRow
        /\ \A id \in EventId \ {Id(r)} : rows'[id] = rows[id]
        /\ CommitFailed(r) => rows'[Id(r)].status \in {"failed", rows[Id(r)].status}
    BY UpdatedRow
  <1>6. /\ rows'[Id(r)].event_sha256 = rows[Id(r)].event_sha256
        /\ rows'[Id(r)].raw_envelope_json = rows[Id(r)].raw_envelope_json
    BY <1>2, <1>5 DEF RowIdentityKept
  <1>7. /\ CommitStored(r) => pc' = [pc EXCEPT ![r] = "refresh"] /\ answer' = answer
        /\ CommitFailed(r) => pc' = [pc EXCEPT ![r] = "refresh_failed"] /\ answer' = answer
    BY DEF CommitStored, CommitFailed, Goto
  <1>8. \A q \in Request \ {r} : Undisturbed(q)
    BY <1>1, <1>7 DEF Undisturbed, TypeInv, TypeOK
  <1>9. ObjectsKept
    BY <1>1 DEF ObjectsKept
  <1>10. ASSUME NEW id \in EventId PROVE RowGenuine(id)'
    <2>1. CASE id = Id(r)
      <3>1. PICK e \in Envelope :
                /\ HashesValid(e) /\ e.event_id = id
                /\ rows[id].event_sha256 = e.event_sha256
                /\ rows[id].raw_envelope_json = canonical_json_text(e)
        BY <1>2, <1>5, <2>1 DEF GateInv, LedgerInv, RowGenuine
      <3>2. e = env[r]
        BY <1>2, <1>3, <2>1, <3>1, TextAndPath DEF Raw
      <3>3. rows'[id].storage_uri \in {None, PathFor(e)}
        BY <1>4, <2>1, <3>2
      <3>4. rows'[id].status = "stored" => rows'[id].storage_uri # None
        BY <1>2, <1>4, <1>5, <2>1 DEF GateInv, LedgerInv, RowGenuine
      <3> QED
        BY <1>6, <2>1, <3>1, <3>3, <3>4 DEF RowGenuine
    <2>2. CASE id # Id(r)
      BY <1>5, <1>10, <2>2 DEF GateInv, LedgerInv, RowGenuine
    <2> QED
      BY <2>1, <2>2
  <1>11. FilesInv'
    BY <1>1, EnvelopeType1 DEF GateInv, FilesInv, ObjectLedgered, TextLedgered, RowIdentityKept
  <1>12. RequestInv(r)'
    <2>1. Id(r)' = Id(r) /\ Raw(r)' = Raw(r) /\ env'[r] = env[r]
      BY <1>1 DEF Id, Raw
    <2>2. Gated(r)'
      BY <1>1, <1>3, <1>6, <1>7, <2>1
      DEF GateInv, RequestInv, Gated, PastGate, InProgress, LedgerStep, TypeInv, TypeOK
    <2>3. Writing(r)'
      BY <1>1, <1>4, <1>7, <2>1
      DEF GateInv, RequestInv, Writing, TypeInv, TypeOK
    <2>4. SnapFits(r)'
      BY <1>1, <1>4, <1>7, <2>1 DEF SnapFits, TypeInv, TypeOK
    <2>5. AckRow(r)'
      BY <1>2, <1>4, <1>5, <1>6, <1>7, <2>1
      DEF GateInv, RequestInv, AckRow, Acked, UrisKept
    <2> QED
      BY <2>2, <2>3, <2>4, <2>5 DEF RequestInv
  <1> QED
    BY <1>4, <1>8, <1>9, <1>10, <1>11, <1>12, Assemble DEF LedgerInv

(* What one step of write_raw_event does behind the gate: it either leaves *)
(* the objects alone, or renames a complete text onto a path that is free  *)
(* or has that very text.  It never comes upon another content.            *)
LEMMA StorageStep ==
    ASSUME TypeInv, GateInv, NEW r \in Request, pc[r] = "write",
           FS!Begin(r) \/ FS!Step(r)
    PROVE  /\ wpc' = [wpc EXCEPT ![r] = wpc'[r]]
           /\ temps' = [temps EXCEPT ![r] = temps'[r]]
           /\ \/ files' = files
              \/ files' = [files EXCEPT ![PathFor(env[r])] = Raw(r)]
           /\ durable' = durable
           /\ wpc'[r] = "replace" => temps'[r] = Raw(r)
           /\ wpc'[r] = "read" => files'[PathFor(env[r])] # Absent
           /\ wpc'[r] = "returned" => files'[PathFor(env[r])] = Raw(r)
           /\ wpc'[r] # "conflict"
  <1> DEFINE call == [q \in Request |-> [path |-> PathFor(env[q]),
                                        raw  |-> canonical_json_text(env[q])]]
  <1>1. call[r].path = PathFor(env[r]) /\ call[r].raw = Raw(r) /\ PathFor(env[r]) \in Uri
    BY EnvelopeType1 DEF TypeInv, TypeOK, Raw
  <1>2. files[PathFor(env[r])] \in {Absent, Raw(r)}
    BY PastTheGate DEF PastGate
  <1>3. /\ wpc[r] = "replace" => temps[r] = Raw(r)
        /\ wpc[r] = "read" => files[PathFor(env[r])] # Absent
    BY DEF GateInv, RequestInv, Writing
  <1>4. /\ files = [u \in Uri |-> files[u]]
        /\ wpc = [q \in Request |-> wpc[q]]
        /\ temps = [q \in Request |-> temps[q]]
    BY DEF TypeInv, TypeOK, FS!TypeOK
  <1> USE <1>1, <1>4 DEF FS!Goto
  <1>5. CASE FS!Begin(r)        BY <1>5 DEF FS!Begin
  <1>6. CASE FS!CheckExists(r)  BY <1>6 DEF FS!CheckExists
  <1>7. CASE FS!ReadExisting(r) BY <1>2, <1>3, <1>7 DEF FS!ReadExisting
  <1>8. CASE FS!MakeTemp(r)     BY <1>8 DEF FS!MakeTemp
  <1>9. CASE FS!WriteTemp(r)    BY <1>9 DEF FS!WriteTemp
  <1>10. CASE FS!Replace(r) \/ FS!FailAfterReplace(r)
    BY <1>3, <1>10 DEF FS!Replace, FS!FailAfterReplace, FS!Rename
  <1>11. CASE FS!Unlink(r)      BY <1>11 DEF FS!Unlink
  <1>12. CASE FS!FailEarly(r) \/ FS!FailLate(r) \/ FS!FailUnlink(r)
    BY <1>12 DEF FS!FailEarly, FS!FailLate, FS!FailUnlink
  <1> QED
    BY <1>5, <1>6, <1>7, <1>8, <1>9, <1>10, <1>11, <1>12 DEF FS!Step

LEMMA WriteStep ==
    ASSUME TypeInv, GateInv, RowIdentityKept, NEW r \in Request, WriteRawEvent(r)
    PROVE  GateInv'
  <1>1. /\ pc[r] = "write"
        /\ FS!Begin(r) \/ FS!Step(r)
        /\ pc' = [pc EXCEPT ![r] = StoreAndMark(wpc'[r])]
        /\ UNCHANGED <<env, snap, answer, rows>>
    BY DEF WriteRawEvent, Goto, ledgervars
  <1>2. /\ env[r] \in Envelope /\ Id(r) \in EventId /\ PathFor(env[r]) \in Uri
        /\ Raw(r) # Absent
    BY EnvelopeType1, TextIsPresent DEF TypeInv, TypeOK, Id, Raw
  <1>3. /\ rows[Id(r)] \in Row /\ rows[Id(r)] # NoRow
        /\ rows[Id(r)].raw_envelope_json = Raw(r)
        /\ files[PathFor(env[r])] \in {Absent, Raw(r)}
    BY <1>1, PastTheGate, IngestServiceAssumption DEF PastGate
  <1>4. /\ wpc' = [wpc EXCEPT ![r] = wpc'[r]]
        /\ temps' = [temps EXCEPT ![r] = temps'[r]]
        /\ files' = files \/ files' = [files EXCEPT ![PathFor(env[r])] = Raw(r)]
        /\ durable' = durable
        /\ wpc'[r] = "replace" => temps'[r] = Raw(r)
        /\ wpc'[r] = "read" => files'[PathFor(env[r])] # Absent
        /\ wpc'[r] = "returned" => files'[PathFor(env[r])] = Raw(r)
        /\ wpc'[r] # "conflict"
    BY <1>1, StorageStep
  <1>5. \A u \in Uri : files'[u] = files[u] \/ (u = PathFor(env[r]) /\ files'[u] = Raw(r))
    BY <1>4 DEF TypeInv, TypeOK, FS!TypeOK
  <1>6. ObjectsKept /\ UrisKept
    BY <1>1, <1>3, <1>5 DEF ObjectsKept, UrisKept
  <1>7. \A q \in Request \ {r} : Undisturbed(q)
    BY <1>1, <1>4 DEF Undisturbed, TypeInv, TypeOK, FS!TypeOK
  <1>8. LedgerInv'
    BY <1>1 DEF GateInv, LedgerInv, RowGenuine
  <1>9. ASSUME NEW u \in Uri PROVE ObjectLedgered(u)'
    <2>1. TextLedgered(u, files[u])' \/ files'[u] # files[u]
      BY <1>1, <1>9 DEF GateInv, FilesInv, ObjectLedgered, TextLedgered
    <2>2. CASE u = PathFor(env[r]) /\ files'[u] = Raw(r)
      BY <1>1, <1>2, <1>3, <1>4, <1>9, <2>2
      DEF GateInv, FilesInv, ObjectLedgered, TextLedgered, Raw, Id
    <2>3. TextLedgered(u, durable[u])'
      BY <1>1, <1>4, <1>9 DEF GateInv, FilesInv, ObjectLedgered, TextLedgered
    <2> QED
      BY <1>5, <2>1, <2>2, <2>3 DEF ObjectLedgered
  <1>10. RequestInv(r)'
    <2>1. /\ pc'[r] \in {"write", "load_stored", "record_failed"}
          /\ pc'[r] = "load_stored" => wpc'[r] = "returned"
      BY <1>1 DEF StoreAndMark, TypeInv, TypeOK
    <2>2. Id(r)' = Id(r) /\ Raw(r)' = Raw(r) /\ env'[r] = env[r]
      BY <1>1 DEF Id, Raw
    <2>3. Gated(r)'
      <3>1. HashesValid(env[r])
        BY <1>1 DEF GateInv, RequestInv, Gated, InProgress
      <3> QED
        BY <1>1, <1>3, <2>2, <3>1 DEF Gated
    <2>4. Writing(r)'
      BY <1>4, <2>1, <2>2 DEF Writing
    <2>5. SnapFits(r)'
      BY <2>1 DEF SnapFits
    <2>6. AckRow(r)'
      BY <1>1, <2>2 DEF GateInv, RequestInv, AckRow, Acked
    <2> QED
      BY <2>3, <2>4, <2>5, <2>6 DEF RequestInv
  <1> QED
    BY <1>6, <1>7, <1>8, <1>9, <1>10, Assemble DEF FilesInv

(* Power loss turns an object into what was on disk of it and ends every   *)
(* call; what the rows have let through they have let through still.       *)
LEMMA PowerLossStep ==
    ASSUME TypeInv, GateInv, PowerLoss
    PROVE  GateInv'
  <1>1. /\ UNCHANGED <<env, snap, answer, rows>>
        /\ \A q \in Request : pc'[q] \in {pc[q], "dead"} /\ pc'[q] \notin InProgress
        /\ \A q \in Request : wpc'[q] \in {wpc[q], "dead"} /\ wpc'[q] \notin FS!InCall
        /\ \A u \in Uri : files'[u] \in {files[u], durable[u]}
        /\ durable' = files'
    BY DEF PowerLoss, FS!PowerLoss, ledgervars, InProgress, LedgerStep, FS!InCall
  <1>2. LedgerInv'
    BY <1>1 DEF GateInv, LedgerInv, RowGenuine
  <1>3. FilesInv'
    BY <1>1 DEF GateInv, FilesInv, ObjectLedgered, TextLedgered
  <1>4. ASSUME NEW q \in Request PROVE RequestInv(q)'
    <2>1. Gated(q)' /\ SnapFits(q)'
      BY <1>1 DEF Gated, SnapFits, PastGate, InProgress, LedgerStep
    <2>2. Writing(q)'
      BY <1>1 DEF GateInv, RequestInv, Writing, FS!InCall, InProgress, LedgerStep
    <2>3. AckRow(q)'
      BY <1>1 DEF GateInv, RequestInv, AckRow, Acked, Id, Raw
    <2> QED
      BY <2>1, <2>2, <2>3 DEF RequestInv
  <1> QED
    BY <1>2, <1>3, <1>4 DEF GateInv

-----------------------------------------------------------------------------
(* The invariant, and what follows from it across power loss.              *)

LEMMA GateInit == Init => GateInv
  BY DEF Init, LedgerInit, FS!StorageInit, GateInv, LedgerInv, RowGenuine,
     FilesInv, ObjectLedgered, TextLedgered, RequestInv, Gated, Writing, SnapFits, AckRow,
     Acked, Success, InProgress, LedgerStep, PastGate

LEMMA GateStep ==
    ASSUME require_event_hash
    PROVE  TypeInv /\ GateInv /\ [Next]_vars => GateInv'
  <1> SUFFICES ASSUME TypeInv, GateInv, [Next]_vars PROVE GateInv'
    OBVIOUS
  <1>1. RowIdentityKept
    BY RowIdentityStep
  <1>2. ASSUME NEW r \in Request, Handle(r) PROVE GateInv'
    BY <1>1, <1>2, SubmitStep, DecideStep, InsertStep, NoSuccessStep, SuccessStep,
       WriteStep, ReadStep, CommitStep DEF Handle
  <1>3. CASE UNCHANGED vars
    <2>1. UNCHANGED <<rows, files, durable>> /\ \A q \in Request : Undisturbed(q)
      BY <1>3 DEF vars, ledgervars, fsvars, Undisturbed
    <2>2. \A q \in Request : RequestInv(q)'
      BY <2>1, QuietStep, OthersKeepInvariant
    <2> QED
      BY <2>1, <2>2, QuietStep DEF GateInv
  <1> QED
    BY <1>2, <1>3, PowerLossStep DEF Next

(* Requests, rows and answers stay in accord, and every object has its     *)
(* row, whatever fails and also when the power does.                       *)
THEOREM GateInvariant ==
    ASSUME require_event_hash
    PROVE  Spec => [](TypeInv /\ GateInv)
  BY TypeInit, GateInit, TypeStep, GateStep, PTL DEF Spec

(* Every object is accounted for by a row, after power loss too.           *)
THEOREM EveryObjectLedgered ==
    ASSUME require_event_hash
    PROVE  Spec => []NoUnledgeredObject
  <1>1. TypeInv /\ GateInv => NoUnledgeredObject
    <2> SUFFICES ASSUME TypeInv, GateInv, NEW u \in Uri, files[u] # Absent
                 PROVE  \E id \in EventId : /\ rows[id] # NoRow
                                            /\ rows[id].raw_envelope_json = files[u]
      BY DEF NoUnledgeredObject
    <2> QED
      BY EnvelopeType1 DEF GateInv, FilesInv, ObjectLedgered, TextLedgered
  <1> QED
    BY <1>1, GateInvariant, PTL

(* A retry never meets StorageConflictError, whatever the attempts before  *)
(* it and power loss have left behind.                                     *)
THEOREM RetriesAreNotBlocked ==
    ASSUME require_event_hash
    PROVE  Spec => []NoStorageConflict
  <1>1. TypeInv /\ GateInv => NoStorageConflict
    BY DEF GateInv, RequestInv, Writing, NoStorageConflict
  <1> QED
    BY <1>1, GateInvariant, PTL

(* No two different events are both acknowledged under one event id: the   *)
(* texts both are the text of the one row.                                 *)
THEOREM OneEventPerId ==
    ASSUME require_event_hash
    PROVE  Spec => []OneContentPerId
  <1>1. TypeInv /\ GateInv => OneContentPerId
    <2> SUFFICES ASSUME TypeInv, GateInv, NEW q \in Request, NEW r \in Request,
                        Acked(q), Acked(r), Id(q) = Id(r)
                 PROVE  env[q] = env[r]
      BY DEF OneContentPerId
    <2>1. Raw(q) = Raw(r) /\ env[q] \in Envelope /\ env[r] \in Envelope
      BY DEF GateInv, RequestInv, AckRow, TypeInv, TypeOK
    <2> QED
      BY <2>1, TextAndPath DEF Raw
  <1> QED
    BY <1>1, GateInvariant, PTL

-----------------------------------------------------------------------------
(* While the power stays on.                                               *)

(* A URI that a row has is kept by every step.                             *)
LEMMA UrisStep ==
    ASSUME TypeInv, GateInv, [Next]_vars
    PROVE  UrisKept
  <1>1. ASSUME UNCHANGED rows PROVE UrisKept
    BY <1>1 DEF UrisKept
  <1>2. ASSUME NEW r \in Request, Insert(r) PROVE UrisKept
    BY <1>2 DEF Insert, InsertReceived, UrisKept, TypeInv, TypeOK, LedgerTypeOK
  <1>3. ASSUME NEW r \in Request, Handle(r) PROVE UrisKept
    BY <1>1, <1>2, <1>3, CommittedRow
    DEF Handle, ledgervars, Submit, Lookup, Reread, RecordConflict, RecordDuplicate,
        WriteRawEvent, LoadForStored, Refresh, RecordStored, RecordFailed,
        LoadForFailed, RefreshFailed, LedgerFault, Crash
  <1> QED
    BY <1>1, <1>3 DEF Next, PowerLoss, vars, ledgervars

(* An object that is there stays as it is: os.replace only ever puts a     *)
(* text where nothing or the same text is.                                 *)
LEMMA ObjectsStep ==
    ASSUME TypeInv, GateInv, [Next]_vars, "power" \notin Faults
    PROVE  ObjectsKept
  <1>1. ASSUME UNCHANGED files PROVE ObjectsKept
    BY <1>1 DEF ObjectsKept
  <1>2. ASSUME NEW r \in Request, WriteRawEvent(r) PROVE ObjectsKept
    <2>1. /\ files[PathFor(env[r])] \in {Absent, Raw(r)}
          /\ files' = files \/ files' = [files EXCEPT ![PathFor(env[r])] = Raw(r)]
      BY <1>2, PastTheGate, StorageStep DEF WriteRawEvent, PastGate
    <2> QED
      BY <2>1 DEF ObjectsKept, TypeInv, TypeOK, FS!TypeOK
  <1>3. ASSUME NEW r \in Request, Handle(r) PROVE ObjectsKept
    BY <1>1, <1>2, <1>3
    DEF Handle, fsvars, Submit, Lookup, Insert, Reread, RecordConflict, RecordDuplicate,
        LoadForStored, CommitStored, Refresh, RecordStored, RecordFailed,
        LoadForFailed, CommitFailed, RefreshFailed, LedgerFault, Crash
  <1> QED
    BY <1>1, <1>3 DEF Next, PowerLoss, FS!PowerLoss, vars, fsvars

(* A row that names an object is backed by it: the URI is set only once    *)
(* the object is there, and stays; so does the object.                     *)
LEMMA BackedStep ==
    ASSUME TypeInv, ArchiveInv, [Next]_vars, "power" \notin Faults, NEW id \in EventId
    PROVE  RowBacked(id)'
  <1>1. ObjectsKept /\ RowIdentityKept
    BY ObjectsStep, RowIdentityStep DEF ArchiveInv
  <1>2. rows[id] # NoRow =>
            rows[id].storage_uri \in Uri \cup {None} /\ rows[id].raw_envelope_json \in RawText
    BY DEF TypeInv, TypeOK, LedgerTypeOK, Row
  <1>3. Absent \notin RawText
    BY IngestServiceAssumption
  <1>4. CASE rows'[id] = rows[id]
    BY <1>1, <1>2, <1>3, <1>4 DEF ArchiveInv, RowBacked, ObjectsKept
  <1>5. ASSUME NEW r \in Request, Insert(r), rows'[id] # rows[id] PROVE RowBacked(id)'
    BY <1>5 DEF Insert, InsertReceived, ReceivedRow, RowBacked, TypeInv, TypeOK, LedgerTypeOK
  <1>6. ASSUME NEW r \in Request, CommitStored(r) \/ CommitFailed(r), rows'[id] # rows[id]
        PROVE  RowBacked(id)'
    <2>1. id = Id(r) /\ rows[id] # NoRow
      BY <1>6, UpdatedRow
    <2>2. /\ UNCHANGED files
          /\ rows'[id].raw_envelope_json = rows[id].raw_envelope_json
      BY <1>1, <1>6, <2>1 DEF RowIdentityKept, CommitStored, CommitFailed, fsvars
    <2>3. CASE CommitStored(r)
      <3>1. rows[id].raw_envelope_json = Raw(r)
        BY <2>1, <2>3, PastTheGate DEF CommitStored, PastGate, ArchiveInv
      <3>2. rows'[id].storage_uri = PathFor(env[r]) /\ files[PathFor(env[r])] = Raw(r)
        BY <2>1, <2>3, CommittedRow DEF ArchiveInv
      <3> QED
        BY <2>2, <3>1, <3>2 DEF RowBacked
    <2>4. CASE CommitFailed(r)
      <3>1. rows'[id].storage_uri = rows[id].storage_uri
        BY <2>1, <2>4, CommittedRow DEF ArchiveInv
      <3> QED
        BY <2>1, <2>2, <3>1 DEF ArchiveInv, RowBacked
    <2> QED
      BY <1>6, <2>3, <2>4
  <1>7. ASSUME NEW r \in Request, Handle(r) PROVE RowBacked(id)'
    BY <1>4, <1>5, <1>6, <1>7
    DEF Handle, ledgervars, Submit, Lookup, Reread, RecordConflict, RecordDuplicate,
        WriteRawEvent, LoadForStored, Refresh, RecordStored, RecordFailed,
        LoadForFailed, RefreshFailed, LedgerFault, Crash
  <1> QED
    BY <1>4, <1>7 DEF Next, PowerLoss, FS!PowerLoss, vars, ledgervars

(* Requests, rows, objects and answers stay in accord: the invariant that  *)
(* the theorems below follow from.                                         *)
THEOREM ArchiveInvariant ==
    ASSUME require_event_hash, "power" \notin Faults
    PROVE  Spec => [](TypeInv /\ ArchiveInv)
  <1>1. Init => ArchiveInv
    BY GateInit DEF Init, LedgerInit, ArchiveInv, RowBacked
  <1>2. TypeInv /\ ArchiveInv /\ [Next]_vars => ArchiveInv'
    BY GateStep, BackedStep DEF ArchiveInv
  <1> QED
    BY <1>1, <1>2, TypeInit, TypeStep, PTL DEF Spec

(* Acknowledge only after durability: a request told "stored" or           *)
(* "duplicate" holds a URI whose object is exactly its own text.           *)
THEOREM AcknowledgedIsArchived ==
    ASSUME require_event_hash, "power" \notin Faults
    PROVE  Spec => []AckedIsArchived
  <1>1. TypeInv /\ ArchiveInv => AckedIsArchived
    BY EnvelopeType1
    DEF ArchiveInv, GateInv, RequestInv, AckRow, RowBacked, AckedIsArchived, TypeInv, TypeOK, Id
  <1> QED
    BY <1>1, ArchiveInvariant, PTL

(* A row that names an object agrees with it.                              *)
THEOREM LedgerMatchesArchive ==
    ASSUME require_event_hash, "power" \notin Faults
    PROVE  Spec => []LedgerAgreesWithArchive
  <1>1. TypeInv /\ ArchiveInv => LedgerAgreesWithArchive
    BY DEF ArchiveInv, GateInv, LedgerInv, RowGenuine, RowBacked, LedgerAgreesWithArchive
  <1> QED
    BY <1>1, ArchiveInvariant, PTL

(* An archived object never changes and never goes away.                   *)
THEOREM ObjectsAreImmutable ==
    ASSUME require_event_hash, "power" \notin Faults
    PROVE  Spec => ArchiveImmutable
  <1>1. TypeInv /\ ArchiveInv /\ [Next]_vars => ObjectsKept
    BY ObjectsStep DEF ArchiveInv
  <1> QED
    BY <1>1, ArchiveInvariant, PTL DEF Spec, ArchiveImmutable
=============================================================================
