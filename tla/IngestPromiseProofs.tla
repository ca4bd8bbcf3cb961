------------------------- MODULE IngestPromiseProofs -------------------------
(***************************************************************************)
(* What requests are told, besides success: that a conflict has a rival    *)
(* who really sent another event, in every configuration and across every  *)
(* failure; with event hashes required, that a resubmission of what was    *)
(* acknowledged is a duplicate as long as no attempt has failed; and,      *)
(* while the power stays on, that the object a conflict names is the       *)
(* rival's and that ingestion keeps the promise of EventArchive.           *)
(***************************************************************************)
EXTENDS IngestArchiveProofs, IngestServiceRefinement

(* A request is answered once, at its last step.                           *)
Unanswered(r) == pc[r] \in {"idle"} \cup InProgress => answer[r].status = "none"

(* A row was inserted by a request that passed validation.                 *)
RowSent(id) ==
    rows[id] # NoRow =>
        \E q \in Request :
            /\ pc[q] # "idle" /\ answer[q].status # "invalid_hash"
            /\ Id(q) = id
            /\ rows[id].event_sha256 = env[q].event_sha256
            /\ rows[id].payload_sha256 = env[q].payload_sha256
            /\ rows[id].raw_envelope_json = Raw(q)

(* A conflict is about a row of another event.                             *)
Conflicting(r) ==
    /\ pc[r] = "record_conflict" => Contradicts(r)
    /\ answer[r].status \in ConflictAnswer => Contradicts(r)

(* An event is refused for its hashes only if they are wrong.              *)
Refused(r) == answer[r].status = "invalid_hash" => ~HashesValid(env[r])

PromiseInv ==
    /\ \A id \in EventId : RowSent(id)
    /\ \A r \in Request : Unanswered(r) /\ Conflicting(r) /\ Refused(r)

-----------------------------------------------------------------------------
(* In every configuration.                                                 *)

LEMMA PromiseInit == Init => PromiseInv
  BY DEF Init, LedgerInit, PromiseInv, RowSent, Unanswered, Conflicting, ConflictAnswer, Refused

LEMMA PromiseStep == TypeInv /\ PromiseInv /\ [Next]_vars => PromiseInv'
  <1> SUFFICES ASSUME TypeInv, PromiseInv, [Next]_vars PROVE PromiseInv'
    OBVIOUS
  <1>1. RowIdentityKept
    BY RowIdentityStep
  <1>2. ASSUME NEW r \in Request, Handle(r) PROVE PromiseInv'
    <2>1. /\ UNCHANGED env /\ \A q \in Request : Id(q) \in EventId
          /\ \A q \in Request : Id(q)' = Id(q) /\ Raw(q)' = Raw(q)
      BY <1>2, RequestMoves, EnvelopeType1 DEF Id, Raw, TypeInv, TypeOK
    <2>2. \A q \in Request : pc[q] # "idle" /\ answer[q].status # "invalid_hash"
              => pc'[q] # "idle" /\ answer'[q].status # "invalid_hash"
      BY <1>2, RequestMoves DEF InProgress, LedgerStep
    <2>3. ASSUME NEW id \in EventId PROVE RowSent(id)'
      <3>1. CASE rows[id] # NoRow
        BY <1>1, <2>1, <2>2, <3>1 DEF PromiseInv, RowSent, RowIdentityKept
      <3>2. CASE rows[id] = NoRow /\ rows'[id] # NoRow
        <4>1. /\ Insert(r) /\ id = Id(r)
              /\ rows'[id].event_sha256 = env[r].event_sha256
              /\ rows'[id].payload_sha256 = env[r].payload_sha256
              /\ rows'[id].raw_envelope_json = Raw(r)
          BY <1>2, <3>2, RowsComeFromInserts
        <4>2. pc[r] # "idle" /\ answer[r].status # "invalid_hash"
          BY <4>1 DEF Insert, PromiseInv, Unanswered, InProgress, LedgerStep
        <4> QED
          BY <2>1, <2>2, <4>1, <4>2 DEF RowSent
      <3>3. CASE rows'[id] = NoRow
        BY <3>3 DEF RowSent
      <3> QED
        BY <3>1, <3>2, <3>3
    <2>4. ASSUME NEW q \in Request PROVE Unanswered(q)'
      BY <1>2, RequestMoves DEF PromiseInv, Unanswered, InProgress, LedgerStep
    <2>5. ASSUME NEW q \in Request, Contradicts(q) PROVE Contradicts(q)'
      BY <1>1, <2>1, <2>5 DEF Contradicts, RowIdentityKept
    <2>6. ASSUME NEW q \in Request PROVE Conflicting(q)'
      <3>1. \/ pc'[q] = pc[q] /\ answer'[q] = answer[q]
            \/ /\ pc'[q] = "record_conflict" => Contradicts(q)
               /\ answer'[q].status \in ConflictAnswer =>
                     answer'[q] = answer[q] \/ pc[q] = "record_conflict"
        BY <1>2, RequestMoves
      <3> QED
        BY <2>5, <3>1 DEF PromiseInv, Conflicting
    <2>7. ASSUME NEW q \in Request PROVE Refused(q)'
      <3>1. HashesValid(env[q])' = HashesValid(env[q])
        BY <2>1 DEF HashesValid, canonical_event_without_event_hash, sha256_json
      <3>2. answer'[q].status = "invalid_hash" => ~HashesValid(env[q]) \/ answer'[q] = answer[q]
        BY <1>2, RequestMoves
      <3> QED
        BY <3>1, <3>2 DEF PromiseInv, Refused
    <2> QED
      BY <2>3, <2>4, <2>6, <2>7 DEF PromiseInv
  <1>3. CASE PowerLoss
    <2>1. /\ UNCHANGED <<env, answer, rows>>
          /\ \A q \in Request : pc'[q] = pc[q] \/ (pc[q] \in InProgress /\ pc'[q] = "dead")
      BY <1>3 DEF PowerLoss, ledgervars
    <2>2. \A id \in EventId : RowSent(id)'
      BY <2>1 DEF PromiseInv, RowSent, Id, Raw
    <2>3. \A q \in Request : Unanswered(q)' /\ Conflicting(q)' /\ Refused(q)'
      BY <2>1 DEF PromiseInv, Unanswered, Conflicting, Contradicts, Refused, Id, HashesValid,
         InProgress, LedgerStep
    <2> QED
      BY <2>2, <2>3 DEF PromiseInv
  <1>4. CASE UNCHANGED vars
    BY <1>4 DEF vars, ledgervars, PromiseInv, RowSent, Unanswered, Conflicting, Contradicts,
       Refused, HashesValid, Id, Raw
  <1> QED
    BY <1>2, <1>3, <1>4 DEF Next

(* What has been sent, refused and denied stays in accord with the rows.   *)
THEOREM PromiseInvariant == Spec => [](TypeInv /\ PromiseInv)
  BY TypeInit, PromiseInit, TypeStep, PromiseStep, PTL DEF Spec

(* An envelope that passed validation has the id of r's and is another,    *)
(* and the row is its row.                                                 *)
Rival(q, r) ==
    /\ Id(q) = Id(r) /\ env[q] # env[r]
    /\ pc[q] # "idle" /\ answer[q].status # "invalid_hash"
    /\ rows[Id(r)] # NoRow /\ rows[Id(r)].raw_envelope_json = Raw(q)

LEMMA ConflictHasRival ==
    ASSUME TypeInv, PromiseInv, NEW r \in Request,
           Contradicts(r)
    PROVE  \E q \in Request : Rival(q, r)
  <1>1. Id(r) \in EventId
    BY EnvelopeType1 DEF TypeInv, TypeOK, Id
  <1>2. PICK q \in Request :
            /\ pc[q] # "idle" /\ answer[q].status # "invalid_hash"
            /\ Id(q) = Id(r)
            /\ rows[Id(r)].event_sha256 = env[q].event_sha256
            /\ rows[Id(r)].payload_sha256 = env[q].payload_sha256
            /\ rows[Id(r)].raw_envelope_json = Raw(q)
    BY <1>1 DEF PromiseInv, RowSent, Contradicts
  <1> QED
    BY <1>2 DEF Rival, Contradicts

(* Losing a race against one's own retry, or meeting what a crash, a       *)
(* failed attempt or a power loss has left, is never a conflict: whatever  *)
(* is configured and whatever fails, the row is another request's.         *)
THEOREM ConflictsHaveRivals ==
    Spec => [](\A r \in Request : answer[r].status \in ConflictAnswer =>
                   \E q \in Request : Rival(q, r))
  <1>1. TypeInv /\ PromiseInv =>
            \A r \in Request : answer[r].status \in ConflictAnswer =>
                \E q \in Request : Rival(q, r)
    BY ConflictHasRival DEF PromiseInv, Conflicting
  <1> QED
    BY <1>1, PromiseInvariant, PTL

-----------------------------------------------------------------------------
(* Replays.                                                                *)

StoredRow(id) == rows[id] # NoRow /\ rows[id].status = "stored"

(* As long as no attempt for it has failed, a row that was seen stored is  *)
(* stored still, and a request that is about to succeed has seen that.     *)
StoredSeen(r) ==
    Unfailed(Id(r)) =>
        /\ snap[r] # NoRow /\ snap[r].status = "stored" => StoredRow(Id(r))
        /\ pc[r] \in {"refresh", "record_stored", "record_duplicate"} => StoredRow(Id(r))
        /\ Acked(r) => StoredRow(Id(r))

(* The row accepts a replay, which so takes the short cut.                 *)
ShortCut(r) ==
    replayed[r] # "no" =>
        /\ RowMatches(r)
        /\ Unfailed(Id(r)) =>
              /\ StoredRow(Id(r))
              /\ pc[r] \in {"idle", "lookup", "record_duplicate", "done", "dead"}
              /\ pc[r] = "done" => AnsweredAsReplay(r)

ReplayInv ==
    \A r \in Request :
        /\ pc[r] = "idle" => replayed[r] = "no"
        /\ StoredSeen(r) /\ ShortCut(r)

(* What mark_stored and mark_failed do to the status.                      *)
LEMMA FlushStatus ==
    ASSUME NEW current \in Row, NEW loaded \in Row, NEW uri, NEW new,
           new = Flush(current, loaded, AsStored(loaded, uri))
    PROVE  /\ loaded.status = "stored" => new.status = current.status
           /\ loaded.status # "stored" => new.status = "stored"
  BY DEF Flush, AsStored, Row

(* An acknowledged event has a row with its text and hashes.               *)
LEMMA AckedRow ==
    ASSUME TypeInv, GateInv, PromiseInv, NEW r \in Request, Acked(r)
    PROVE  /\ HashesValid(env[r]) /\ rows[Id(r)] # NoRow /\ ~Contradicts(r)
           /\ rows[Id(r)].storage_uri # None
  <1>1. env[r] \in Envelope /\ Id(r) \in EventId
    BY EnvelopeType1 DEF TypeInv, TypeOK, Id
  <1>2. /\ rows[Id(r)] # NoRow /\ rows[Id(r)].raw_envelope_json = Raw(r)
        /\ rows[Id(r)].storage_uri # None
    BY DEF GateInv, RequestInv, AckRow
  <1>3. HashesValid(env[r])
    BY <1>1, <1>2, TextAndPath DEF GateInv, LedgerInv, RowGenuine, Raw
  <1>4. ~Contradicts(r)
    <2>1. ASSUME NEW q \in Request, Rival(q, r) PROVE FALSE
      BY <1>1, <1>2, <2>1, TextAndPath DEF Rival, Raw, TypeInv, TypeOK
    <2> QED
      BY <2>1, ConflictHasRival
  <1> QED
    BY <1>2, <1>3, <1>4

(* Where no attempt has failed, nothing takes the status back, and the     *)
(* commit of mark_stored sets it.                                          *)
LEMMA StoredStays ==
    ASSUME TypeInv, ErrorInv, ReplayInv, NEW r \in Request, Handle(r),
           NEW id \in EventId, Unfailed(id)
    PROVE  /\ StoredRow(id) => StoredRow(id)'
           /\ CommitStored(r) /\ id = Id(r) => StoredRow(id)'
  <1>1. CASE UNCHANGED rows
    <2>1. ~CommitStored(r) \/ id # Id(r) \/ StoredRow(id)
      <3>1. ASSUME CommitStored(r), id = Id(r) PROVE StoredRow(id)
        <4> DEFINE new == Flush(rows[id], snap[r], AsStored(snap[r], PathFor(env[r])))
        <4>1. snap[r] \in Row /\ rows[id] \in Row /\ rows[id] # NoRow /\ snap[r] # NoRow
          BY <3>1, IngestServiceAssumption
          DEF CommitStored, TypeInv, TypeOK, LedgerTypeOK, RowPresent, SnapPresent, UsesSnap,
              PastInsert, InProgress, LedgerStep
        <4>2. rows'[id] = new
          BY <3>1 DEF CommitStored, CommitUpdate, TypeInv, TypeOK, LedgerTypeOK
        <4>3. snap[r].status # "stored" => new.status = "stored"
          BY <4>1, FlushStatus
        <4> HIDE DEF new
        <4> QED
          BY <1>1, <3>1, <4>1, <4>2, <4>3 DEF ReplayInv, StoredSeen, StoredRow
      <3> QED
        BY <3>1
    <2> QED
      BY <1>1, <2>1 DEF StoredRow
  <1>2. CASE Insert(r)
    BY <1>2 DEF Insert, InsertReceived, CommitStored, StoredRow, TypeInv, TypeOK, LedgerTypeOK
  <1>3. CASE CommitStored(r)
    <2> DEFINE new == Flush(rows[Id(r)], snap[r], AsStored(snap[r], PathFor(env[r])))
    <2>1. /\ snap[r] \in Row /\ rows[Id(r)] \in Row /\ Id(r) \in EventId
          /\ rows[Id(r)] # NoRow /\ snap[r] # NoRow
      BY <1>3, EnvelopeType1, IngestServiceAssumption
      DEF CommitStored, TypeInv, TypeOK, LedgerTypeOK, RowPresent, SnapPresent, UsesSnap,
          PastInsert, InProgress, LedgerStep, Id
    <2>2. rows' = [rows EXCEPT ![Id(r)] = new]
      BY <1>3 DEF CommitStored, CommitUpdate
    <2>3. /\ snap[r].status = "stored" => new.status = rows[Id(r)].status
          /\ snap[r].status # "stored" => new.status = "stored"
      BY <2>1, FlushStatus
    <2>4. rows'[Id(r)] # NoRow
      BY <2>1, RowIdentityStep DEF Next, RowIdentityKept
    <2> HIDE DEF new
    <2> QED
      BY <2>1, <2>2, <2>3, <2>4 DEF ReplayInv, StoredSeen, StoredRow, TypeInv, TypeOK, LedgerTypeOK
  <1>4. CASE CommitFailed(r)
    <2>1. Id(r) # id
      BY <1>4 DEF CommitFailed, ErrorInv, Failing
    <2>2. rows'[id] = rows[id]
      BY <1>4, <2>1 DEF CommitFailed, CommitUpdate, TypeInv, TypeOK, LedgerTypeOK
    <2>3. ~CommitStored(r)
      BY <1>4 DEF CommitFailed, CommitStored
    <2> QED
      BY <2>2, <2>3 DEF StoredRow
  <1> QED
    BY <1>1, <1>2, <1>3, <1>4
    DEF Handle, ledgervars, Submit, Lookup, Reread, RecordConflict, RecordDuplicate,
        WriteRawEvent, LoadForStored, Refresh, RecordStored, RecordFailed,
        LoadForFailed, RefreshFailed, LedgerFault, Crash

(* How a request comes to succeed or to be a replay.                       *)
LEMMA ReplayMoves ==
    ASSUME TypeInv, PromiseInv, NEW r \in Request, Handle(r)
    PROVE  /\ snap'[r] = snap[r] \/ (snap'[r] = rows[Id(r)] /\ UNCHANGED rows)
           /\ pc'[r] = "refresh" => CommitStored(r)
           /\ pc'[r] = "record_stored" => pc[r] = "refresh"
           /\ pc'[r] = "record_duplicate" => StoredRow(Id(r)) /\ UNCHANGED rows
           /\ Acked(r)' => pc[r] \in {"record_stored", "record_duplicate"}
           /\ Submit(r) \/ UNCHANGED replayed
           /\ pc[r] = "record_duplicate" => \/ pc'[r] = "dead"
                                            \/ answer'[r].status \in {"duplicate", "server_error"}
           /\ pc[r] = "lookup" => \/ Lookup(r) \/ pc'[r] = "dead"
                                  \/ answer'[r].status = "server_error"
  <1> USE DEF Goto, Answer, ReadRow, TypeInv, TypeOK, Acked, Success, StoredRow
  <1>1. CASE Submit(r)
    <2>1. /\ pc[r] = "idle" /\ UNCHANGED snap
          /\ \/ pc' = [pc EXCEPT ![r] = "lookup"] /\ answer' = answer
             \/ /\ pc' = [pc EXCEPT ![r] = "done"]
                /\ answer' = [answer EXCEPT ![r] =
                                [status |-> "invalid_hash", storage_uri |-> None]]
      BY <1>1 DEF Submit
    <2>2. answer[r].status = "none"
      BY <2>1 DEF PromiseInv, Unanswered
    <2> QED
      BY <1>1, <2>1, <2>2
  <1>2. CASE Lookup(r) \/ Reread(r)
    <2>1. /\ UNCHANGED <<rows, answer, replayed>> /\ snap' = [snap EXCEPT ![r] = rows[Id(r)]]
          /\ pc[r] \in {"lookup", "reread"} /\ pc' = [pc EXCEPT ![r] = pc'[r]]
          /\ pc'[r] \in {"insert", "record_conflict", "record_duplicate", "write"}
          /\ pc'[r] = "record_duplicate" => StoredRow(Id(r))
          /\ pc[r] = "lookup" => Lookup(r)
      BY <1>2 DEF Lookup, Reread, HandleExisting, ledgervars, RowPresent, PastInsert,
         InProgress, LedgerStep
    <2>2. answer[r].status = "none"
      BY <2>1 DEF PromiseInv, Unanswered, InProgress, LedgerStep
    <2> QED
      BY <2>1, <2>2
  <1>3. CASE Insert(r) \/ LoadForStored(r) \/ CommitStored(r) \/ Refresh(r)
             \/ RecordFailed(r) \/ LoadForFailed(r) \/ CommitFailed(r) \/ Crash(r)
    <2>1. answer[r].status = "none" /\ answer' = answer
      BY <1>3 DEF PromiseInv, Unanswered, InProgress, LedgerStep, Insert, LoadForStored,
         CommitStored, Refresh, RecordFailed, LoadForFailed, CommitFailed, Crash
    <2> QED
      BY <1>3, <2>1 DEF Insert, LoadForStored, CommitStored, Refresh, RecordFailed,
         LoadForFailed, CommitFailed, Crash, ledgervars
  <1>4. CASE RecordConflict(r)
    BY <1>4 DEF RecordConflict
  <1>5. CASE RecordDuplicate(r) \/ RecordStored(r) \/ RefreshFailed(r) \/ LedgerFault(r)
    BY <1>5 DEF RecordDuplicate, RecordStored, RefreshFailed, LedgerFault
  <1>6. CASE WriteRawEvent(r)
    <2>1. answer[r].status = "none" /\ answer' = answer
      BY <1>6 DEF PromiseInv, Unanswered, InProgress, WriteRawEvent
    <2> QED
      BY <1>6, <2>1 DEF WriteRawEvent, StoreAndMark
  <1> QED
    BY <1>1, <1>2, <1>3, <1>4, <1>5, <1>6 DEF Handle

(* What a call comes in with, if its event was acknowledged or stored.     *)
LEMMA ReplayGround ==
    ASSUME TypeInv, OriginInv, GateInv, PromiseInv, ReplayInv, NEW r \in Request,
           Replays(r) # "no"
    PROVE  /\ HashesValid(env[r]) /\ RowMatches(r)
           /\ Unfailed(Id(r)) => StoredRow(Id(r))
  <1>1. env[r] \in Envelope /\ Id(r) \in EventId
    BY EnvelopeType1 DEF TypeInv, TypeOK, Id
  <1>2. ASSUME NEW x \in Request, Acked(x), env[x] = env[r]
        PROVE  /\ HashesValid(env[r]) /\ RowMatches(r)
               /\ Unfailed(Id(r)) => StoredRow(Id(r))
    <2>1. Id(x) = Id(r)
      BY <1>2 DEF Id
    <2>2. HashesValid(env[x]) /\ rows[Id(x)] # NoRow /\ ~Contradicts(x)
      BY <1>2, AckedRow
    <2>3. Unfailed(Id(x)) => StoredRow(Id(x))
      BY <1>2 DEF ReplayInv, StoredSeen
    <2> QED
      BY <1>2, <2>1, <2>2, <2>3 DEF Contradicts, RowMatches, RowHasHash
  <1>3. CASE StoredBefore(r)
    <2>1. rows[Id(r)] # NoRow /\ RowOrigin(Id(r))
      BY <1>1, <1>3 DEF StoredBefore, OriginInv
    <2>2. PICK e \in Envelope :
            /\ HashesValid(e) /\ e.event_id = Id(r)
            /\ rows[Id(r)].event_sha256 = e.event_sha256
            /\ rows[Id(r)].payload_sha256 = e.payload_sha256
            /\ rows[Id(r)].raw_envelope_json = canonical_json_text(e)
      BY <2>1 DEF RowOrigin
    <2>3. e = env[r]
      BY <1>1, <1>3, <2>2, TextAndPath DEF StoredBefore, Raw
    <2> QED
      BY <1>3, <2>1, <2>2, <2>3 DEF StoredBefore, StoredRow, RowMatches, RowHasHash
  <1> QED
    BY <1>2, <1>3 DEF Replays, Acknowledged, Acked

LEMMA ReplayStep ==
    /\ TypeInv /\ OriginInv /\ ErrorInv /\ GateInv /\ PromiseInv /\ ReplayInv
    /\ [Next]_vars
    => ReplayInv'
  <1> SUFFICES ASSUME TypeInv, OriginInv, ErrorInv, GateInv, PromiseInv, ReplayInv, [Next]_vars
               PROVE  ReplayInv'
    OBVIOUS
  <1>1. ASSUME NEW r \in Request, Handle(r), NEW q \in Request
        PROVE  /\ pc'[q] = "idle" => replayed'[q] = "no"
               /\ StoredSeen(q)' /\ ShortCut(q)'
    <2>0. /\ Id(q) \in EventId /\ Id(r) \in EventId /\ UNCHANGED env
          /\ \A x \in Request : Id(x)' = Id(x)
      BY <1>1, RequestMoves, EnvelopeType1 DEF TypeInv, TypeOK, Id
    <2>1. /\ Unfailed(Id(q))' => Unfailed(Id(q))
          /\ Unfailed(Id(q)) /\ StoredRow(Id(q)) => StoredRow(Id(q))'
      <3>1. \A id \in EventId : ~Unfailed(id) => ~Unfailed(id)'
        BY <1>1, FailuresStay
      <3>2. \A id \in EventId : Unfailed(id) /\ StoredRow(id) => StoredRow(id)'
        BY <1>1, StoredStays
      <3> QED
        BY <2>0, <3>1, <3>2 DEF Unfailed, StoredRow
    <2>2. RowMatches(q) => RowMatches(q)'
      BY <2>0, RowIdentityStep DEF RowMatches, RowHasHash, RowIdentityKept
    <2>3. CASE q # r
      <3>1. /\ pc'[q] = pc[q] /\ snap'[q] = snap[q] /\ answer'[q] = answer[q]
            /\ replayed'[q] = replayed[q]
        BY <1>1, <2>3, RequestMoves, GhostsStay
      <3>2. StoredSeen(q)'
        BY <2>0, <2>1, <3>1 DEF ReplayInv, StoredSeen, Acked, Unfailed, StoredRow
      <3>3. ShortCut(q)'
        BY <2>0, <2>1, <2>2, <3>1
        DEF ReplayInv, ShortCut, AnsweredAsReplay, Unfailed, StoredRow
      <3> QED
        BY <3>1, <3>2, <3>3 DEF ReplayInv
    <2>4. CASE q = r
      <3>1. pc'[r] # "idle"
        BY <1>1, RequestMoves DEF InProgress, LedgerStep
      <3>2. ASSUME Unfailed(Id(r))
            PROVE  /\ snap'[r] # NoRow /\ snap'[r].status = "stored" => StoredRow(Id(r))'
                   /\ pc'[r] \in {"refresh", "record_stored", "record_duplicate"} =>
                         StoredRow(Id(r))'
                   /\ Acked(r)' => StoredRow(Id(r))'
        <4>1. StoredRow(Id(r)) => StoredRow(Id(r))'
          BY <2>1, <2>4, <3>2
        <4>2. snap'[r] # NoRow /\ snap'[r].status = "stored" => StoredRow(Id(r))'
          <5>1. CASE snap'[r] = snap[r]
            BY <3>2, <4>1, <5>1 DEF ReplayInv, StoredSeen
          <5>2. CASE snap'[r] = rows[Id(r)]
            BY <4>1, <5>2 DEF StoredRow
          <5> QED
            BY <1>1, <5>1, <5>2, ReplayMoves
        <4>3. CommitStored(r) => StoredRow(Id(r))'
          <5>1. \A id \in EventId : Unfailed(id) /\ CommitStored(r) /\ id = Id(r)
                                       => StoredRow(id)'
            BY <1>1, StoredStays
          <5> QED
            BY <2>0, <3>2, <5>1 DEF StoredRow
        <4> QED
          BY <1>1, <3>2, <4>1, <4>2, <4>3, ReplayMoves DEF ReplayInv, StoredSeen
      <3>3. StoredSeen(r)'
        BY <2>0, <2>1, <2>4, <3>2 DEF StoredSeen, Unfailed, StoredRow
      <3>4. CASE Submit(r)
        <4>1. /\ replayed'[r] = Replays(r) /\ pc[r] = "idle"
              /\ HashesValid(env[r]) => pc' = [pc EXCEPT ![r] = "lookup"]
          BY <3>4, SubmitGhosts DEF Submit, Goto, TypeInv
        <4>2. Replays(r) # "no" => /\ HashesValid(env[r]) /\ RowMatches(r)
                                   /\ Unfailed(Id(r)) => StoredRow(Id(r))
          BY ReplayGround
        <4>3. Replays(r) # "no" => pc'[r] = "lookup"
          BY <4>1, <4>2 DEF TypeInv, TypeOK
        <4>4. ShortCut(r)'
          BY <2>0, <2>1, <2>2, <2>4, <4>1, <4>2, <4>3 DEF ShortCut, Unfailed, StoredRow
        <4> QED
          BY <2>4, <3>1, <3>3, <4>4
      <3>5. CASE ~Submit(r)
        <4>1. replayed' = replayed
          BY <1>1, <3>5, ReplayMoves
        <4>2. ASSUME replayed[r] # "no", Unfailed(Id(r))
              PROVE  /\ pc'[r] \in {"record_duplicate", "done", "dead"}
                     /\ pc'[r] = "done" => answer'[r].status \in {"duplicate", "server_error"}
          <5>1. RowMatches(r) /\ StoredRow(Id(r)) /\ pc[r] \in {"lookup", "record_duplicate"}
            BY <1>1, <4>2, RequestMoves DEF ReplayInv, ShortCut, InProgress, LedgerStep
          <5>2. rows[Id(r)].storage_uri # None
            BY <2>0, <5>1 DEF StoredRow, GateInv, LedgerInv, RowGenuine
          <5>3. Lookup(r) => pc'[r] = "record_duplicate"
            BY <5>1, <5>2
            DEF Lookup, HandleExisting, RowMatches, RowHasHash, StoredRow, Goto, TypeInv, TypeOK
          <5>4. /\ pc'[r] \in InProgress \cup {"dead"} \/ pc'[r] = "done"
                /\ pc'[r] = "done" \/ answer'[r] = answer[r]
                /\ answer[r].status = "none"
            BY <1>1, RequestMoves DEF PromiseInv, Unanswered
          <5> QED
            BY <1>1, <5>1, <5>3, <5>4, ReplayMoves
        <4>3. ShortCut(r)'
          BY <2>0, <2>1, <2>2, <2>4, <4>1, <4>2
          DEF ReplayInv, ShortCut, AnsweredAsReplay, Unfailed, StoredRow
        <4> QED
          BY <2>4, <3>1, <3>3, <4>3
      <3> QED
        BY <3>4, <3>5
    <2> QED
      BY <2>3, <2>4
  <1>2. CASE UNCHANGED vars
    BY <1>2 DEF vars, ledgervars, ReplayInv, StoredSeen, ShortCut, AnsweredAsReplay, Unfailed,
       StoredRow, RowMatches, RowHasHash, Acked, Id
  <1>3. CASE PowerLoss
    <2>1. /\ UNCHANGED <<env, snap, answer, replayed, rows, attempts>>
          /\ \A q \in Request : pc'[q] = pc[q] \/ pc'[q] = "dead"
      BY <1>3 DEF PowerLoss, ledgervars
    <2> QED
      BY <2>1 DEF ReplayInv, StoredSeen, ShortCut, AnsweredAsReplay, Unfailed, StoredRow,
         RowMatches, RowHasHash, Acked, Id
  <1> QED
    BY <1>1, <1>2, <1>3 DEF Next, ReplayInv

(* As long as no attempt for its id is on record as failed, a resubmission *)
(* of what was acknowledged, or stored without the answer getting through, *)
(* is a duplicate in every interleaving, across crashes and power loss.    *)
THEOREM OnlyFailureSpoilsReplayEver ==
    ASSUME require_event_hash
    PROVE  Spec => []OnlyFailureSpoilsReplay
  <1>1. Init => ReplayInv
    BY DEF Init, ReplayInv, StoredSeen, ShortCut, Acked, Success
  <1>2. ReplayInv => OnlyFailureSpoilsReplay
    BY DEF ReplayInv, ShortCut, Unfailed, OnlyFailureSpoilsReplay
  <1> QED
    BY <1>1, <1>2, Invariants, GateInvariant, PromiseInvariant, ReplayStep, PTL DEF Spec
-----------------------------------------------------------------------------
(* The object that a conflict names.                                       *)

(* It is the one that the row names.                                       *)
Pointing(r) ==
    /\ pc[r] = "record_conflict" /\ snap[r].storage_uri # None =>
           rows[Id(r)].storage_uri = snap[r].storage_uri
    /\ answer[r].status \in ConflictAnswer /\ answer[r].storage_uri # None =>
           rows[Id(r)].storage_uri = answer[r].storage_uri

PointInv == \A r \in Request : Pointing(r)

LEMMA PointStep == TypeInv /\ GateInv /\ PromiseInv /\ PointInv /\ [Next]_vars => PointInv'
  <1> SUFFICES ASSUME TypeInv, GateInv, PromiseInv, PointInv, [Next]_vars,
                      NEW q \in Request
               PROVE  Pointing(q)'
    BY DEF PointInv
  <1>1. UrisKept
    BY UrisStep
  <1>2. Id(q) \in EventId
    BY EnvelopeType1 DEF TypeInv, TypeOK, Id
  <1>3. pc[q] = "record_conflict" \/ answer[q].status \in ConflictAnswer => rows[Id(q)] # NoRow
    BY DEF PromiseInv, Conflicting, Contradicts
  <1>4. ASSUME Id(q)' = Id(q), snap'[q] = snap[q], answer'[q] = answer[q],
               pc'[q] = pc[q] \/ pc'[q] = "dead"
        PROVE  Pointing(q)'
    BY <1>1, <1>2, <1>3, <1>4 DEF PointInv, Pointing, UrisKept
  <1>5. ASSUME NEW r \in Request, Handle(r) PROVE Pointing(q)'
    <2>1. Id(q)' = Id(q)
      BY <1>5, RequestMoves DEF Id
    <2>2. CASE q # r
      BY <1>4, <1>5, <2>1, <2>2, RequestMoves
    <2>3. CASE q = r
      <3>1. /\ pc'[r] = "record_conflict" => snap'[r] = rows[Id(r)] /\ UNCHANGED rows
            /\ answer'[r].status \in ConflictAnswer =>
                  \/ answer'[r] = answer[r]
                  \/ /\ pc[r] = "record_conflict" /\ UNCHANGED rows
                     /\ answer'[r].storage_uri \in {None, snap[r].storage_uri}
        BY <1>5, RequestMoves
      <3>2. /\ pc'[r] = "record_conflict" /\ snap'[r].storage_uri # None =>
                  rows'[Id(r)].storage_uri = snap'[r].storage_uri
        BY <3>1
      <3>3. answer'[r].status \in ConflictAnswer /\ answer'[r].storage_uri # None =>
                  rows'[Id(r)].storage_uri = answer'[r].storage_uri
        BY <1>1, <1>2, <1>3, <2>3, <3>1 DEF PointInv, Pointing, UrisKept
      <3> QED
        BY <2>1, <2>3, <3>2, <3>3 DEF Pointing
    <2> QED
      BY <2>2, <2>3
  <1>6. CASE PowerLoss
    BY <1>4, <1>6 DEF PowerLoss, Id
  <1>7. CASE UNCHANGED vars
    BY <1>4, <1>7 DEF vars, Id
  <1> QED
    BY <1>5, <1>6, <1>7 DEF Next

(* A request is told of a conflict only if a different envelope with its   *)
(* event_id passed validation, and an object the answer names is that      *)
(* other event's.                                                          *)
THEOREM ConflictsAreGenuine ==
    ASSUME require_event_hash, "power" \notin Faults
    PROVE  Spec => []ConflictIsGenuine
  <1>1. Init => PointInv
    BY DEF Init, PointInv, Pointing, ConflictAnswer
  <1>2. TypeInv /\ ArchiveInv /\ PromiseInv /\ PointInv => ConflictIsGenuine
    <2> SUFFICES ASSUME TypeInv, ArchiveInv, PromiseInv, PointInv, NEW r \in Request,
                        answer[r].status \in ConflictAnswer
                 PROVE  /\ \E q \in Request :
                              /\ Id(q) = Id(r) /\ env[q] # env[r]
                              /\ pc[q] # "idle" /\ answer[q].status # "invalid_hash"
                        /\ answer[r].storage_uri # None =>
                              files[answer[r].storage_uri] \notin {Absent, Raw(r)}
      BY DEF ConflictIsGenuine, ConflictAnswer
    <2>1. Contradicts(r)
      BY DEF PromiseInv, Conflicting
    <2>2. PICK q \in Request : Rival(q, r)
      BY <2>1, ConflictHasRival
    <2>3. /\ Id(r) \in EventId /\ env[r] \in Envelope /\ env[q] \in Envelope
          /\ Raw(q) # Absent
      BY EnvelopeType1, TextIsPresent DEF TypeInv, TypeOK, Id, Raw
    <2>4. Raw(q) # Raw(r)
      BY <2>2, <2>3, TextAndPath DEF Rival, Raw
    <2>5. answer[r].storage_uri # None => files[answer[r].storage_uri] = Raw(q)
      BY <2>2, <2>3 DEF ArchiveInv, RowBacked, PointInv, Pointing, Rival
    <2> QED
      BY <2>2, <2>3, <2>4, <2>5 DEF Rival
  <1>3. TypeInv /\ ArchiveInv => GateInv
    BY DEF ArchiveInv
  <1> QED
    BY <1>1, <1>2, <1>3, PointStep, ArchiveInvariant, PromiseInvariant, PTL DEF Spec

-----------------------------------------------------------------------------
(* The refinement.                                                         *)

(* An id is bound by the insert of its row and by nothing else.            *)
LEMMA BindStep ==
    ASSUME TypeInv, RowIdentityKept, NEW r \in Request, Handle(r)
    PROVE  \/ UNCHANGED BoundText /\ \A id \in EventId : (rows'[id] = NoRow) = (rows[id] = NoRow)
           \/ /\ Insert(r) /\ rows[Id(r)] = NoRow
              /\ BoundText' = [BoundText EXCEPT ![Id(r)] = Raw(r)]
  <1>1. Id(r) \in EventId
    BY EnvelopeType1 DEF TypeInv, TypeOK, Id
  <1>2. CASE \A id \in EventId : rows[id] = NoRow => rows'[id] = NoRow
    BY <1>2 DEF RowIdentityKept, BoundText
  <1>3. ASSUME NEW new \in EventId, rows[new] = NoRow, rows'[new] # NoRow
        PROVE  /\ Insert(r) /\ rows[Id(r)] = NoRow
               /\ BoundText' = [BoundText EXCEPT ![Id(r)] = Raw(r)]
    <2>1. Insert(r) /\ new = Id(r) /\ rows'[new].raw_envelope_json = Raw(r)
      BY <1>3, RowsComeFromInserts
    <2>2. \A id \in EventId \ {new} : rows'[id] = rows[id]
      BY <1>3, <2>1 DEF Insert, InsertReceived, TypeInv, TypeOK, LedgerTypeOK
    <2> QED
      BY <1>1, <1>3, <2>1, <2>2 DEF BoundText
  <1> QED
    BY <1>2, <1>3

(* The object of an id becomes readable by a call of write_raw_event for   *)
(* it, and not by an insert: there is no object before the row.            *)
LEMMA KeepStep ==
    ASSUME TypeInv, ArchiveInv, RowIdentityKept, NEW r \in Request, Handle(r)
    PROVE  \/ UNCHANGED KeptText
           \/ /\ WriteRawEvent(r) /\ UNCHANGED BoundText
              /\ BoundText[Id(r)] = Raw(r)
              /\ KeptText' = [KeptText EXCEPT ![Id(r)] = Raw(r)]
  <1>1. Id(r) \in EventId /\ env[r] \in Envelope /\ Raw(r) \notin {None, Absent}
        /\ PathFor(env[r]) \in Uri
    BY EnvelopeType1, TextIsPresent, IngestServiceAssumption DEF TypeInv, TypeOK, Id, Raw
  <1>2. CASE UNCHANGED files
    <2>1. CASE \A id \in EventId : (rows'[id] = NoRow) = (rows[id] = NoRow)
      BY <1>2, <2>1 DEF RowIdentityKept, KeptText
    <2>2. ASSUME NEW new \in EventId, rows[new] = NoRow, rows'[new] # NoRow
          PROVE  UNCHANGED KeptText
      <3>1. Insert(r) /\ new = Id(r) /\ rows'[new].raw_envelope_json = Raw(r)
        BY <2>2, RowsComeFromInserts
      <3>2. \A id \in EventId \ {new} : rows'[id] = rows[id]
        BY <2>2, <3>1 DEF Insert, InsertReceived, TypeInv, TypeOK, LedgerTypeOK
      <3>3. ASSUME NEW u \in Uri, files[u] = Raw(r) PROVE FALSE
        <4>1. PICK e \in Envelope : /\ files[u] = canonical_json_text(e)
                                    /\ rows[e.event_id] # NoRow
          BY <1>1, <3>3 DEF ArchiveInv, GateInv, FilesInv, ObjectLedgered, TextLedgered
        <4>2. e = env[r]
          BY <1>1, <3>3, <4>1, TextAndPath DEF Raw
        <4> QED
          BY <2>2, <3>1, <4>1, <4>2 DEF Id
      <3> QED
        BY <1>2, <2>2, <3>1, <3>2, <3>3 DEF KeptText
    <2> QED
      BY <2>1, <2>2 DEF RowIdentityKept
  <1>3. CASE ~(UNCHANGED files)
    <2>1. WriteRawEvent(r)
      BY <1>3
      DEF Handle, fsvars, Submit, Lookup, Insert, Reread, RecordConflict, RecordDuplicate,
          LoadForStored, CommitStored, Refresh, RecordStored, RecordFailed,
          LoadForFailed, CommitFailed, RefreshFailed, LedgerFault, Crash
    <2>2. /\ pc[r] = "write" /\ UNCHANGED rows
          /\ files' = [files EXCEPT ![PathFor(env[r])] = Raw(r)]
      BY <1>3, <2>1, StorageStep DEF ArchiveInv, WriteRawEvent, ledgervars
    <2>3. /\ rows[Id(r)] # NoRow /\ rows[Id(r)].raw_envelope_json = Raw(r)
          /\ files[PathFor(env[r])] \in {Absent, Raw(r)}
      BY <2>2, PastTheGate, IngestServiceAssumption DEF ArchiveInv, PastGate
    <2>4. \A u \in Uri \ {PathFor(env[r])} : files'[u] = files[u]
      BY <2>2 DEF TypeInv, TypeOK, FS!TypeOK
    <2>5. files'[PathFor(env[r])] = Raw(r)
      BY <1>1, <2>2 DEF TypeInv, TypeOK, FS!TypeOK
    <2>6. UNCHANGED BoundText /\ BoundText[Id(r)] = Raw(r)
      BY <1>1, <2>2, <2>3 DEF BoundText
    <2>7. ASSUME NEW id \in EventId, id # Id(r), rows[id] # NoRow
          PROVE  rows[id].raw_envelope_json \notin {Absent, Raw(r)}
      <3>1. PICK e \in Envelope : /\ e.event_id = id
                                  /\ rows[id].raw_envelope_json = canonical_json_text(e)
        BY <2>7 DEF ArchiveInv, GateInv, LedgerInv, RowGenuine
      <3> QED
        BY <1>1, <2>7, <3>1, TextAndPath, TextIsPresent DEF Raw, Id
    <2>8. ASSUME NEW id \in EventId, id # Id(r), rows[id] # NoRow
          PROVE  (\E u \in Uri : files'[u] = rows[id].raw_envelope_json)
                 = (\E u \in Uri : files[u] = rows[id].raw_envelope_json)
      BY <2>3, <2>4, <2>5, <2>7, <2>8
    <2>9. KeptText' = [KeptText EXCEPT ![Id(r)] = Raw(r)]
      <3>1. \A id \in EventId \ {Id(r)} : KeptText'[id] = KeptText[id]
        BY <2>2, <2>8 DEF KeptText
      <3>2. KeptText'[Id(r)] = Raw(r)
        BY <1>1, <2>2, <2>3, <2>5 DEF KeptText
      <3> QED
        BY <1>1, <3>1, <3>2 DEF KeptText
    <2> QED
      BY <2>1, <2>6, <2>9
  <1> QED
    BY <1>2, <1>3

Verdicts == [r \in Request |-> Verdict(answer[r].status)]

(* A request is told one thing, once.                                      *)
LEMMA VerdictStep ==
    ASSUME TypeInv, PromiseInv, NEW r \in Request, Handle(r)
    PROVE  \/ UNCHANGED Verdicts
           \/ /\ Verdicts[r] = "none"
              /\ Verdicts' = [Verdicts EXCEPT ![r] = Verdict(answer'[r].status)]
              /\ pc'[r] = "done" /\ answer'[r] # answer[r]
  <1>1. answer[r].status = "none" /\ \A q \in Request \ {r} : answer'[q] = answer[q]
    BY RequestMoves DEF PromiseInv, Unanswered
  <1>2. CASE answer'[r] = answer[r]
    BY <1>1, <1>2 DEF Verdicts
  <1>3. CASE answer'[r] # answer[r]
    <2>1. pc'[r] = "done"
      BY <1>3, RequestMoves
    <2>2. Verdict("none") = "none"
      BY DEF Verdict, Success
    <2>3. Verdicts' = [Verdicts EXCEPT ![r] = Verdict(answer'[r].status)]
      BY <1>1 DEF Verdicts
    <2> QED
      BY <1>1, <1>3, <2>1, <2>2, <2>3 DEF Verdicts
  <1> QED
    BY <1>2, <1>3

(* Which answer says what, and on what ground.                             *)
LEMMA VerdictGround ==
    ASSUME TypeInv, ArchiveInv, PromiseInv, RowIdentityKept, NEW r \in Request, Handle(r),
           pc'[r] = "done", answer'[r] # answer[r]
    PROVE  \/ Verdict(answer'[r].status) = "refused"
           \/ /\ Verdict(answer'[r].status) = "acked"
              /\ UNCHANGED <<rows, files>> /\ KeptText[Id(r)] = Raw(r)
           \/ /\ Verdict(answer'[r].status) = "conflict"
              /\ UNCHANGED <<rows, files>> /\ BoundText[Id(r)] \notin {Nothing, Raw(r)}
  <1> USE DEF Answer, Goto
  <1>1. Id(r) \in EventId /\ env[r] \in Envelope /\ Raw(r) \notin {None, Absent}
        /\ PathFor(env[r]) \in Uri
    BY EnvelopeType1, TextIsPresent, IngestServiceAssumption DEF TypeInv, TypeOK, Id, Raw
  <1>2. CASE RecordConflict(r)
    <2>1. /\ answer'[r].status \in ConflictAnswer /\ UNCHANGED <<rows, files>>
          /\ pc[r] = "record_conflict"
      BY <1>2 DEF RecordConflict, fsvars, ConflictAnswer, TypeInv, TypeOK
    <2>2. Contradicts(r)
      BY <2>1 DEF PromiseInv, Conflicting
    <2>3. PICK q \in Request : Rival(q, r)
      BY <2>2, ConflictHasRival
    <2>4. env[q] \in Envelope /\ Raw(q) # None
      BY EnvelopeType1, IngestServiceAssumption DEF TypeInv, TypeOK, Raw
    <2>5. Raw(q) # Raw(r)
      BY <1>1, <2>3, <2>4, TextAndPath DEF Raw, Rival
    <2>6. BoundText[Id(r)] \notin {Nothing, Raw(r)}
      BY <1>1, <2>3, <2>4, <2>5 DEF BoundText, Rival, Nothing
    <2> QED
      BY <2>1, <2>6 DEF Verdict, ConflictAnswer, Success
  <1>3. CASE RecordDuplicate(r) \/ RecordStored(r)
    <2>1. /\ answer'[r].status \in Success /\ UNCHANGED <<rows, files>>
          /\ pc[r] \in {"record_duplicate", "record_stored"}
      BY <1>3 DEF RecordDuplicate, RecordStored, fsvars, Success, TypeInv, TypeOK
    <2>2. /\ rows[Id(r)] # NoRow /\ rows[Id(r)] \in Row
          /\ rows[Id(r)].raw_envelope_json = Raw(r)
      BY <2>1, PastTheGate, IngestServiceAssumption DEF ArchiveInv, PastGate
    <2>3. rows[Id(r)].storage_uri # None
      BY <2>1 DEF ArchiveInv, GateInv, RequestInv, SnapFits
    <2>4. rows[Id(r)].storage_uri \in Uri
      BY <2>2, <2>3 DEF Row
    <2>5. files[rows[Id(r)].storage_uri] = Raw(r)
      BY <1>1, <2>2, <2>3 DEF ArchiveInv, RowBacked
    <2>6. KeptText[Id(r)] = Raw(r)
      BY <1>1, <2>2, <2>4, <2>5 DEF KeptText
    <2> QED
      BY <2>1, <2>6 DEF Verdict, Success
  <1>4. CASE Submit(r) \/ LedgerFault(r) \/ RefreshFailed(r)
    <2>1. answer'[r].status \in {"invalid_hash", "server_error", "storage_error"}
      <3>1. CASE Submit(r)
        <4>1. \/ pc' = [pc EXCEPT ![r] = "lookup"]
              \/ answer' = [answer EXCEPT ![r] =
                              [status |-> "invalid_hash", storage_uri |-> None]]
          BY <3>1 DEF Submit
        <4> QED
          BY <4>1 DEF TypeInv, TypeOK
      <3>2. CASE LedgerFault(r) \/ RefreshFailed(r)
        BY <3>2 DEF LedgerFault, RefreshFailed, TypeInv, TypeOK
      <3> QED
        BY <1>4, <3>1, <3>2
    <2> QED
      BY <2>1 DEF Verdict, Success
  <1>5. CASE ~(\/ RecordConflict(r) \/ RecordDuplicate(r) \/ RecordStored(r)
              \/ Submit(r) \/ LedgerFault(r) \/ RefreshFailed(r))
    BY <1>5
    DEF Handle, Lookup, Insert, Reread, WriteRawEvent, LoadForStored, CommitStored, Refresh,
        RecordFailed, LoadForFailed, CommitFailed, Crash
  <1> QED
    BY <1>2, <1>3, <1>4, <1>5

Wanted == [r \in Request |-> [event_id |-> Id(r), text |-> Raw(r)]]

(* Every step of the service is a step of the abstract archive or none.    *)
LEMMA PromiseSimulation ==
    ASSUME require_event_hash, "power" \notin Faults
    PROVE  TypeInv /\ ArchiveInv /\ PromiseInv /\ [Next]_vars => [Promise!Next]_(Promise!vars)
  <1> SUFFICES ASSUME TypeInv, ArchiveInv, PromiseInv, [Next]_vars
               PROVE  [Promise!Next]_(Promise!vars)
    OBVIOUS
  <1>0. RowIdentityKept
    BY RowIdentityStep
  <1>1. ASSUME NEW r \in Request, Handle(r) PROVE [Promise!Next]_(Promise!vars)
    <2>1. UNCHANGED Wanted /\ Wanted[r].event_id = Id(r) /\ Wanted[r].text = Raw(r)
      BY <1>1, RequestMoves DEF Wanted, Id, Raw
    <2>2. UNCHANGED Verdicts \/ (UNCHANGED BoundText /\ UNCHANGED KeptText)
      <3>1. CASE ~(UNCHANGED Verdicts)
        <4>1. pc'[r] = "done"
          BY <1>1, <3>1, VerdictStep
        <4>2. ~Insert(r) /\ ~WriteRawEvent(r)
          BY <4>1 DEF Insert, WriteRawEvent, StoreAndMark, Goto, TypeInv, TypeOK
        <4> QED
          BY <1>0, <1>1, <4>2, BindStep, KeepStep
      <3> QED
        BY <3>1
    <2>3. CASE ~(UNCHANGED Verdicts)
      <3>1. /\ Verdicts[r] = "none"
            /\ Verdicts' = [Verdicts EXCEPT ![r] = Verdict(answer'[r].status)]
            /\ pc'[r] = "done" /\ answer'[r] # answer[r]
        BY <1>1, <2>3, VerdictStep
      <3>2. CASE Verdict(answer'[r].status) = "refused"
        <4>1. Promise!Refuse(r)
          BY <2>2, <2>3, <3>1, <3>2 DEF Promise!Refuse, Promise!Tell, Verdicts
        <4> QED
          BY <2>1, <4>1 DEF Promise!Next, Wanted
      <3>3. CASE Verdict(answer'[r].status) = "acked" /\ KeptText[Id(r)] = Raw(r)
        <4>1. Promise!Acknowledge(r)
          BY <2>1, <2>2, <2>3, <3>1, <3>3 DEF Promise!Acknowledge, Promise!Tell, Verdicts, Wanted
        <4> QED
          BY <2>1, <4>1 DEF Promise!Next, Wanted
      <3>4. CASE /\ Verdict(answer'[r].status) = "conflict"
                 /\ BoundText[Id(r)] \notin {Nothing, Raw(r)}
        <4>1. Promise!Deny(r)
          BY <2>1, <2>2, <2>3, <3>1, <3>4 DEF Promise!Deny, Promise!Tell, Verdicts, Wanted
        <4> QED
          BY <2>1, <4>1 DEF Promise!Next, Wanted
      <3> QED
        BY <1>0, <1>1, <3>1, <3>2, <3>3, <3>4, VerdictGround
    <2>4. CASE UNCHANGED Verdicts /\ ~(UNCHANGED BoundText)
      <3>1. /\ Insert(r) /\ rows[Id(r)] = NoRow /\ UNCHANGED KeptText
            /\ BoundText' = [BoundText EXCEPT ![Id(r)] = Raw(r)]
        BY <1>0, <1>1, <2>4, BindStep, KeepStep
      <3>2. BoundText[Id(r)] = Nothing /\ Verdicts[r] = "none"
        BY <3>1, EnvelopeType1
        DEF BoundText, Verdicts, Verdict, Success, PromiseInv, Unanswered, Insert, InProgress,
            LedgerStep, TypeInv, TypeOK, Id
      <3>3. Promise!Bind(r)
        BY <2>1, <2>4, <3>1, <3>2 DEF Promise!Bind, Wanted, Verdicts
      <3> QED
        BY <2>1, <3>3 DEF Promise!Next, Wanted
    <2>5. CASE UNCHANGED Verdicts /\ UNCHANGED BoundText /\ ~(UNCHANGED KeptText)
      <3>1. /\ BoundText[Id(r)] = Raw(r)
            /\ KeptText' = [KeptText EXCEPT ![Id(r)] = Raw(r)]
        BY <1>0, <1>1, <2>5, KeepStep
      <3>2. Id(r) \in EventId /\ Raw(r) # Nothing
        BY EnvelopeType1, IngestServiceAssumption DEF TypeInv, TypeOK, Id, Raw, Nothing
      <3>3. Promise!Keep(Id(r))
        BY <2>5, <3>1, <3>2 DEF Promise!Keep, Verdicts
      <3> QED
        BY <2>1, <3>2, <3>3 DEF Promise!Next, Wanted
    <2>6. CASE UNCHANGED Verdicts /\ UNCHANGED BoundText /\ UNCHANGED KeptText
      BY <2>1, <2>6 DEF Promise!vars, Wanted, Verdicts
    <2> QED
      BY <2>3, <2>4, <2>5, <2>6
  <1>2. ~PowerLoss
    BY DEF PowerLoss, FS!PowerLoss
  <1>3. CASE UNCHANGED vars
    BY <1>3 DEF vars, ledgervars, fsvars, Promise!vars, BoundText, KeptText, Id, Raw
  <1> QED
    BY <1>1, <1>2, <1>3 DEF Next

(* IngestService implements EventArchive.                                  *)
THEOREM ServiceKeepsItsPromise ==
    ASSUME require_event_hash, "power" \notin Faults
    PROVE  Spec => ImplementsEventArchive
  <1>1. Init => Promise!Init
    <2> SUFFICES ASSUME Init PROVE Promise!Init
      OBVIOUS
    <2>1. ASSUME NEW r \in Request PROVE Id(r) \in EventId /\ Raw(r) \in RawText
      BY EnvelopeType1 DEF Init, Id, Raw
    <2>2. Verdict("none") = "none"
      BY DEF Verdict, Success
    <2> QED
      BY <2>1, <2>2 DEF Init, LedgerInit, Promise!Init, BoundText, KeptText
  <1> QED
    BY <1>1, ArchiveInvariant, PromiseInvariant, PromiseSimulation, PTL DEF Spec, ImplementsEventArchive, Promise!Spec
=============================================================================
