---------------------------- MODULE HttpApiProofs ----------------------------
(* What a response of the API is worth: the promises of the ingest service *)
(* reach the producer through single and batch posts, whatever their       *)
(* number, their sizes and their interleaving.                             *)
EXTENDS HttpApi, IngestPromiseProofs

(* What has been reported is what ingest answered, event by event.         *)
ReportedFits(p) ==
    \A i \in 1 .. Len(results[p]) :
        LET r == Events[p][i] IN
        /\ pc[r] = "done"
        /\ answer[r].status \in AnswerStatus \ {"none", "server_error"}
        /\ results[p][i] = Report(answer[r].status)

(* A handler that has not responded has an event left; one that has        *)
(* responded without all of its results met an error of the ledger.        *)
ResponseFits(p) ==
    /\ Len(results[p]) <= Len(Events[p])
    /\ response[p] = 0 => Len(results[p]) < Len(Events[p])
    /\ p \in Single /\ response[p] # 0 =>
          /\ pc[Events[p][1]] = "done"
          /\ answer[Events[p][1]].status \in AnswerStatus \ {"none"}
          /\ response[p] = StatusCode(answer[Events[p][1]].status)
    /\ p \notin Single =>
         /\ response[p] = 200 => Len(results[p]) = Len(Events[p])
         /\ response[p] \notin {0, 200} =>
               \E i \in 1 .. Len(Events[p]) :
                   pc[Events[p][i]] = "done" /\ answer[Events[p][i]].status = "server_error"

HttpInv ==
    /\ results \in [Post -> Seq(ReportStatus)]
    /\ response \in [Post -> {0} \cup Code]
    /\ \A p \in Post : ReportedFits(p) /\ ResponseFits(p)

-----------------------------------------------------------------------------

(* The call that a handler without a response makes is one of its own.     *)
LEMMA CurrentIsOwn ==
    ASSUME NEW p \in Post, HttpInv, response[p] = 0
    PROVE  /\ Len(results[p]) \in Nat /\ Len(Events[p]) \in Nat
           /\ Len(results[p]) + 1 \in 1 .. Len(Events[p])
           /\ Current(p) = Events[p][Len(results[p]) + 1]
           /\ Current(p) \in Request
  <1>1. Events[p] \in Seq(Request) /\ results[p] \in Seq(ReportStatus)
    BY HttpApiAssumption DEF HttpInv
  <1>2. Len(results[p]) < Len(Events[p])
    BY DEF HttpInv, ResponseFits
  <1>3. Len(results[p]) + 1 \in 1 .. Len(Events[p])
    BY <1>1, <1>2
  <1> QED
    BY <1>1, <1>3 DEF Current

(* A step of a call moves that call only, which had not ended.             *)
LEMMA OneCallMoves ==
    ASSUME TypeInv, NEW r \in Request, Handle(r)
    PROVE  /\ pc[r] # "done"
           /\ \A q \in Request : pc[q] = "done" => pc'[q] = "done" /\ answer'[q] = answer[q]
  BY RequestMoves DEF InProgress, LedgerStep

(* A step of the API is a step of the service or leaves it alone.          *)
LEMMA HttpStepIsStep == HttpInv /\ [HttpNext]_httpvars => [Next]_vars
  <1> SUFFICES ASSUME HttpInv, [HttpNext]_httpvars PROVE [Next]_vars
    OBVIOUS
  <1>1. ASSUME NEW p \in Post, HandlePost(p) PROVE [Next]_vars
    BY <1>1, CurrentIsOwn DEF HandlePost, Next
  <1>2. ASSUME NEW g \in Get, (\E text \in PathText : HandleGet(g, text)) \/ GetFault(g) PROVE [Next]_vars
    BY <1>2 DEF HandleGet, GetFault
  <1>3. ASSUME NEW p \in Post, Announce(p) PROVE [Next]_vars
    BY <1>3 DEF Announce
  <1>4. ASSUME CloseBus PROVE [Next]_vars
    BY <1>4 DEF CloseBus
  <1> QED
    BY <1>1, <1>2, <1>3, <1>4 DEF HttpNext, httpvars

(* A call that ends has an answer.                                         *)
LEMMA EndedIsAnswered ==
    ASSUME TypeInv, NEW r \in Request, Handle(r), pc'[r] = "done"
    PROVE  answer'[r].status \in AnswerStatus \ {"none"}
  BY RequestMoves DEF InProgress, LedgerStep

(* What a handler reports keeps a success as it is and never makes one up. *)
LEMMA ReportKeepsSuccess ==
    ASSUME NEW status \in AnswerStatus \ {"none"}
    PROVE  /\ StatusCode(status) \in Code
           /\ StatusCode(status) = 200 =>
                 status \in ReportStatus /\ status = Report(status) /\ status # "server_error"
           /\ status # "server_error" => Report(status) \in ReportStatus
           /\ Report(status) \in Success => status = Report(status)
  BY DEF StatusCode, Report, AnswerStatus, ReportStatus, Success, Code

(* Initially nothing is reported and every post has an event left.        *)
LEMMA HttpInvInit == HttpInit => HttpInv
  <1> SUFFICES ASSUME HttpInit PROVE HttpInv
    OBVIOUS
  <1>1. \A p \in Post : results[p] = <<>> /\ response[p] = 0 /\ Len(results[p]) = 0
    BY DEF HttpInit
  <1>2. \A p \in Post : Events[p] \in Seq(Request) /\ Len(Events[p]) \in Nat \ {0}
    BY HttpApiAssumption
  <1>3. results \in [Post -> Seq(ReportStatus)] /\ response \in [Post -> {0} \cup Code]
    BY DEF HttpInit
  <1> QED
    BY <1>1, <1>2, <1>3 DEF HttpInv, ReportedFits, ResponseFits

(* A post keeps its part of the invariant while another one takes a step.  *)
LEMMA OtherPostsKeep ==
    ASSUME HttpInv, NEW q \in Post, results'[q] = results[q], response'[q] = response[q],
           \A r \in Request : pc[r] = "done" => pc'[r] = "done" /\ answer'[r] = answer[r]
    PROVE  ReportedFits(q)' /\ ResponseFits(q)'
  <1>1. Events[q] \in Seq(Request) /\ results[q] \in Seq(ReportStatus)
    BY HttpApiAssumption DEF HttpInv
  <1>2. \A i \in 1 .. Len(Events[q]) : Events[q][i] \in Request
    BY <1>1
  <1>3. Len(results[q]) <= Len(Events[q]) /\ Len(results[q]) \in Nat /\ Len(Events[q]) \in Nat
    BY <1>1 DEF HttpInv, ResponseFits
  <1>4. ReportedFits(q)'
    BY <1>2, <1>3 DEF HttpInv, ReportedFits
  <1>5. ResponseFits(q)'
    <2>1. q \in Single => Events[q][1] \in Request
      BY <1>1, <1>2, HttpApiAssumption
    <2>2. /\ Len(results'[q]) <= Len(Events[q])
          /\ response'[q] = 0 => Len(results'[q]) < Len(Events[q])
      BY DEF HttpInv, ResponseFits
    <2>3. CASE q \in Single
      BY <2>1, <2>2, <2>3 DEF HttpInv, ResponseFits
    <2>4. CASE q \notin Single
      <3>0. ResponseFits(q)
        BY DEF HttpInv
      <3>1. response'[q] = 200 => Len(results'[q]) = Len(Events[q])
        <4>1. response[q] = 200 => Len(results[q]) = Len(Events[q])
          BY <2>4, <3>0, Zenon DEF ResponseFits
        <4> QED
          BY <4>1
      <3>2. ASSUME response'[q] \notin {0, 200}
            PROVE  \E i \in 1 .. Len(Events[q]) :
                      pc'[Events[q][i]] = "done" /\ answer'[Events[q][i]].status = "server_error"
        <4>1. PICK i \in 1 .. Len(Events[q]) :
                  pc[Events[q][i]] = "done" /\ answer[Events[q][i]].status = "server_error"
          BY <2>4, <3>0, <3>2 DEF ResponseFits
        <4> QED
          BY <1>2, <4>1
      <3> QED
        BY <2>2, <2>4, <3>1, <3>2 DEF ResponseFits
    <2> QED
      BY <2>3, <2>4
  <1> QED
    BY <1>4, <1>5

(* The handler's own part.                                                 *)
LEMMA OwnPostKeeps ==
    ASSUME TypeInv, HttpInv, NEW p \in Post, HandlePost(p)
    PROVE  /\ results' \in [Post -> Seq(ReportStatus)]
           /\ response' \in [Post -> {0} \cup Code]
           /\ \A q \in Post \ {p} : results'[q] = results[q] /\ response'[q] = response[q]
           /\ ReportedFits(p)' /\ ResponseFits(p)'
  <1> DEFINE c == Current(p)
             n == Len(results[p])
             status == answer'[c].status
  <1>1. /\ n \in Nat /\ Len(Events[p]) \in Nat
        /\ n + 1 \in 1 .. Len(Events[p]) /\ c = Events[p][n + 1] /\ c \in Request
    BY CurrentIsOwn DEF HandlePost
  <1>2. Handle(c)
    BY DEF HandlePost
  <1>3. \A r \in Request : pc[r] = "done" => pc'[r] = "done" /\ answer'[r] = answer[r]
    BY <1>1, <1>2, OneCallMoves
  <1>4. /\ results \in [Post -> Seq(ReportStatus)]
        /\ response \in [Post -> {0} \cup Code]
        /\ Events[p] \in Seq(Request) /\ results[p] \in Seq(ReportStatus)
        /\ response[p] = 0
        /\ ReportedFits(p)
    BY HttpApiAssumption DEF HttpInv, HandlePost
  <1>5. CASE UNCHANGED <<results, response>>
    BY <1>3, <1>4, <1>5, OtherPostsKeep
  <1>6. \A i \in 1 .. Len(Events[p]) : Events[p][i] \in Request
    BY <1>4
  <1>7. ASSUME pc'[c] = "done" PROVE status \in AnswerStatus \ {"none"}
    BY <1>1, <1>2, <1>7, EndedIsAnswered
  <1>8. CASE pc'[c] = "done" /\ p \in Single /\ IngestEvent(p, status)
    <2>1. Len(Events[p]) = 1 /\ n = 0 /\ c = Events[p][1]
      BY <1>1, <1>8, HttpApiAssumption
    <2>2. /\ StatusCode(status) \in Code
          /\ StatusCode(status) = 200 =>
                status \in ReportStatus /\ status = Report(status) /\ status # "server_error"
      BY <1>7, <1>8, ReportKeepsSuccess
    <2>3. /\ response' = [response EXCEPT ![p] = StatusCode(status)]
          /\ results' = [results EXCEPT ![p] = IF StatusCode(status) = 200
                                               THEN <<status>> ELSE <<>>]
      BY <1>8 DEF IngestEvent
    <2>4. /\ results'[p] \in Seq(ReportStatus) /\ results'[p] \in {<<>>, <<status>>}
          /\ results'[p] = <<status>> => status = Report(status) /\ status # "server_error"
      BY <1>4, <2>2, <2>3
    <2>5. /\ results' \in [Post -> Seq(ReportStatus)]
          /\ response' \in [Post -> {0} \cup Code]
          /\ \A q \in Post \ {p} : results'[q] = results[q] /\ response'[q] = response[q]
          /\ response'[p] # 0 /\ response'[p] = StatusCode(status)
      BY <1>4, <2>2, <2>3, <2>4 DEF Code
    <2>6. ReportedFits(p)'
      BY <1>7, <1>8, <2>1, <2>4 DEF ReportedFits
    <2>7. Len(results'[p]) \in 0 .. 1 /\ Len(Events[p]) = 1
      BY <2>1, <2>4
    <2>8. ResponseFits(p)'
      <3>1. Len(results'[p]) <= Len(Events[p])
        <4>1. \A i, j : i \in 0 .. 1 /\ j = 1 => i <= j
          OBVIOUS
        <4> QED
          BY <2>7, <4>1, Zenon
      <3>2. p \in Single
        BY <1>8
      <3> QED
        BY <1>7, <1>8, <2>1, <2>5, <3>1, <3>2 DEF ResponseFits
    <2> QED
      BY <2>5, <2>6, <2>8
  <1>9. CASE pc'[c] = "done" /\ p \notin Single /\ IngestEventBatch(p, status)
    <2>1. CASE status = "server_error"
      <3>1. response' = [response EXCEPT ![p] = 500] /\ results' = results
        BY <1>9, <2>1 DEF IngestEventBatch
      <3>2. response' \in [Post -> {0} \cup Code] /\ response'[p] = 500
        BY <1>4, <3>1 DEF Code
      <3>3. ReportedFits(p)'
        <4> SUFFICES ASSUME NEW i \in 1 .. n
                     PROVE  /\ pc'[Events[p][i]] = "done"
                            /\ answer'[Events[p][i]].status
                                  \in AnswerStatus \ {"none", "server_error"}
                            /\ results'[p][i] = Report(answer'[Events[p][i]].status)
          BY <3>1 DEF ReportedFits
        <4>1. i \in 1 .. Len(Events[p])
          BY <1>1
        <4>2. Events[p][i] \in Request
          BY <1>6, <4>1
        <4> QED
          BY <1>3, <1>4, <3>1, <4>2 DEF ReportedFits
      <3>4. ResponseFits(p)'
        BY <1>1, <1>9, <2>1, <3>1, <3>2 DEF ResponseFits
      <3> QED
        BY <1>4, <3>1, <3>2, <3>3, <3>4
    <2>2. CASE status # "server_error"
      <3>1. Report(status) \in ReportStatus /\ (Report(status) \in Success => status = Report(status))
        BY <1>7, <1>9, <2>2, ReportKeepsSuccess
      <3>2. /\ results' = [results EXCEPT ![p] = Append(@, Report(status))]
            /\ response' = [response EXCEPT ![p] =
                  IF Len(results'[p]) = Len(Events[p]) THEN 200 ELSE 0]
        BY <1>9, <2>2 DEF IngestEventBatch
      <3>3. results'[p] = Append(results[p], Report(status))
        BY <1>4, <3>2
      <3>4. /\ results'[p] \in Seq(ReportStatus) /\ Len(results'[p]) = n + 1
            /\ results'[p][n + 1] = Report(status)
            /\ \A i \in 1 .. n : results'[p][i] = results[p][i]
        BY <1>4, <3>1, <3>3
      <3>5. /\ results' \in [Post -> Seq(ReportStatus)]
            /\ response' \in [Post -> {0} \cup Code]
            /\ response'[p] = IF n + 1 = Len(Events[p]) THEN 200 ELSE 0
            /\ \A q \in Post \ {p} : results'[q] = results[q] /\ response'[q] = response[q]
        BY <1>4, <3>2, <3>4 DEF Code
      <3>6. ReportedFits(p)'
        <4> SUFFICES ASSUME NEW i \in 1 .. n + 1
                     PROVE  /\ pc'[Events[p][i]] = "done"
                            /\ answer'[Events[p][i]].status
                                  \in AnswerStatus \ {"none", "server_error"}
                            /\ results'[p][i] = Report(answer'[Events[p][i]].status)
          BY <3>4 DEF ReportedFits
        <4>1. CASE i = n + 1
          BY <1>1, <1>7, <1>9, <2>2, <3>1, <3>4, <4>1
        <4>2. CASE i \in 1 .. n
          BY <1>1, <1>3, <1>4, <1>6, <3>4, <4>2 DEF ReportedFits
        <4> QED
          BY <1>1, <4>1, <4>2
      <3>7. ResponseFits(p)'
        BY <1>1, <1>9, <3>4, <3>5 DEF ResponseFits
      <3> QED
        BY <3>5, <3>6, <3>7
    <2> QED
      BY <2>1, <2>2
  <1> QED
    BY <1>5, <1>8, <1>9 DEF HandlePost

(* Every step keeps the invariant of the routes.                           *)
LEMMA HttpInvStep == TypeInv /\ HttpInv /\ [HttpNext]_httpvars => HttpInv'
  <1> SUFFICES ASSUME TypeInv, HttpInv, [HttpNext]_httpvars PROVE HttpInv'
    OBVIOUS
  <1>1. ASSUME NEW p \in Post, HandlePost(p) PROVE HttpInv'
    <2>1. Current(p) \in Request /\ Handle(Current(p))
      BY <1>1, CurrentIsOwn DEF HandlePost
    <2>2. \A r \in Request : pc[r] = "done" => pc'[r] = "done" /\ answer'[r] = answer[r]
      BY <2>1, OneCallMoves
    <2>3. ASSUME NEW q \in Post PROVE ReportedFits(q)' /\ ResponseFits(q)'
      BY <1>1, <2>2, OwnPostKeeps, OtherPostsKeep
    <2> QED
      BY <1>1, <2>3, OwnPostKeeps DEF HttpInv
  <1>2. ASSUME UNCHANGED <<vars, results, response>> PROVE HttpInv'
    BY <1>2 DEF HttpInv, ReportedFits, ResponseFits, vars
  <1>3. ASSUME NEW g \in Get, (\E text \in PathText : HandleGet(g, text)) \/ GetFault(g)
        PROVE  HttpInv'
    BY <1>2, <1>3 DEF HandleGet, GetFault
  <1>4. ASSUME NEW p \in Post, Announce(p) PROVE HttpInv'
    BY <1>2, <1>4 DEF Announce
  <1>5. ASSUME CloseBus PROVE HttpInv'
    BY <1>2, <1>5 DEF CloseBus
  <1> QED
    BY <1>1, <1>2, <1>3, <1>4, <1>5 DEF HttpNext, httpvars, httponly

-----------------------------------------------------------------------------

(* The invariant of the routes, over the type invariant of the service.    *)
LEMMA HttpInvariant == HttpSpec => [](TypeInv /\ HttpInv)
  <1>1. HttpInit => TypeInv
    BY TypeInit DEF HttpInit
  <1> QED
    BY <1>1, HttpInvInit, HttpInvStep, HttpStepIsStep, TypeStep, PTL DEF HttpSpec

(* The routes use the service as it is specified: whatever is proved of    *)
(* ingest holds when single and batch posts make its calls.                *)
THEOREM RoutesUseTheService == HttpSpec => Spec
  <1>1. HttpInit => Init
    BY DEF HttpInit
  <1> QED
    BY <1>1, HttpInvariant, HttpStepIsStep, PTL DEF HttpSpec, Spec

(* Whatever post reports as a success at a place of its results, the event *)
(* at that place is in the archive, at every later time.                   *)
THEOREM ReportsAreArchived ==
    ASSUME require_event_hash, "power" \notin Faults
    PROVE  HttpSpec => []ReportedIsArchived
  <1>1. HttpInv /\ AckedIsArchived => ReportedIsArchived
    <2> SUFFICES ASSUME HttpInv, AckedIsArchived, NEW p \in Post,
                        NEW i \in 1 .. Len(results[p]), results[p][i] \in Success
                 PROVE  LET r == Events[p][i] IN
                        answer[r].storage_uri # None /\ files[answer[r].storage_uri] = Raw(r)
      BY DEF ReportedIsArchived
    <2>1. Events[p] \in Seq(Request) /\ results[p] \in Seq(ReportStatus)
      BY HttpApiAssumption DEF HttpInv
    <2>2. i \in 1 .. Len(Events[p]) /\ Events[p][i] \in Request
      BY <2>1 DEF HttpInv, ResponseFits
    <2>3. Acked(Events[p][i])
      BY ReportKeepsSuccess DEF HttpInv, ReportedFits, Acked
    <2> QED
      BY <2>2, <2>3 DEF AckedIsArchived
  <1> QED
    BY <1>1, HttpInvariant, RoutesUseTheService, AcknowledgedIsArchived, PTL

(* A batch is answered with a result for every event, unless the ledger    *)
(* failed; in every configuration and with every kind of failure.          *)
THEOREM BatchesAreReported == HttpSpec => []BatchReportsEveryEvent
  <1>1. HttpInv => BatchReportsEveryEvent
    BY DEF HttpInv, ResponseFits, BatchReportsEveryEvent
  <1> QED
    BY <1>1, HttpInvariant, PTL

(* Repeats are reported as duplicates unless a write has failed, across    *)
(* crashes and power loss.                                                 *)
THEOREM RepeatsAreReportedDuplicate ==
    ASSUME require_event_hash
    PROVE  HttpSpec => []RepeatIsReportedDuplicate
  <1>1. HttpInv /\ OnlyFailureSpoilsReplay => RepeatIsReportedDuplicate
    <2> SUFFICES ASSUME HttpInv, OnlyFailureSpoilsReplay, NEW p \in Post,
                        NEW i \in 1 .. Len(results[p]), replayed[Events[p][i]] # "no",
                        attempts[Id(Events[p][i])]["failed"] = 0
                 PROVE  results[p][i] = "duplicate"
      BY DEF RepeatIsReportedDuplicate
    <2>1. Events[p] \in Seq(Request) /\ results[p] \in Seq(ReportStatus)
      BY HttpApiAssumption DEF HttpInv
    <2>2. Events[p][i] \in Request
      BY <2>1 DEF HttpInv, ResponseFits
    <2>3. answer[Events[p][i]].status = "duplicate"
      BY <2>2 DEF OnlyFailureSpoilsReplay, AnsweredAsReplay, HttpInv, ReportedFits
    <2> QED
      BY <2>3 DEF HttpInv, ReportedFits, Report
  <1> QED
    BY <1>1, HttpInvariant, RoutesUseTheService, OnlyFailureSpoilsReplayEver, PTL

-----------------------------------------------------------------------------
(* What a response says about sending an event again.                      *)

(* A request that met an error has valid hashes; one whose write failed    *)
(* has left a row of its own event.                                        *)
Errored(r) ==
    /\ answer[r].status \in {"storage_error", "server_error"} => HashesValid(env[r])
    /\ answer[r].status = "storage_error" =>
          rows[Id(r)] # NoRow /\ rows[Id(r)].raw_envelope_json = Raw(r)

RefusalInv == \A r \in Request : Errored(r)

(* Where the two kinds of errors come from.                                *)
LEMMA ErrorMoves ==
    ASSUME TypeInv, NEW r \in Request, Handle(r)
    PROVE  /\ answer'[r].status = "storage_error" =>
                 answer'[r] = answer[r] \/ (pc[r] = "refresh_failed" /\ UNCHANGED rows)
           /\ answer'[r].status = "server_error" => answer'[r] = answer[r] \/ pc[r] \in LedgerStep
  <1> USE DEF Goto, Answer, TypeInv, TypeOK
  <1>1. CASE Submit(r)
    <2>1. \/ answer' = answer
          \/ answer' = [answer EXCEPT ![r] = [status |-> "invalid_hash", storage_uri |-> None]]
      BY <1>1 DEF Submit
    <2> QED
      BY <2>1
  <1>2. CASE UNCHANGED answer
    BY <1>2
  <1>3. CASE RecordConflict(r) \/ RecordDuplicate(r) \/ RecordStored(r)
    BY <1>3 DEF RecordConflict, RecordDuplicate, RecordStored
  <1>4. CASE RefreshFailed(r) \/ LedgerFault(r)
    BY <1>4 DEF RefreshFailed, LedgerFault, ledgervars, LedgerStep
  <1> QED
    BY <1>1, <1>2, <1>3, <1>4
    DEF Handle, Lookup, Insert, Reread, WriteRawEvent, LoadForStored, CommitStored, Refresh,
        RecordFailed, LoadForFailed, CommitFailed, Crash

LEMMA RefusalStep ==
    TypeInv /\ GateInv /\ RefusalInv /\ [Next]_vars => RefusalInv'
  <1> SUFFICES ASSUME TypeInv, GateInv, RefusalInv, [Next]_vars, NEW q \in Request
               PROVE  Errored(q)'
    BY DEF RefusalInv
  <1>1. Errored(q) /\ Id(q) \in EventId
    BY EnvelopeType1 DEF RefusalInv, TypeInv, TypeOK, Id
  <1>2. UNCHANGED env /\ RowIdentityKept
    BY RowIdentityStep, RequestMoves DEF Next, PowerLoss, vars
  <1>3. HashesValid(env[q])' = HashesValid(env[q]) /\ Id(q)' = Id(q) /\ Raw(q)' = Raw(q)
    BY <1>2 DEF HashesValid, canonical_event_without_event_hash, sha256_json, Id, Raw
  <1>4. CASE answer'[q] = answer[q]
    BY <1>1, <1>2, <1>3, <1>4 DEF Errored, RowIdentityKept
  <1>5. CASE Handle(q)
    <2>1. CASE answer'[q].status = "storage_error" /\ pc[q] = "refresh_failed" /\ UNCHANGED rows
      <3>1. HashesValid(env[q])
        BY <2>1 DEF GateInv, RequestInv, Gated, InProgress, LedgerStep
      <3>2. rows[Id(q)] \in Row /\ rows[Id(q)].raw_envelope_json = Raw(q)
        BY <2>1, PastTheGate DEF PastGate
      <3> QED
        BY <1>3, <2>1, <3>1, <3>2, IngestServiceAssumption DEF Errored
    <2>2. CASE answer'[q].status = "server_error" /\ pc[q] \in LedgerStep
      <3>1. HashesValid(env[q])
        BY <2>2 DEF GateInv, RequestInv, Gated, InProgress
      <3> QED
        BY <1>3, <2>2, <3>1 DEF Errored
    <2>3. CASE answer'[q].status \notin {"storage_error", "server_error"}
      BY <2>3 DEF Errored
    <2> QED
      BY <1>4, <1>5, <2>1, <2>2, <2>3, ErrorMoves
  <1>6. ASSUME NEW r \in Request \ {q}, Handle(r) PROVE answer'[q] = answer[q]
    BY <1>6, RequestMoves
  <1>7. CASE PowerLoss \/ UNCHANGED vars
    BY <1>4, <1>7 DEF PowerLoss, vars
  <1> QED
    BY <1>4, <1>5, <1>6, <1>7 DEF Next

(* A 409 is given to an event that its id does not stand for, a 422 to one *)
(* that has wrong hashes and is not in the archive, a 500 to one whose     *)
(* hashes hold and, after a failed write, whose row is its own; whatever   *)
(* fails.                                                                  *)
THEOREM StatusTellsWhetherToRetryAlways ==
    ASSUME require_event_hash
    PROVE  HttpSpec => []StatusTellsWhetherToRetry
  <1>1. TypeInv /\ GateInv /\ PromiseInv /\ RefusalInv /\ HttpInv => StatusTellsWhetherToRetry
    <2> SUFFICES ASSUME TypeInv, GateInv, PromiseInv, RefusalInv, HttpInv,
                        NEW p \in Single, NEW r \in Request, r = Events[p][1], response[p] # 0
                 PROVE  /\ response[p] = 409 => rows[Id(r)].raw_envelope_json # Raw(r)
                        /\ response[p] = 422 =>
                              ~HashesValid(env[r]) /\ \A u \in Uri : files[u] # Raw(r)
                        /\ response[p] = 500 =>
                              /\ HashesValid(env[r])
                              /\ answer[r].status # "server_error" =>
                                    rows[Id(r)].raw_envelope_json = Raw(r)
      BY HttpApiAssumption DEF StatusTellsWhetherToRetry
    <2>2. /\ response[p] = StatusCode(answer[r].status) /\ p \in Post
          /\ answer[r].status \in AnswerStatus \ {"none"}
      BY HttpApiAssumption DEF HttpInv, ResponseFits
    <2>3. /\ response[p] = 409 => answer[r].status = "conflict_error"
          /\ response[p] = 422 => answer[r].status = "invalid_hash"
          /\ response[p] = 500 => answer[r].status \in {"storage_error", "server_error"}
      BY <2>2 DEF StatusCode, Success, AnswerStatus
    <2>4. env[r] \in Envelope /\ Id(r) \in EventId /\ Raw(r) # Absent
      BY EnvelopeType1, TextIsPresent DEF TypeInv, TypeOK, Id, Raw
    <2>5. CASE answer[r].status = "conflict_error"
      <3>1. Contradicts(r)
        BY <2>5 DEF PromiseInv, Conflicting, ConflictAnswer
      <3>2. PICK q \in Request : Rival(q, r)
        BY <3>1, ConflictHasRival
      <3>3. Raw(q) # Raw(r)
        BY <2>4, <3>2, TextAndPath DEF Raw, Rival, TypeInv, TypeOK
      <3> QED
        BY <2>3, <2>5, <3>2, <3>3 DEF Rival
    <2>6. CASE answer[r].status = "invalid_hash"
      <3>1. ~HashesValid(env[r])
        BY <2>6 DEF PromiseInv, Refused
      <3>2. ASSUME NEW u \in Uri, files[u] = Raw(r) PROVE FALSE
        <4>1. PICK e \in Envelope :
                /\ Raw(r) = canonical_json_text(e)
                /\ rows[e.event_id] # NoRow
                /\ rows[e.event_id].raw_envelope_json = canonical_json_text(e)
          BY <2>4, <3>2 DEF GateInv, FilesInv, ObjectLedgered, TextLedgered
        <4>2. e = env[r]
          BY <2>4, <4>1, TextAndPath DEF Raw
        <4>3. PICK f \in Envelope :
                HashesValid(f) /\ rows[Id(r)].raw_envelope_json = canonical_json_text(f)
          BY <2>4, <4>1, <4>2 DEF GateInv, LedgerInv, RowGenuine, Id
        <4>4. f = env[r]
          BY <2>4, <4>1, <4>2, <4>3, TextAndPath DEF Id
        <4> QED
          BY <3>1, <4>3, <4>4
      <3> QED
        BY <2>3, <2>6, <3>1, <3>2
    <2>7. CASE answer[r].status \in {"storage_error", "server_error"}
      BY <2>3, <2>7 DEF RefusalInv, Errored
    <2> QED
      BY <2>3, <2>5, <2>6, <2>7
  <1>2. Init => RefusalInv
    BY DEF Init, RefusalInv, Errored
  <1>3. Spec => [](TypeInv /\ GateInv)
    BY GateInvariant, PTL
  <1>4. Spec => []RefusalInv
    BY <1>2, <1>3, RefusalStep, PTL DEF Spec
  <1> QED
    BY <1>1, <1>4, HttpInvariant, RoutesUseTheService, GateInvariant, PromiseInvariant, PTL

-----------------------------------------------------------------------------
(* The debug stream and the lookups.                                       *)

(* As long as the bus is open it has the event of every call that has      *)
(* begun, and of one that is about to.                                     *)
StreamedInv ==
    bus = "open" =>
        /\ \A r \in Request : pc[r] # "idle" => r \in streamed
        /\ \A p \in Post : published[p] /\ response[p] = 0 => Current(p) \in streamed

(* What LookupFindsAcknowledged says of one lookup, with what keeps it: a  *)
(* text is not the content of a missing object.                            *)
FoundFits(g) ==
    found[g].code \in {200, 404} /\ wants[g] \in EventId => \A text \in promised[g] :
        /\ found[g].code = 200 /\ found[g].row \in Row
        /\ found[g].row.raw_envelope_json = text /\ text # Absent
        /\ found[g].row.storage_uri # None /\ files[found[g].row.storage_uri] = text

LEMMA FoundStep ==
    ASSUME "power" \notin Faults,
           TypeInv, ArchiveInv, HttpInv, HttpTypeOK, \A g \in Get : FoundFits(g),
           [HttpNext]_httpvars
    PROVE  \A g \in Get : FoundFits(g)'
  <1> SUFFICES ASSUME NEW g \in Get PROVE FoundFits(g)'
    OBVIOUS
  <1>1. CASE found'[g] = found[g] /\ promised'[g] = promised[g] /\ wants'[g] = wants[g]
    <2>1. ObjectsKept
      BY HttpStepIsStep, ObjectsStep DEF ArchiveInv
    <2>2. \A row \in Row : row.storage_uri # None => row.storage_uri \in Uri
      BY DEF Row
    <2> QED
      BY <1>1, <2>1, <2>2 DEF FoundFits, ObjectsKept
  <1>2. ASSUME NEW text \in PathText, HandleGet(g, text) PROVE FoundFits(g)'
    <2>1. /\ UNCHANGED vars /\ wants'[g] = text
          /\ promised'[g] = {Raw(r) : r \in {q \in Request : Id(q) = IdOf[text] /\ Acked(q)}}
          /\ found'[g] = IF Selected(text) = NoRow THEN [code |-> 404, row |-> NoRow]
                         ELSE [code |-> 200, row |-> Selected(text)]
      BY <1>2 DEF HandleGet, GetEvent, HttpTypeOK
    <2> SUFFICES ASSUME text \in EventId, NEW r \in Request,
                        Id(r) = IdOf[text], Acked(r)
                 PROVE  /\ found'[g].code = 200 /\ found'[g].row \in Row
                        /\ found'[g].row.raw_envelope_json = Raw(r) /\ Raw(r) # Absent
                        /\ found'[g].row.storage_uri # None
                        /\ files'[found'[g].row.storage_uri] = Raw(r)
      BY <2>1 DEF FoundFits
    <2>2. Id(r) = text /\ Id(r) \in EventId
      BY HttpApiAssumption
    <2>3. /\ rows[Id(r)] # NoRow /\ rows[Id(r)].raw_envelope_json = Raw(r)
          /\ rows[Id(r)].storage_uri # None
      BY DEF ArchiveInv, GateInv, RequestInv, AckRow
    <2>4. files[rows[Id(r)].storage_uri] = Raw(r)
      BY <2>2, <2>3 DEF ArchiveInv, RowBacked
    <2>5. rows[Id(r)] \in Row /\ Raw(r) # Absent
      BY <2>2, <2>3, TextIsPresent DEF TypeInv, TypeOK, LedgerTypeOK, Raw
    <2>6. found'[g] = [code |-> 200, row |-> rows[Id(r)]]
      BY <2>1, <2>2, <2>3 DEF Selected
    <2> QED
      BY <2>1, <2>3, <2>4, <2>5, <2>6 DEF vars, fsvars
  <1>3. CASE GetFault(g)
    BY <1>3 DEF GetFault, FoundFits, HttpTypeOK
  <1>4. ASSUME NEW p \in Post, HandlePost(p) PROVE FoundFits(g)'
    BY <1>1, <1>4 DEF HandlePost
  <1>5. ASSUME NEW h \in Get \ {g}, (\E text \in PathText : HandleGet(h, text)) \/ GetFault(h)
        PROVE  FoundFits(g)'
    BY <1>1, <1>5 DEF HandleGet, GetEvent, GetFault, HttpTypeOK
  <1>6. CASE UNCHANGED httpvars
    BY <1>1, <1>6 DEF httpvars, httponly
  <1>7. CASE CloseBus \/ \E p \in Post : Announce(p)
    BY <1>1, <1>7 DEF CloseBus, Announce
  <1> QED
    BY <1>2, <1>3, <1>4, <1>5, <1>6, <1>7 DEF HttpNext

LEMMA HttpTypeStep == TypeInv /\ HttpInv /\ HttpTypeOK /\ [HttpNext]_httpvars => HttpTypeOK'
  <1> SUFFICES ASSUME TypeInv, HttpInv, HttpTypeOK, [HttpNext]_httpvars PROVE HttpTypeOK'
    OBVIOUS
  <1>1. results' \in [Post -> Seq(ReportStatus)] /\ response' \in [Post -> {0} \cup Code]
    BY HttpInvStep DEF HttpInv
  <1>2. ASSUME NEW p \in Post, HandlePost(p) PROVE HttpTypeOK'
    BY <1>1, <1>2, CurrentIsOwn DEF HandlePost, HttpTypeOK
  <1>3. ASSUME NEW p \in Post, Announce(p) PROVE HttpTypeOK'
    BY <1>1, <1>3, CurrentIsOwn DEF Announce, PublishDebugEvent, HttpTypeOK
  <1>4. ASSUME NEW g \in Get, NEW text \in PathText, HandleGet(g, text) PROVE HttpTypeOK'
    <2> DEFINE texts == {Raw(r) : r \in {q \in Request : Id(q) = IdOf[text] /\ Acked(q)}}
    <2>1. texts \in SUBSET RawText
      BY EnvelopeType1 DEF TypeInv, TypeOK, Raw
    <2>2. Selected(text) \in Row \cup {NoRow}
      BY DEF Selected, TypeInv, TypeOK, LedgerTypeOK
    <2>3. /\ promised' = [promised EXCEPT ![g] = texts] /\ wants' = [wants EXCEPT ![g] = text]
          /\ UNCHANGED <<bus, published, streamed>>
      BY <1>4 DEF HandleGet
    <2>4. found' \in [Get -> [code : {0, 200, 404, 500}, row : Row \cup {NoRow}]]
      BY <1>4, <2>2 DEF HandleGet, GetEvent, HttpTypeOK
    <2> HIDE DEF texts
    <2> QED
      BY <1>1, <2>1, <2>3, <2>4 DEF HttpTypeOK
  <1>5. ASSUME NEW g \in Get, GetFault(g) PROVE HttpTypeOK'
    BY <1>1, <1>5 DEF GetFault, HttpTypeOK
  <1>6. CASE CloseBus
    BY <1>1, <1>6 DEF CloseBus, HttpTypeOK
  <1>7. CASE UNCHANGED httpvars
    BY <1>1, <1>7 DEF httpvars, httponly, HttpTypeOK
  <1> QED
    BY <1>2, <1>3, <1>4, <1>5, <1>6, <1>7 DEF HttpNext

(* The variables of the routes keep their types.                           *)
THEOREM HttpTypes == HttpSpec => []HttpTypeOK
  <1>1. HttpInit => HttpTypeOK
    BY HttpInvInit DEF HttpInit, HttpTypeOK, HttpInv
  <1> QED
    BY <1>1, HttpInvariant, HttpTypeStep, PTL DEF HttpSpec

LEMMA StreamedStep ==
    TypeInv /\ HttpInv /\ HttpTypeOK /\ StreamedInv /\ [HttpNext]_httpvars => StreamedInv'
  <1> SUFFICES ASSUME TypeInv, HttpInv, HttpTypeOK, StreamedInv, [HttpNext]_httpvars,
                      bus' = "open"
               PROVE  /\ \A r \in Request : pc'[r] # "idle" => r \in streamed'
                      /\ \A p \in Post : published'[p] /\ response'[p] = 0 => Current(p)' \in streamed'
    BY DEF StreamedInv
  <1>1. ASSUME NEW p \in Post, Announce(p) PROVE StreamedInv'
    <2>1. /\ UNCHANGED <<pc, results, response, bus>> /\ bus = "open"
          /\ streamed' = streamed \cup {Current(p)}
          /\ \A q \in Post \ {p} : published'[q] = published[q]
      BY <1>1 DEF Announce, PublishDebugEvent, vars, HttpTypeOK
    <2> QED
      BY <2>1 DEF StreamedInv, Current
  <1>2. ASSUME NEW p \in Post, HandlePost(p) PROVE StreamedInv'
    <2>1. /\ Current(p) \in Request /\ Handle(Current(p)) /\ Current(p) \in streamed
          /\ UNCHANGED <<bus, streamed>> /\ bus = "open"
      BY <1>2, CurrentIsOwn DEF HandlePost, StreamedInv
    <2>2. \A q \in Request \ {Current(p)} : pc'[q] = pc[q]
      BY <2>1, RequestMoves
    <2>3. \A q \in Post \ {p} : /\ results'[q] = results[q] /\ response'[q] = response[q]
                                /\ published'[q] => published[q]
      <3>1. /\ published \in [Post -> BOOLEAN]
            /\ published' = [published EXCEPT ![p] = ~(pc'[Current(p)] = "done")]
        BY <1>2 DEF HandlePost, HttpTypeOK
      <3>2. \A q \in Post \ {p} : published'[q] => published[q]
        BY <3>1
      <3>3. \A q \in Post \ {p} : results'[q] = results[q] /\ response'[q] = response[q]
        BY <1>2, OwnPostKeeps
      <3> QED
        BY <3>2, <3>3
    <2>4. published'[p] => UNCHANGED <<results, response>>
      <3>1. CASE pc'[Current(p)] = "done"
        <4>1. published' = [published EXCEPT ![p] = FALSE] /\ published \in [Post -> BOOLEAN]
          BY <1>2, <3>1 DEF HandlePost, HttpTypeOK
        <4> QED
          BY <4>1
      <3>2. CASE pc'[Current(p)] # "done"
        BY <1>2, <3>2 DEF HandlePost
      <3> QED
        BY <3>1, <3>2
    <2>5. \A q \in Post \ {p} : Current(q)' = Current(q)
      BY <2>3 DEF Current
    <2>6. published'[p] => Current(p)' = Current(p)
      BY <2>4 DEF Current
    <2> QED
      BY <2>1, <2>2, <2>3, <2>5, <2>6 DEF StreamedInv
  <1>3. ASSUME UNCHANGED <<vars, results, response, bus, published, streamed>> PROVE StreamedInv'
    BY <1>3 DEF StreamedInv, vars, Current
  <1>4. ASSUME NEW g \in Get, (\E text \in PathText : HandleGet(g, text)) \/ GetFault(g)
        PROVE  StreamedInv'
    BY <1>3, <1>4 DEF HandleGet, GetFault
  <1>5. CASE CloseBus
    BY <1>5 DEF CloseBus
  <1> QED
    BY <1>1, <1>2, <1>3, <1>4, <1>5 DEF HttpNext, httpvars, httponly, StreamedInv

(* As long as the debug bus is open, whatever is in the ledger has been    *)
(* published on it; in every configuration and with every kind of failure. *)
THEOREM LedgeredWasStreamedAlways == HttpSpec => []LedgeredWasStreamed
  <1>1. HttpInit => StreamedInv
    BY DEF HttpInit, Init, StreamedInv
  <1>2. PromiseInv /\ StreamedInv => LedgeredWasStreamed
    BY DEF PromiseInv, RowSent, StreamedInv, LedgeredWasStreamed
  <1> QED
    BY <1>1, <1>2, HttpInvariant, HttpTypes, RoutesUseTheService, PromiseInvariant, StreamedStep,
       PTL
    DEF HttpSpec

(* A lookup after an acknowledgement finds the acknowledged event with its *)
(* object, in every interleaving of posts and lookups.                     *)
THEOREM LookupsFindAcknowledged ==
    ASSUME require_event_hash, "power" \notin Faults
    PROVE  HttpSpec => []LookupFindsAcknowledged
  <1> DEFINE Fits == \A g \in Get : FoundFits(g)
  <1>1. HttpInit => Fits
    BY DEF HttpInit, FoundFits
  <1>2. TypeInv /\ ArchiveInv /\ HttpInv /\ HttpTypeOK /\ Fits
           /\ [HttpNext]_httpvars => Fits'
    BY FoundStep
  <1>3. Fits => LookupFindsAcknowledged
    BY DEF FoundFits, LookupFindsAcknowledged
  <1> HIDE DEF Fits
  <1> QED
    BY <1>1, <1>2, <1>3, HttpInvariant, HttpTypes, RoutesUseTheService, ArchiveInvariant, PTL
    DEF HttpSpec
=============================================================================
