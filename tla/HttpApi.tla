------------------------------- MODULE HttpApi -------------------------------
(***************************************************************************)
(* The HTTP routes of api/routes.py over the ingest service: POST of one   *)
(* event, POST of a batch, and the lookup of an event.                     *)
(*                                                                         *)
(* A post is handled by one thread of the pool.  It publishes an event on  *)
(* the debug bus, if the server has one and no interrupt has closed it,    *)
(* calls ingest for it, and goes on to the next one; so the requests of a  *)
(* post run one after the other, those of different posts interleave.  A   *)
(* batch turns the exceptions of the service into results; any other       *)
(* exception leaves the handler, and what the batch had reported so far is *)
(* lost.                                                                   *)
(***************************************************************************)
EXTENDS IngestService, Sequences

CONSTANTS
    Post,      \* HTTP requests that submit events
    Single,    \* those to /v1/events; the others go to /v1/events:batch
    Events,    \* Events[p]: the calls of ingest that p makes, in order
    Get,       \* requests to /v1/events/{event_id}
    PathText,  \* what a path may have for the id: an id as ingestion spells it, or otherwise
    IdOf,      \* IdOf[text]: the id that is meant
    DebugMode  \* whether the server was started with EC_ENV=debug

ASSUME HttpApiAssumption ==
    /\ Single \subseteq Post
    /\ Events \in [Post -> Seq(Request)]
    /\ \A p \in Post : Events[p] # <<>> /\ (p \in Single => Len(Events[p]) = 1)
    /\ DebugMode \in BOOLEAN
    /\ EventId \subseteq PathText /\ IdOf \in [PathText -> EventId]
    /\ \A id \in EventId : IdOf[id] = id
    /\ \A p, q \in Post : \A i \in 1 .. Len(Events[p]), j \in 1 .. Len(Events[q]) :
          Events[p][i] = Events[q][j] => p = q /\ i = j

VARIABLES
    results,   \* results[p]: the status reported for each event so far
    response,  \* response[p]: the status code of the response
    bus,       \* the debug bus of the server: "off" if it has none, "open" or "closed"
    published, \* published[p]: p is past publishing its current event
    streamed,  \* the requests whose event is in the history of the debug bus
    wants,     \* wants[g]: the text for the event id in the path of g, once it has come
    found,     \* found[g]: the record that g returned
    promised   \* promised[g]: the texts acknowledged for that id before g read

httponly == <<results, response, bus, published, streamed, wants, found, promised>>
httpvars == <<vars, httponly>>

ReportStatus == Success \cup {"hash_conflict", "failed"}
Code == {200, 404, 409, 422, 500}

HttpTypeOK ==
    /\ results \in [Post -> Seq(ReportStatus)]
    /\ response \in [Post -> {0} \cup Code]
    /\ bus \in {"off", "open", "closed"}
    /\ published \in [Post -> BOOLEAN]
    /\ streamed \subseteq Request
    /\ wants \in [Get -> PathText \cup {None}]
    /\ found \in [Get -> [code : {0, 200, 404, 500}, row : Row \cup {NoRow}]]
    /\ promised \in [Get -> SUBSET RawText]

HttpInit ==
    /\ Init
    /\ results = [p \in Post |-> <<>>]
    /\ response = [p \in Post |-> 0]
    /\ bus = IF DebugMode THEN "open" ELSE "off"
    /\ published = [p \in Post |-> FALSE]
    /\ streamed = {}
    /\ wants = [g \in Get |-> None]
    /\ found = [g \in Get |-> [code |-> 0, row |-> NoRow]]
    /\ promised = [g \in Get |-> {}]

-----------------------------------------------------------------------------
(* Submitting events.                                                      *)

(* The call of ingest that the handler of p makes or is about to make.     *)
Current(p) == Events[p][Len(results[p]) + 1]

(* Variants as a plausible bug would write them.                           *)

StatusCodeNoValidation(status) ==   \* HashValidationError is not caught
    CASE status \in Success \cup {"hash_conflict"} -> 200
      [] status = "conflict_error" -> 409
      [] OTHER -> 500

ReportConflictAsDuplicate(status) ==   \* any row of the id counts as a duplicate
    CASE status = "conflict_error" -> "duplicate"
      [] status \in {"invalid_hash", "storage_error"} -> "failed"
      [] OTHER -> status

IngestEventBatchStopping(p, status) ==   \* HashConflictError is not caught
    IF status \in {"server_error", "conflict_error"}
    THEN response' = [response EXCEPT ![p] = 409] /\ UNCHANGED results
    ELSE /\ results' = [results EXCEPT ![p] = Append(@, status)]
         /\ response' = [response EXCEPT ![p] =
                IF Len(results'[p]) = Len(Events[p]) THEN 200 ELSE 0]

GetEventStoredOnly(g) ==   \* only a row marked stored counts
    LET row == rows[IdOf[wants'[g]]] IN
    found' = [found EXCEPT ![g] =
        IF row = NoRow \/ row.status # "stored"
        THEN [code |-> 404, row |-> NoRow]
        ELSE [code |-> 200, row |-> row]]

PublishOncePerBatch(p) ==   \* before the loop over the events, not in it
    streamed' = IF bus = "open" /\ results[p] = <<>>
                THEN streamed \cup {Current(p)} ELSE streamed

-----------------------------------------------------------------------------

(* The single route: exceptions become status codes.                       *)
StatusCode(status) ==
    CASE status \in Success \cup {"hash_conflict"} -> 200
      [] status = "conflict_error" -> 409
      [] status = "invalid_hash" -> 422
      [] OTHER -> 500

(* The batch route: exceptions of the service become results.              *)
Report(status) ==
    CASE status = "conflict_error" -> "hash_conflict"
      [] status \in {"invalid_hash", "storage_error"} -> "failed"
      [] OTHER -> status

(* ingest_event, when ingest has returned or raised.                       *)
IngestEvent(p, status) ==
    /\ response' = [response EXCEPT ![p] = StatusCode(status)]
    /\ results' = [results EXCEPT ![p] = IF StatusCode(status) = 200 THEN <<status>> ELSE <<>>]

(* The body of the loop of ingest_event_batch; the response comes after    *)
(* its last event, or at once when something else was raised.              *)
IngestEventBatch(p, status) ==
    IF status = "server_error"
    THEN response' = [response EXCEPT ![p] = 500] /\ UNCHANGED results
    ELSE /\ results' = [results EXCEPT ![p] = Append(@, Report(status))]
         /\ response' = [response EXCEPT ![p] =
                IF Len(results'[p]) = Len(Events[p]) THEN 200 ELSE 0]

(* _publish_debug_event, before each call of ingest: without a bus, or     *)
(* once the bus is closed, nothing is recorded.                            *)
PublishDebugEvent(p) ==
    streamed' = IF bus = "open" THEN streamed \cup {Current(p)} ELSE streamed

(* The thread that handles p starts, or goes on to the next event.         *)
Announce(p) ==
    /\ response[p] = 0
    /\ ~published[p]
    /\ PublishDebugEvent(p)
    /\ published' = [published EXCEPT ![p] = TRUE]
    /\ UNCHANGED <<vars, results, response, bus, wants, found, promised>>

(* A step of the thread that handles p: a step of its current call and,    *)
(* when the call has ended, what the handler makes of it.  A handler whose *)
(* process died takes no more steps and sends no response.                 *)
HandlePost(p) ==
    /\ response[p] = 0
    /\ published[p]
    /\ Handle(Current(p))
    /\ LET ended == pc'[Current(p)] = "done"
           status == answer'[Current(p)].status
       IN  /\ \/ ended /\ p \in Single /\ IngestEvent(p, status)
              \/ ended /\ p \notin Single /\ IngestEventBatch(p, status)
              \/ ~ended /\ UNCHANGED <<results, response>>
           /\ published' = [published EXCEPT ![p] = ~ended]
    /\ UNCHANGED <<bus, streamed, wants, found, promised>>

(* handle_exit: an interrupt closes the bus; requests in progress go on.   *)
CloseBus ==
    /\ bus = "open"
    /\ bus' = "closed"
    /\ UNCHANGED <<vars, results, response, published, streamed, wants, found, promised>>

-----------------------------------------------------------------------------
(* Looking up an event: one SELECT by the text in the path as it is, while *)
(* a row has the id as normalized_event_id spells it.                      *)

Selected(text) == IF text \in EventId THEN rows[text] ELSE NoRow

GetEvent(g) ==
    LET row == Selected(wants'[g]) IN
    found' = [found EXCEPT ![g] =
        IF row = NoRow THEN [code |-> 404, row |-> NoRow] ELSE [code |-> 200, row |-> row]]

HandleGet(g, text) ==
    /\ found[g].code = 0
    /\ wants' = [wants EXCEPT ![g] = text]
    /\ GetEvent(g)
    /\ promised' = [promised EXCEPT ![g] =
           {Raw(r) : r \in {q \in Request : Id(q) = IdOf[text] /\ Acked(q)}}]
    /\ UNCHANGED <<vars, results, response, bus, published, streamed>>

(* The SELECT fails, which nothing catches.                                *)
GetFault(g) ==
    /\ "ledger" \in Faults
    /\ found[g].code = 0
    /\ found' = [found EXCEPT ![g] = [code |-> 500, row |-> NoRow]]
    /\ UNCHANGED <<vars, results, response, bus, published, streamed, wants, promised>>

HttpNext ==
    \/ \E p \in Post : Announce(p) \/ HandlePost(p)
    \/ CloseBus
    \/ \E g \in Get : (\E text \in PathText : HandleGet(g, text)) \/ GetFault(g)

HttpSpec == HttpInit /\ [][HttpNext]_httpvars

-----------------------------------------------------------------------------
(* Properties.                                                             *)

(* What is reported as a success at a place of the results is the event at *)
(* that place of the batch, and it is in the archive.                      *)
ReportedIsArchived ==
    \A p \in Post : \A i \in 1 .. Len(results[p]) :
        results[p][i] \in Success =>
            LET r == Events[p][i]
            IN  answer[r].storage_uri # None /\ files[answer[r].storage_uri] = Raw(r)

(* A conflict, a wrong hash or a failed write of one event does not keep   *)
(* the others of its batch from being reported: a response without all its *)
(* results means that the ledger failed.                                   *)
BatchReportsEveryEvent ==
    \A p \in Post \ Single :
        /\ response[p] = 200 => Len(results[p]) = Len(Events[p])
        /\ response[p] \notin {0, 200} =>
              \E i \in 1 .. Len(Events[p]) : answer[Events[p][i]].status = "server_error"

(* An event that was stored by an earlier place of the same batch, by      *)
(* another post, or by a batch that was aborted after it and is repeated,  *)
(* is reported as a duplicate, unless a write of it has failed.            *)
RepeatIsReportedDuplicate ==
    \A p \in Post : \A i \in 1 .. Len(results[p]) :
        replayed[Events[p][i]] # "no" /\ attempts[Id(Events[p][i])]["failed"] = 0 =>
            results[p][i] = "duplicate"

(* The single route tells a client whether to send an event again.  409    *)
(* and 422 say no, and an event that gets one is not the one its id stands *)
(* for.  500 says yes, and an event that gets one can still be stored: its *)
(* hashes hold, and a failed write leaves the ledger with a row of it.     *)
StatusTellsWhetherToRetry ==
    \A p \in Single :
        LET r == Events[p][1] IN
        /\ response[p] = 409 => rows[Id(r)].raw_envelope_json # Raw(r)
        /\ response[p] = 422 => ~HashesValid(env[r]) /\ \A u \in Uri : files[u] # Raw(r)
        /\ response[p] = 500 =>
              /\ HashesValid(env[r])
              /\ answer[r].status # "server_error" => rows[Id(r)].raw_envelope_json = Raw(r)

(* A lookup after an acknowledgement finds the acknowledged event, with an *)
(* object that holds it, whatever has been tried since; only an id that is *)
(* not spelled as ingestion spells it can hide an event from a lookup.     *)
LookupFindsAcknowledged ==
    \A g \in Get : found[g].code \in {200, 404} /\ wants[g] \in EventId => \A text \in promised[g] :
        /\ found[g].code = 200
        /\ found[g].row.raw_envelope_json = text
        /\ found[g].row.storage_uri # None /\ files[found[g].row.storage_uri] = text

(* As long as the debug bus is open, whoever joins it is shown all that is *)
(* in the ledger: an event is published before the ledger has a row of it, *)
(* also when its post is aborted later.                                    *)
LedgeredWasStreamed ==
    bus = "open" => \A id \in EventId : rows[id] # NoRow =>
        \E r \in streamed : Id(r) = id /\ Raw(r) = rows[id].raw_envelope_json
=============================================================================
