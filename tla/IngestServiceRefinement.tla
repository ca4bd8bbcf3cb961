----------------------- MODULE IngestServiceRefinement -----------------------
(* IngestService implements EventArchive.  An id is bound when its ledger   *)
(* row is committed and kept when the object of that row can be read.       *)
EXTENDS IngestService

Nothing == None

BoundText ==
    [id \in EventId |-> IF rows[id] = NoRow THEN Nothing ELSE rows[id].raw_envelope_json]

KeptText ==
    [id \in EventId |->
        IF rows[id] # NoRow /\ \E u \in Uri : files[u] = rows[id].raw_envelope_json
        THEN rows[id].raw_envelope_json
        ELSE Nothing]

Verdict(status) ==
    CASE status = "none" -> "none"
      [] status \in Success -> "acked"
      [] status \in {"conflict_error", "hash_conflict"} -> "conflict"
      [] OTHER -> "refused"

Promise == INSTANCE EventArchive WITH
    Text    <- RawText,
    wanted  <- [r \in Request |-> [event_id |-> Id(r), text |-> Raw(r)]],
    bound   <- BoundText,
    kept    <- KeptText,
    verdict <- [r \in Request |-> Verdict(answer[r].status)]

(* Every behaviour of the service, with its races, failures and crashes,    *)
(* is one that the abstract archive allows: in particular no step changes   *)
(* two of its variables, and none undoes what was promised.                 *)
ImplementsEventArchive == Promise!Spec
=============================================================================
