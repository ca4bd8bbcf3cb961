---------------------------- MODULE EventArchive ----------------------------
(***************************************************************************)
(* What event collection promises, without ledger, files or hashes: an     *)
(* event id is bound to one text once and for all, the text is kept, and   *)
(* only then is a request for that text acknowledged.  A request for       *)
(* another text is told of the conflict.  Any request may be refused (an   *)
(* error, a hash that does not fit); a refusal promises nothing.           *)
(***************************************************************************)
CONSTANTS Request, EventId, Text, Nothing

VARIABLES
    wanted,    \* wanted[r]: the event id and the text of request r
    bound,     \* bound[id]: the text id stands for
    kept,      \* kept[id]: the text that is archived for id
    verdict    \* verdict[r]: what request r was told

vars == <<wanted, bound, kept, verdict>>

TypeOK ==
    /\ wanted \in [Request -> [event_id : EventId, text : Text]]
    /\ bound \in [EventId -> Text \cup {Nothing}]
    /\ kept \in [EventId -> Text \cup {Nothing}]
    /\ verdict \in [Request -> {"none", "acked", "conflict", "refused"}]

Init ==
    /\ wanted \in [Request -> [event_id : EventId, text : Text]]
    /\ bound = [id \in EventId |-> Nothing]
    /\ kept = [id \in EventId |-> Nothing]
    /\ verdict = [r \in Request |-> "none"]

Bind(r) ==
    LET id == wanted[r].event_id IN
    /\ verdict[r] = "none"
    /\ bound[id] = Nothing
    /\ bound' = [bound EXCEPT ![id] = wanted[r].text]
    /\ UNCHANGED <<kept, verdict>>

Keep(id) ==
    /\ bound[id] # Nothing
    /\ kept' = [kept EXCEPT ![id] = bound[id]]
    /\ UNCHANGED <<bound, verdict>>

Tell(r, what) ==
    /\ verdict[r] = "none"
    /\ verdict' = [verdict EXCEPT ![r] = what]
    /\ UNCHANGED <<bound, kept>>

Acknowledge(r) ==
    /\ kept[wanted[r].event_id] = wanted[r].text
    /\ Tell(r, "acked")

Deny(r) ==
    /\ bound[wanted[r].event_id] \notin {Nothing, wanted[r].text}
    /\ Tell(r, "conflict")

Refuse(r) == Tell(r, "refused")

Next ==
    /\ \/ \E r \in Request : Bind(r) \/ Acknowledge(r) \/ Deny(r) \/ Refuse(r)
       \/ \E id \in EventId : Keep(id)
    /\ UNCHANGED wanted

Spec == Init /\ [][Next]_vars
=============================================================================
