--------------------------- MODULE MCIngestService ---------------------------
(* IngestService on a small instance.  Four well-formed envelopes: three   *)
(* share an event_id, of which two also share the object's path (_A and _B:*)
(* different places that _safe_segment maps to one directory) and two have *)
(* the same payload at different paths (_A and _C); the fourth is another  *)
(* event.  The others declare a hash that is wrong.                        *)
EXTENDS IngestServiceRefinement, TLC

CONSTANTS r1, r2, r3, id1, id2, placeX, placeY, placeZ, dirXY, dirZ, pay1, pay2, wrong

MCPlace   == {placeX, placeY, placeZ}
MCSafeDir == [p \in MCPlace |-> IF p = placeZ THEN dirZ ELSE dirXY]

(* What a producer builds: payload hash first, then the event hash.        *)
MakeEvent(id, place, payload) ==
    LET e == [event_id |-> id, place |-> place, payload |-> payload,
              payload_sha256 |-> sha256_json(payload)]
    IN  [event_id |-> id, place |-> place, payload |-> payload,
         payload_sha256 |-> sha256_json(payload),
         event_sha256 |-> sha256_json(e)]

EventA == MakeEvent(id1, placeX, pay1)
EventB == MakeEvent(id1, placeY, pay2)
EventC == MakeEvent(id1, placeZ, pay1)
EventD == MakeEvent(id2, placeX, pay2)

(* EventA with a wrong hash of either kind.                                *)
WrongPayloadHash == [EventA EXCEPT !.payload_sha256 = wrong]
WrongEventHash   == [EventA EXCEPT !.event_sha256 = wrong]

(* EventB under the event hash of EventA.                                  *)
BorrowedHash == [EventB EXCEPT !.event_sha256 = EventA.event_sha256]

OneId      == {EventA, EventB}
Colliding  == {EventA, EventB, EventC, WrongEventHash}
Unverified == {EventA, BorrowedHash, EventD, WrongPayloadHash}
Declared   == {EventA, BorrowedHash, WrongEventHash}

Known     == Colliding \cup Unverified
MCDigest  == {e.event_sha256 : e \in Known} \cup {e.payload_sha256 : e \in Known}
MCRawText == {canonical_json_text(e) : e \in Envelope}
MCUri     == {PathFor(e) : e \in Envelope}

Symmetry == Permutations(Request)
=============================================================================
