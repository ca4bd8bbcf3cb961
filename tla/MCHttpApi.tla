------------------------------ MODULE MCHttpApi ------------------------------
(* HttpApi on a small instance: a batch of two events and a single event,  *)
(* which may repeat one of the batch or conflict with it, and one lookup.  *)
EXTENDS HttpApi, MCIngestService

CONSTANTS batch, single, g1, other1

MCEvents == (batch :> <<r1, r2>>) @@ (single :> <<r3>>)

(* Another spelling of the id, for example in upper case.                  *)
MCPathText == EventId \cup {other1}
MCIdOf     == [text \in MCPathText |-> IF text = other1 THEN id1 ELSE text]

Sent == {EventA, EventB, WrongEventHash}
=============================================================================
