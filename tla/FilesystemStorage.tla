------------------------- MODULE FilesystemStorage -------------------------
(***************************************************************************)
(* The raw event store, storage/filesystem.py: calls of write_raw_event    *)
(* that share one directory tree.  The calls run on threads of one server  *)
(* process and in other processes that share the directory (the command    *)
(* line tool builds the same application on the same paths), so their      *)
(* system calls interleave freely.                                         *)
(*                                                                         *)
(* One writer is one call.  A path is one object name, a raw value is the  *)
(* whole canonical text of an event.  The temporary file of a call has a   *)
(* name no other call has, because mkstemp opens it O_EXCL, so the         *)
(* temporary files are indexed by the call that made them.                 *)
(***************************************************************************)
EXTENDS Integers, FiniteSets

CONSTANTS
    Writer,    \* calls of write_raw_event
    Path,      \* final paths
    Raw,       \* complete object contents
    Absent,    \* no file of that name
    Torn,      \* a file whose content is not complete yet
    MaxCalls,  \* how many calls may be in progress at once
    Faults     \* what may go wrong: a subset of FaultKind

(* "storage": an OSError of any file operation but unlink; "unlink": of    *)
(* unlink; "crash": the process of a call dies; "power": the machine loses *)
(* power; "ledger" is for the module that composes this one.               *)
FaultKind == {"storage", "unlink", "crash", "power", "ledger"}

ASSUME FilesystemStorageAssumption ==
    /\ {Absent, Torn} \cap Raw = {}
    /\ Absent # Torn
    /\ MaxCalls \in Nat \ {0}
    /\ Faults \subseteq FaultKind

VARIABLES
    call,     \* call[w]: the arguments of w, as a path and a raw text
    files,    \* files[p]: what a reader of p sees
    durable,  \* durable[p]: the entry of p that is certain to survive power loss
    temps,    \* temps[w]: the temporary file of w
    wpc       \* wpc[w]: the next step of w, or how it ended

vars == <<call, files, durable, temps, wpc>>

InCall == {"exists", "read", "mkstemp", "write", "replace", "unlink"}
Ended  == {"returned", "conflict", "raised", "dead"}

Call    == [path : Path, raw : Raw]
Content == Raw \cup {Absent, Torn}

TypeOK ==
    /\ call \in [Writer -> Call]
    /\ files \in [Path -> Content]
    /\ durable \in [Path -> Content]
    /\ temps \in [Writer -> Content]
    /\ wpc \in [Writer -> {"idle"} \cup InCall \cup Ended]

StorageInit ==
    /\ files = [p \in Path |-> Absent]
    /\ durable = [p \in Path |-> Absent]
    /\ temps = [w \in Writer |-> Absent]
    /\ wpc = [w \in Writer |-> "idle"]

Init == StorageInit /\ call \in [Writer -> Call]

-----------------------------------------------------------------------------
(* The steps of one call, in program order.                                *)

Goto(w, label) == wpc' = [wpc EXCEPT ![w] = label]

(* Variants of the steps below as a plausible bug would write them; each   *)
(* shows that a property notices.                                          *)

CheckExistsAlwaysAbsent(w) ==   \* the existence check is dropped
    /\ wpc[w] = "exists"
    /\ Goto(w, "mkstemp")
    /\ UNCHANGED <<files, durable, temps>>

MakeTempUnderFinalName(w) ==   \* no temporary file: the object is written in place
    /\ wpc[w] = "mkstemp"
    /\ files' = [files EXCEPT ![call[w].path] = Torn]
    /\ temps' = [temps EXCEPT ![w] = Torn]
    /\ Goto(w, "write")
    /\ UNCHANGED durable

FailLateWithoutFinally(w) ==   \* the finally block is dropped
    /\ "storage" \in Faults
    /\ wpc[w] \in {"write", "replace"}
    /\ Goto(w, "raised")
    /\ UNCHANGED <<files, durable, temps>>

FailLateSwallowed(w) ==   \* the finally block returns and so hides the error
    /\ "storage" \in Faults
    /\ wpc[w] \in {"write", "replace"}
    /\ temps' = [temps EXCEPT ![w] = Absent]
    /\ Goto(w, "returned")
    /\ UNCHANGED <<files, durable>>

(* The call is made: the path is computed and its directory exists.        *)
Begin(w) ==
    /\ wpc[w] = "idle"
    /\ Goto(w, "exists")
    /\ UNCHANGED <<files, durable, temps>>

CheckExists(w) ==
    /\ wpc[w] = "exists"
    /\ Goto(w, IF files[call[w].path] = Absent THEN "mkstemp" ELSE "read")
    /\ UNCHANGED <<files, durable, temps>>

(* The file is still there: nothing removes a final path.                  *)
ReadExisting(w) ==
    /\ wpc[w] = "read"
    /\ Goto(w, IF files[call[w].path] = call[w].raw THEN "returned" ELSE "conflict")
    /\ UNCHANGED <<files, durable, temps>>

MakeTemp(w) ==
    /\ wpc[w] = "mkstemp"
    /\ temps' = [temps EXCEPT ![w] = Torn]
    /\ Goto(w, "write")
    /\ UNCHANGED <<files, durable>>

(* write, flush and fsync: the content of the temporary file is complete.  *)
WriteTemp(w) ==
    /\ wpc[w] = "write"
    /\ temps' = [temps EXCEPT ![w] = call[w].raw]
    /\ Goto(w, "replace")
    /\ UNCHANGED <<files, durable>>

(* os.replace: the final name changes at once, whether or not it exists.   *)
(* The directory is not synced, so "durable" does not change.              *)
Rename(w) ==
    /\ wpc[w] = "replace"
    /\ files' = [files EXCEPT ![call[w].path] = temps[w]]
    /\ temps' = [temps EXCEPT ![w] = Absent]
    /\ UNCHANGED durable

(* The finally block finds no temporary file and the call returns the path *)
(* or, with the object in place, an OSError: of exists() in that block, or *)
(* of resolve().                                                           *)
Replace(w)          == Rename(w) /\ Goto(w, "returned")
FailAfterReplace(w) == "storage" \in Faults /\ Rename(w) /\ Goto(w, "raised")

(* The finally block after a failed write or replace.                      *)
Unlink(w) ==
    /\ wpc[w] = "unlink"
    /\ temps' = [temps EXCEPT ![w] = Absent]
    /\ Goto(w, "raised")
    /\ UNCHANGED <<files, durable>>

(* An OSError before the temporary file exists leaves the call at once.    *)
FailEarly(w) ==
    /\ "storage" \in Faults
    /\ wpc[w] \in {"exists", "read", "mkstemp"}
    /\ Goto(w, "raised")
    /\ UNCHANGED <<files, durable, temps>>

(* An OSError while it is written or renamed runs the finally block.       *)
FailLate(w) ==
    /\ "storage" \in Faults
    /\ wpc[w] \in {"write", "replace"}
    /\ Goto(w, "unlink")
    /\ UNCHANGED <<files, durable, temps>>

(* The finally block itself fails: the temporary file stays.               *)
FailUnlink(w) ==
    /\ "unlink" \in Faults
    /\ wpc[w] = "unlink"
    /\ Goto(w, "raised")
    /\ UNCHANGED <<files, durable, temps>>

Step(w) ==
    \/ CheckExists(w)
    \/ ReadExisting(w)
    \/ MakeTemp(w)
    \/ WriteTemp(w)
    \/ Replace(w)
    \/ Unlink(w)
    \/ FailEarly(w)
    \/ FailLate(w)
    \/ FailAfterReplace(w)
    \/ FailUnlink(w)

-----------------------------------------------------------------------------
(* What may happen to the calls from outside.                              *)

(* The process dies: the finally block does not run.                       *)
Crash(w) ==
    /\ "crash" \in Faults
    /\ wpc[w] \in InCall
    /\ Goto(w, "dead")
    /\ UNCHANGED <<files, durable, temps>>

(* Power is lost: each name shows its last entry or the last one known to  *)
(* be on disk, and every call in progress dies.  What becomes of temporary *)
(* files does not matter: no other call opens them.                        *)
PowerLoss ==
    /\ "power" \in Faults
    /\ \E lost \in SUBSET Path :
          files' = [p \in Path |-> IF p \in lost THEN durable[p] ELSE files[p]]
    /\ durable' = files'
    /\ wpc' = [w \in Writer |-> IF wpc[w] \in InCall THEN "dead" ELSE wpc[w]]
    /\ UNCHANGED temps

(* A call is made.  What the class is used for is a store of settled       *)
(* objects: calls that overlap on one path have one content (the ledger's  *)
(* unique row sees to that); later calls may bring any content.            *)
Start(w) ==
    /\ Cardinality({v \in Writer : wpc[v] \in InCall}) < MaxCalls
    /\ \A v \in Writer :
          wpc[v] \in InCall /\ call[v].path = call[w].path => call[v].raw = call[w].raw
    /\ Begin(w)

Next ==
    /\ \/ \E w \in Writer : Start(w) \/ Step(w) \/ Crash(w)
       \/ PowerLoss
    /\ UNCHANGED call

Spec == Init /\ [][Next]_vars

-----------------------------------------------------------------------------
(* Properties.                                                             *)

(* A reader of a final path never sees a file whose content is incomplete, *)
(* whatever call is interrupted or dies at whatever point: the temporary   *)
(* file and os.replace are there for this.                                 *)
ObjectsAreWhole == \A p \in Path : files[p] # Torn

(* A path that write_raw_event has returned names an object that holds     *)
(* exactly the text of that call, from then on.                            *)
ReturnedObjectHeld ==
    \A w \in Writer : wpc[w] = "returned" => files[call[w].path] = call[w].raw

(* An object, once visible, is never replaced by another content or taken  *)
(* away: concurrent writers of one content may only write it again.        *)
ObjectNeverChanges ==
    [][\A p \in Path : files[p] # Absent => files'[p] = files[p]]_vars

(* A call that ended leaves no temporary file beside the objects, unless   *)
(* its process died.  (Checked where unlink itself does not fail.)         *)
NoTempLeft ==
    \A w \in Writer : temps[w] # Absent => wpc[w] \in InCall \cup {"dead"}
=============================================================================
