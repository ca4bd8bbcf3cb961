----------------------- MODULE FilesystemStorageProofs -----------------------
(***************************************************************************)
(* Proofs about FilesystemStorage, for any number of calls, paths and      *)
(* contents.                                                               *)
(***************************************************************************)
EXTENDS FilesystemStorage, TLAPS

USE DEF InCall, Ended

(* Calls that overlap on a path bring one content, and a call that has     *)
(* found no object and may still make one can only find its own content    *)
(* there when it comes to it.                                              *)
Agree(v, w) ==
    wpc[v] \in InCall /\ wpc[w] \in InCall /\ call[v].path = call[w].path
        => call[v].raw = call[w].raw

Late == {"mkstemp", "write", "replace", "unlink"}

StorageInv ==
    /\ \A v \in Writer, w \in Writer : Agree(v, w)
    /\ \A w \in Writer : wpc[w] = "replace" => temps[w] = call[w].raw
    /\ \A w \in Writer :
          wpc[w] \in Late /\ files[call[w].path] # Absent => files[call[w].path] = call[w].raw
    /\ ReturnedObjectHeld

(* The part that power loss leaves: what is renamed is complete.           *)
WholeInv ==
    /\ \A w \in Writer : wpc[w] = "replace" => temps[w] = call[w].raw
    /\ \A p \in Path : files[p] # Torn /\ durable[p] # Torn

TempInv == \A w \in Writer : temps[w] # Absent => wpc[w] \in {"write", "replace", "unlink", "dead"}

(* What one writer's step may do, with the control of the others kept.     *)
LEMMA OneWriter ==
  ASSUME TypeOK, NEW w \in Writer, Start(w) \/ Step(w) \/ Crash(w)
  PROVE  /\ \A v \in Writer \ {w} : wpc'[v] = wpc[v] /\ temps'[v] = temps[v]
         /\ wpc'[w] \in {"idle"} \cup InCall \cup Ended /\ temps'[w] \in Content
         /\ wpc' \in [Writer -> {"idle"} \cup InCall \cup Ended] /\ temps' \in [Writer -> Content]
         /\ files' = files \/ (Rename(w) /\ files' = [files EXCEPT ![call[w].path] = temps[w]])
         /\ durable' = durable
<1> USE DEF TypeOK, Goto
<1>1. call[w].path \in Path /\ call[w].raw \in Content /\ {Absent, Torn} \subseteq Content
  BY DEF Call, Content
<1>2. CASE Start(w) \/ CheckExists(w) \/ ReadExisting(w)
  BY <1>2 DEF Start, Begin, CheckExists, ReadExisting
<1>3. CASE MakeTemp(w) \/ WriteTemp(w) \/ Unlink(w)
  BY <1>1, <1>3 DEF MakeTemp, WriteTemp, Unlink
<1>4. CASE Replace(w) \/ FailAfterReplace(w)
  BY <1>1, <1>4 DEF Replace, FailAfterReplace, Rename
<1>5. CASE FailEarly(w) \/ FailLate(w) \/ FailUnlink(w) \/ Crash(w)
  BY <1>5 DEF FailEarly, FailLate, FailUnlink, Crash
<1>6. QED
  BY <1>2, <1>3, <1>4, <1>5 DEF Step

LEMMA StorageTypeInit == Init => TypeOK
  BY DEF Init, StorageInit, TypeOK, Content

LEMMA StorageTypeStep == TypeOK /\ [Next]_vars => TypeOK'
<1> SUFFICES ASSUME TypeOK, [Next]_vars PROVE TypeOK'
  OBVIOUS
<1>1. ASSUME NEW w \in Writer, Start(w) \/ Step(w) \/ Crash(w), UNCHANGED call
      PROVE  TypeOK'
  <2>1. files' \in [Path -> Content]
    BY <1>1, OneWriter DEF TypeOK, Call
  <2>2. QED
    BY <1>1, <2>1, OneWriter DEF TypeOK
<1>2. CASE PowerLoss /\ UNCHANGED call
  <2>1. PICK lost \in SUBSET Path :
           files' = [p \in Path |-> IF p \in lost THEN durable[p] ELSE files[p]]
    BY <1>2 DEF PowerLoss
  <2>2. files' \in [Path -> Content]
    BY <2>1 DEF TypeOK
  <2>3. QED
    BY <1>2, <2>2 DEF PowerLoss, TypeOK
<1>3. CASE UNCHANGED vars
  BY <1>3 DEF vars, TypeOK
<1>4. QED
  BY <1>1, <1>2, <1>3 DEF Next

(* The variables keep their types, whatever faults happen.                 *)
THEOREM StorageTypes == Spec => []TypeOK
  BY StorageTypeInit, StorageTypeStep, PTL DEF Spec

LEMMA WholeStep == TypeOK /\ WholeInv /\ [Next]_vars => WholeInv'
<1> SUFFICES ASSUME TypeOK, WholeInv, [Next]_vars PROVE WholeInv'
  OBVIOUS
<1>1. ASSUME NEW w \in Writer, Start(w) \/ Step(w) \/ Crash(w), UNCHANGED call
      PROVE  WholeInv'
  <2>1. wpc'[w] = "replace" => temps'[w] = call[w].raw
    BY <1>1 DEF TypeOK, WholeInv, Goto, Step, Start, Begin, CheckExists, ReadExisting, MakeTemp,
                WriteTemp, Rename, Replace, FailAfterReplace, Unlink, FailEarly, FailLate,
                FailUnlink, Crash
  <2>2. \A p \in Path : files'[p] # Torn
    <3>1. CASE Rename(w)
      <4>1. temps[w] # Torn
        BY <3>1, FilesystemStorageAssumption DEF Rename, WholeInv, TypeOK, Call
      <4>2. QED
        BY <3>1, <4>1 DEF Rename, WholeInv, TypeOK
    <3>2. CASE ~Rename(w)
      BY <1>1, <3>2, OneWriter DEF WholeInv
    <3>3. QED
      BY <3>1, <3>2
  <2>3. QED
    BY <1>1, <2>1, <2>2, OneWriter DEF WholeInv
<1>2. CASE PowerLoss /\ UNCHANGED call
  BY <1>2 DEF PowerLoss, WholeInv, TypeOK
<1>3. CASE UNCHANGED vars
  BY <1>3 DEF vars, WholeInv
<1>4. QED
  BY <1>1, <1>2, <1>3 DEF Next

(* Every object a reader can see is complete, also after power loss, and   *)
(* whatever calls fail or die at whatever point.                           *)
THEOREM ObjectsAreWholeAlways == Spec => []ObjectsAreWhole
<1>1. Init => WholeInv
  BY FilesystemStorageAssumption DEF Init, StorageInit, WholeInv
<1>2. WholeInv => ObjectsAreWhole
  BY DEF WholeInv, ObjectsAreWhole
<1>3. QED
  BY <1>1, <1>2, StorageTypeInit, StorageTypeStep, WholeStep, PTL DEF Spec

LEMMA TempStep ==
  ASSUME "unlink" \notin Faults
  PROVE  TypeOK /\ TempInv /\ [Next]_vars => TempInv'
<1> SUFFICES ASSUME TypeOK, TempInv, [Next]_vars PROVE TempInv'
  OBVIOUS
<1>1. ASSUME NEW w \in Writer, Start(w) \/ Step(w) \/ Crash(w)
      PROVE  TempInv'
  <2>1. temps'[w] # Absent => wpc'[w] \in {"write", "replace", "unlink", "dead"}
    BY <1>1 DEF TypeOK, TempInv, Goto, Step, Start, Begin, CheckExists, ReadExisting, MakeTemp,
                WriteTemp, Rename, Replace, FailAfterReplace, Unlink, FailEarly, FailLate,
                FailUnlink, Crash
  <2>2. QED
    BY <1>1, <2>1, OneWriter DEF TempInv
<1>2. CASE PowerLoss
  BY <1>2 DEF PowerLoss, TempInv, TypeOK
<1>3. CASE UNCHANGED vars
  BY <1>3 DEF vars, TempInv
<1>4. QED
  BY <1>1, <1>2, <1>3 DEF Next

(* A call that has ended leaves no temporary file behind unless its        *)
(* process died, where unlink itself does not fail.                        *)
THEOREM NoTempLeftAlways ==
  ASSUME "unlink" \notin Faults
  PROVE  Spec => []NoTempLeft
<1>1. Init => TempInv
  BY DEF Init, StorageInit, TempInv
<1>2. TempInv => NoTempLeft
  BY DEF TempInv, NoTempLeft
<1>3. QED
  BY <1>1, <1>2, StorageTypeInit, StorageTypeStep, TempStep, PTL DEF Spec

(* A step of w keeps what is said of every writer, and an object that is   *)
(* there stays as it is.                                                   *)
LEMMA StorageWriter ==
  ASSUME TypeOK, StorageInv, NEW w \in Writer, Start(w) \/ Step(w) \/ Crash(w), UNCHANGED call
  PROVE  StorageInv' /\ \A p \in Path : files[p] # Absent => files'[p] = files[p]
<1>1. \A p \in Path : files[p] # Absent => files'[p] = files[p]
  <2>1. CASE Rename(w)
    BY <2>1 DEF Rename, StorageInv, TypeOK, Late
  <2>2. CASE ~Rename(w)
    BY <2>2, OneWriter
  <2>3. QED
    BY <2>1, <2>2
<1>2. \A v \in Writer : call[v].path \in Path /\ call[v].raw \in Raw
  BY DEF TypeOK, Call
<1>3. wpc'[w] = "replace" => temps'[w] = call[w].raw
  BY DEF TypeOK, StorageInv, Goto, Step, Start, Begin, CheckExists, ReadExisting, MakeTemp,
         WriteTemp, Rename, Replace, FailAfterReplace, Unlink, FailEarly, FailLate,
         FailUnlink, Crash
<1>4. ASSUME NEW v \in Writer PROVE Agree(v, w)' /\ Agree(w, v)'
  <2>1. CASE wpc[w] \in InCall \/ wpc'[w] \notin InCall
    BY <2>1, OneWriter DEF StorageInv, Agree
  <2>2. CASE wpc[w] \notin InCall /\ wpc'[w] \in InCall
    <3>1. Start(w)
      BY <2>2 DEF TypeOK, Goto, Step, CheckExists, ReadExisting, MakeTemp, WriteTemp, Rename, Replace,
                  FailAfterReplace, Unlink, FailEarly, FailLate, FailUnlink, Crash
    <3>2. QED
      BY <3>1, OneWriter DEF Start, Agree
  <2>3. QED
    BY <2>1, <2>2
<1>5. \A v \in Writer, u \in Writer : Agree(v, u)'
  BY <1>4, OneWriter DEF StorageInv, Agree
<1>6. files'[call[w].path] # Absent =>
        /\ wpc'[w] \in Late => files'[call[w].path] = call[w].raw
        /\ wpc'[w] = "returned" => files'[call[w].path] = call[w].raw
  BY <1>1, <1>2 DEF TypeOK, StorageInv, Late, ReturnedObjectHeld, Goto, Step, Start, Begin,
         CheckExists, ReadExisting, MakeTemp, WriteTemp, Rename, Replace, FailAfterReplace,
         Unlink, FailEarly, FailLate, FailUnlink, Crash
<1>7. wpc'[w] = "returned" => files'[call[w].path] # Absent
  BY <1>1, <1>2, FilesystemStorageAssumption
  DEF TypeOK, StorageInv, ReturnedObjectHeld, Goto, Step, Start, Begin, CheckExists, ReadExisting,
      MakeTemp, WriteTemp, Rename, Replace, FailAfterReplace, Unlink, FailEarly, FailLate, FailUnlink, Crash
<1>8. ASSUME NEW v \in Writer \ {w}, wpc[v] \in Late, files'[call[v].path] # Absent
      PROVE  files'[call[v].path] = call[v].raw
  <2>1. CASE Rename(w) /\ call[w].path = call[v].path
    BY <1>2, <1>8, <2>1 DEF Rename, StorageInv, Agree, Late, TypeOK
  <2>2. CASE ~(Rename(w) /\ call[w].path = call[v].path)
    BY <1>2, <1>8, <2>2, OneWriter DEF StorageInv, TypeOK
  <2>3. QED
    BY <2>1, <2>2
<1>9. ASSUME NEW v \in Writer \ {w}, wpc[v] = "returned" PROVE files'[call[v].path] = call[v].raw
  BY <1>1, <1>2, <1>9, FilesystemStorageAssumption DEF StorageInv, ReturnedObjectHeld
<1>10. QED
  BY <1>1, <1>3, <1>5, <1>6, <1>7, <1>8, <1>9, OneWriter DEF StorageInv, ReturnedObjectHeld

LEMMA StorageInvInit == Init => StorageInv
  BY DEF Init, StorageInit, StorageInv, Agree, ReturnedObjectHeld, Late

LEMMA StorageInvStep ==
  ASSUME "power" \notin Faults
  PROVE  TypeOK /\ StorageInv /\ [Next]_vars
            => StorageInv' /\ \A p \in Path : files[p] # Absent => files'[p] = files[p]
<1>1. CASE Next
  BY <1>1, StorageWriter DEF Next, PowerLoss
<1>2. CASE UNCHANGED vars
  BY <1>2 DEF vars, StorageInv, Agree, ReturnedObjectHeld
<1>3. QED
  BY <1>1, <1>2

(* A path that was returned names the caller's content from then on, while *)
(* power lasts.                                                            *)
THEOREM ReturnedObjectHeldAlways ==
  ASSUME "power" \notin Faults
  PROVE  Spec => []ReturnedObjectHeld
<1>1. StorageInv => ReturnedObjectHeld
  BY DEF StorageInv
<1>2. QED
  BY <1>1, StorageInvInit, StorageTypeInit, StorageTypeStep, StorageInvStep, PTL DEF Spec

(* An object once visible is never replaced or removed, while power lasts. *)
THEOREM ObjectNeverChangesEver ==
  ASSUME "power" \notin Faults
  PROVE  Spec => ObjectNeverChanges
<1>1. TypeOK /\ StorageInv /\ [Next]_vars
        => [\A p \in Path : files[p] # Absent => files'[p] = files[p]]_vars
  BY StorageInvStep
<1>2. QED
  BY <1>1, StorageInvInit, StorageTypeInit, StorageTypeStep, StorageInvStep, PTL
  DEF Spec, ObjectNeverChanges
=============================================================================
