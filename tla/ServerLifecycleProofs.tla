------------------------ MODULE ServerLifecycleProofs ------------------------
(***************************************************************************)
(* Proofs about ServerLifecycle, for any number of processes, commands and *)
(* PID files.                                                              *)
(*                                                                         *)
(* Three invariants, one for each thing the processes share: LedgerInv for *)
(* the tables, FileInv for a PID file whose server the operator has kept   *)
(* sight of, StaleInv for a PID file that is not stale.                    *)
(***************************************************************************)
EXTENDS ServerLifecycle, TLAPS

(* The order in which one process looks for and makes the tables, and who  *)
(* is left to make the second one.                                         *)
Order(p) ==
    /\ pc[p] = "check_attempt" => "ingest_event" \in made \cup missing[p]
    /\ pc[p] \in {"create", "index"} => Table \subseteq made \cup missing[p]
    /\ pc[p] = "index" => missing[p] # {} /\ First(missing[p]) \in made

Made(p) ==
    \/ pc[p] \in HandlesTerm \cup {"built"}
    \/ pc[p] = "working" /\ origin[p] = Tool
    => Table \subseteq made

MakesAttempt(p) ==
    /\ "ingest_attempt" \in missing[p]
    /\ \/ pc[p] = "index"
       \/ pc[p] = "create" /\ "ingest_event" \notin missing[p]

LedgerInv ==
    /\ \A p \in Pid : Order(p) /\ Made(p)
    /\ "ingest_attempt" \in made => "ingest_event" \in made
    /\ ~cut /\ "ingest_event" \in made /\ "ingest_attempt" \notin made
          => \E p \in Pid : MakesAttempt(p)

(* Which command may be at which step.                                     *)
CommandInv ==
    \A c \in Cmd :
        /\ cpc[c] \in {"open", "write"} => c \in StartCmd /\ who[c] \in Pid
        /\ cpc[c] \in {"read", "kill", "unlink"} => c \in StopCmd
        /\ cpc[c] \in {"kill", "unlink"} => who[c] \in Pid
        /\ c \in linked => cpc[c] = "write"

(* The PID file names p, and every stop that has begun will find p; or the *)
(* start of p is under way, alone at the file.                             *)
Named(p, f) ==
    /\ pidFile[f] = p
    /\ \A d \in BusyOn(f) : /\ cpc[d] \in {"read", "kill"}
                            /\ cpc[d] = "kill" => who[d] = p

Starting(p, f) ==
    \E c \in StartCmd :
        /\ Busy(c) /\ who[c] = p /\ file[c] = f
        /\ \A d \in BusyOn(f) : d = c
        /\ cpc[c] = "write" => c \in linked

FileInv ==
    \A p \in Pid, f \in File : Managed(p, f) /\ p \notin exposed => Named(p, f) \/ Starting(p, f)

(* Only a server with its handlers installed knows that it was told to exit.*)
TermInv == \A p \in term : pc[p] \in HandlesTerm

StaleInv ==
    \A f \in File \ stale :
        /\ \A c \in BusyOn(f), d \in BusyOn(f) : c = d
        /\ \A c \in BusyOn(f) :
              /\ cpc[c] \in {"open", "write", "kill"} => Managed(who[c], f)
              /\ cpc[c] = "write" => pidFile[f] \notin Pid
        /\ pidFile[f] \in Pid /\ (\A c \in BusyOn(f) : cpc[c] \notin {"open", "unlink"})
              => Managed(pidFile[f], f)

-----------------------------------------------------------------------------
(* Types.                                                                  *)

USE DEF Table, Running, Initializing, HandlesTerm

LEMMA GoneType ==
  ASSUME TypeOK, NEW p \in Pid, Gone(p)
  PROVE  /\ pc' \in [Pid -> Running \cup {"none"}] /\ port' \in Pid \cup {Nobody}
         /\ missing' \in [Pid -> SUBSET Table] /\ term' \subseteq Pid
         /\ origin' \in [Pid -> Origin] /\ exposed' \subseteq Pid
  BY DEF TypeOK, Gone, Goto, Origin

LEMMA EndsType ==
  ASSUME TypeOK, NEW p \in Pid, Ends(p), made' \subseteq Table, cut' \in BOOLEAN, UNCHANGED command
  PROVE  TypeOK'
  BY GoneType DEF TypeOK, Ends, command

LEMMA SignalledType ==
  ASSUME TypeOK, NEW p \in Pid, Signalled(p)
  PROVE  /\ pc' \in [Pid -> Running \cup {"none"}] /\ port' \in Pid \cup {Nobody}
         /\ missing' \in [Pid -> SUBSET Table] /\ term' \subseteq Pid
         /\ origin' \in [Pid -> Origin] /\ exposed' \subseteq Pid /\ cut' \in BOOLEAN
<1>1. CASE pc[p] \in HandlesTerm
  BY <1>1 DEF Signalled, TypeOK
<1>2. CASE pc[p] \notin HandlesTerm
  BY <1>2, GoneType DEF Signalled, TypeOK
<1>3. QED
  BY <1>1, <1>2

LEMMA ProcessType ==
  ASSUME TypeOK, NEW p \in Pid,
         \/ Launch(p) \/ initialize(p) \/ InstallHandlers(p) \/ Bind(p)
         \/ Close(p) \/ Finish(p) \/ Dies(p) \/ Interrupt(p)
  PROVE  TypeOK'
<1> USE DEF ledger, process, command, Goto
<1>1. CASE Launch(p)
  BY <1>1 DEF TypeOK, Launch, Begins, Origin
<1>2. CASE CreateTable(p)
  <2>1. CASE First(missing[p]) \in made
    BY <1>2, <2>1, EndsType DEF CreateTable, TypeOK
  <2>2. CASE First(missing[p]) \notin made
    BY <1>2, <2>2 DEF TypeOK, CreateTable, First
  <2>3. QED
    BY <2>1, <2>2
<1>3. CASE \/ CheckTable(p, "check_event", "ingest_event", "check_attempt")
           \/ CheckTable(p, "check_attempt", "ingest_attempt", "create")
  <2>1. \A x \in {"ingest_event", "ingest_attempt"} :
           missing[p] \cup ({x} \ made) \in SUBSET Table
    BY DEF TypeOK
  <2>2. missing' \in [Pid -> SUBSET Table]
    BY <1>3, <2>1 DEF TypeOK, CheckTable
  <2>3. pc' \in [Pid -> Running \cup {"none"}]
    BY <1>3 DEF TypeOK, CheckTable
  <2>4. QED
    BY <1>3, <2>2, <2>3 DEF TypeOK, CheckTable
<1>8. CASE CreateIndex(p)
  BY <1>8 DEF TypeOK, CreateIndex
<1>9. CASE Initialized(p)
  BY <1>9 DEF TypeOK, Initialized
<1>10. CASE InstallHandlers(p)
  BY <1>10 DEF TypeOK, InstallHandlers
<1>11. CASE Close(p)
  BY <1>11 DEF TypeOK, Close
<1>4. CASE Bind(p)
  <2>1. CASE port = Nobody
    BY <1>4, <2>1 DEF TypeOK, Bind
  <2>2. CASE port # Nobody
    BY <1>4, <2>2, EndsType DEF Bind, TypeOK
  <2>3. QED
    BY <2>1, <2>2
<1>5. CASE Finish(p) \/ Dies(p)
  BY <1>5, EndsType DEF Finish, Dies, TypeOK
<1>6. CASE Interrupt(p)
  BY <1>6, SignalledType DEF Interrupt, TypeOK
<1>7. QED
  BY <1>1, <1>2, <1>3, <1>4, <1>5, <1>6, <1>8, <1>9, <1>10, <1>11 DEF initialize

LEMMA CommandType ==
  ASSUME TypeOK, CommandInv, NEW c \in Cmd,
         \/ \E p \in Pid : Spawn(c, p)
         \/ OpenPidFile(c) \/ WritePid(c) \/ FindPidFile(c) \/ ReadPid(c)
         \/ Kill(c) \/ Unlink(c) \/ CommandDies(c)
  PROVE  TypeOK' /\ CommandInv'
<1> USE DEF ledger, process, command, Goto, Step, Done, Busy, Cmd, CommandInv
<1>1. CASE \E p \in Pid : Spawn(c, p)
  BY <1>1, ServerLifecycleAssumption DEF TypeOK, Spawn, Begins, Origin, Managed
<1>2. CASE OpenPidFile(c)
  BY <1>2 DEF TypeOK, OpenPidFile
<1>6. CASE WritePid(c)
  BY <1>6 DEF TypeOK, WritePid
<1>7. CASE FindPidFile(c)
  BY <1>7 DEF TypeOK, FindPidFile, Managed
<1>8. CASE ReadPid(c)
  BY <1>8, ServerLifecycleAssumption DEF TypeOK, ReadPid
<1>9. CASE Unlink(c)
  <2>1. linked' \subseteq StartCmd /\ \A s \in linked' : s \in linked /\ s # c
    BY <1>9 DEF TypeOK, Unlink
  <2>2. TypeOK'
    BY <1>9, <2>1 DEF TypeOK, Unlink
  <2>3. QED
    BY <1>9, <2>1, <2>2 DEF TypeOK, Unlink
<1>3. CASE CommandDies(c)
  <2>1. c \in StartCmd => who[c] \in Pid
    BY <1>3, ServerLifecycleAssumption DEF TypeOK, CommandDies
  <2>2. exposed' \subseteq Pid
    BY <1>3, <2>1 DEF TypeOK, CommandDies
  <2>3. TypeOK'
    BY <1>3, <2>2 DEF TypeOK, CommandDies
  <2>4. QED
    BY <1>3, <2>3 DEF TypeOK, CommandDies
<1>4. CASE Kill(c)
  <2>1. who[c] \in Pid
    BY <1>4 DEF Kill
  <2>2. CASE pc[who[c]] = "none"
    BY <1>4, <2>2 DEF Kill, TypeOK
  <2>3. CASE pc[who[c]] # "none"
    <3>1. /\ pc' \in [Pid -> Running \cup {"none"}] /\ port' \in Pid \cup {Nobody}
          /\ missing' \in [Pid -> SUBSET Table] /\ term' \subseteq Pid
          /\ origin' \in [Pid -> Origin] /\ exposed' \subseteq Pid /\ cut' \in BOOLEAN
      BY <1>4, <2>1, <2>3, SignalledType DEF Kill
    <3>2. /\ cpc' = [cpc EXCEPT ![c] = "unlink"] /\ stale' \subseteq File
          /\ UNCHANGED <<made, pidFile, file, who, linked>> /\ cpc[c] = "kill"
      BY <1>4, <2>3 DEF Kill, TypeOK
    <3>3. TypeOK'
      BY <3>1, <3>2 DEF TypeOK
    <3>4. CommandInv'
      BY <2>1, <3>2 DEF TypeOK
    <3>5. QED
      BY <3>3, <3>4
  <2>4. QED
    BY <2>2, <2>3
<1>5. QED
  BY <1>1, <1>2, <1>3, <1>4, <1>6, <1>7, <1>8, <1>9

LEMMA ProcessCommand ==
  ASSUME CommandInv, NEW p \in Pid,
         \/ Launch(p) \/ initialize(p) \/ InstallHandlers(p) \/ Bind(p)
         \/ Close(p) \/ Finish(p) \/ Dies(p) \/ Interrupt(p)
  PROVE  CommandInv' /\ UNCHANGED command
  BY DEF CommandInv, command, Launch, initialize, CheckTable, CreateTable, CreateIndex,
         Initialized, InstallHandlers, Bind, Close, Finish, Dies, Interrupt

-----------------------------------------------------------------------------
(* The ledger.                                                             *)

(* A step of p leaves what is said of the others, as the tables only grow. *)
LEMMA OthersLedger ==
  ASSUME LedgerInv, NEW p \in Pid, made \subseteq made',
         \A q \in Pid \ {p} : UNCHANGED <<pc[q], missing[q], origin[q]>>
  PROVE  \A q \in Pid \ {p} : Order(q)' /\ Made(q)' /\ (MakesAttempt(q) => MakesAttempt(q)')
  BY DEF LedgerInv, Order, Made, MakesAttempt, First

LEMMA GoneLedger ==
  ASSUME TypeOK, LedgerInv, NEW p \in Pid, Gone(p), UNCHANGED made,
         ~cut' => ~cut /\ (MakesAttempt(p) => "ingest_attempt" \in made)
  PROVE  LedgerInv'
<1>1. \A q \in Pid \ {p} : UNCHANGED <<pc[q], missing[q], origin[q]>>
  BY DEF Gone, Goto, TypeOK
<1>2. pc'[p] = "none"
  BY DEF Gone, Goto, TypeOK
<1>3. Order(p)' /\ Made(p)'
  BY <1>2 DEF Order, Made
<1>4. ASSUME ~cut', "ingest_event" \in made', "ingest_attempt" \notin made'
      PROVE  \E q \in Pid : MakesAttempt(q)'
  <2>1. PICK q \in Pid : MakesAttempt(q)
    BY <1>4 DEF LedgerInv
  <2>2. q # p
    BY <1>4, <2>1
  <2>3. QED
    BY <1>1, <2>1, <2>2, OthersLedger
<1>5. QED
  BY <1>1, <1>3, <1>4, OthersLedger DEF LedgerInv

LEMMA SignalledLedger ==
  ASSUME TypeOK, LedgerInv, NEW p \in Pid, Signalled(p), UNCHANGED made
  PROVE  LedgerInv'
<1>1. CASE pc[p] \in HandlesTerm
  BY <1>1 DEF Signalled, LedgerInv, Order, Made, MakesAttempt
<1>2. CASE pc[p] \notin HandlesTerm
  <2>1. Gone(p) /\ cut' = (cut \/ pc[p] \in Initializing)
    BY <1>2 DEF Signalled
  <2>2. QED
    BY <2>1, GoneLedger DEF MakesAttempt, TypeOK
<1>3. QED
  BY <1>1, <1>2

(* A step of p that keeps all but pc[p], missing[p], origin[p] and the     *)
(* tables, and after which p is in order itself.                           *)
LEMMA AssembleLedger ==
  ASSUME TypeOK, LedgerInv, NEW p \in Pid, made \subseteq made', UNCHANGED cut,
         \A q \in Pid \ {p} : UNCHANGED <<pc[q], missing[q], origin[q]>>,
         Order(p)', Made(p)',
         "ingest_attempt" \in made' => "ingest_event" \in made',
         "ingest_event" \in made' /\ "ingest_attempt" \notin made'
            => MakesAttempt(p)' \/ ("ingest_event" \in made /\ ~MakesAttempt(p))
  PROVE  LedgerInv'
<1>1. \A q \in Pid \ {p} : Order(q)' /\ Made(q)' /\ (MakesAttempt(q) => MakesAttempt(q)')
  BY OthersLedger
<1>2. ASSUME ~cut', "ingest_event" \in made', "ingest_attempt" \notin made'
      PROVE  \E q \in Pid : MakesAttempt(q)'
  <2>1. CASE MakesAttempt(p)'
    BY <2>1
  <2>2. CASE ~MakesAttempt(p)'
    <3>1. "ingest_event" \in made /\ ~MakesAttempt(p)
      BY <1>2, <2>2
    <3>2. PICK q \in Pid : MakesAttempt(q)
      BY <1>2, <3>1 DEF LedgerInv
    <3>3. QED
      BY <1>1, <3>1, <3>2
  <2>3. QED
    BY <2>1, <2>2
<1>3. QED
  BY <1>1, <1>2 DEF LedgerInv

LEMMA ProcessLedger ==
  ASSUME TypeOK, LedgerInv, NEW p \in Pid,
         \/ Launch(p) \/ initialize(p) \/ InstallHandlers(p) \/ Bind(p)
         \/ Close(p) \/ Finish(p) \/ Dies(p) \/ Interrupt(p)
  PROVE  LedgerInv'
<1> USE DEF ledger, process, command, Goto
<1> HIDE DEF Table
<1>0. Table = {"ingest_event", "ingest_attempt"} /\ Order(p) /\ Made(p) /\ made \subseteq Table
      /\ missing[p] \subseteq Table
      /\ ("ingest_attempt" \in made => "ingest_event" \in made)
  BY DEF LedgerInv, Table, TypeOK
<1>1. CASE Launch(p)
  <2>1. pc'[p] \in {"check_event", "working"} /\ (pc'[p] = "working" => origin'[p] = Stranger)
        /\ pc[p] = "none"
    BY <1>1 DEF Launch, Begins, TypeOK
  <2>2. Order(p)' /\ Made(p)' /\ ~MakesAttempt(p)
    BY <2>1, ServerLifecycleAssumption DEF Order, Made, MakesAttempt
  <2>3. QED
    BY <1>1, <2>2, <1>0, AssembleLedger DEF Launch, Begins, TypeOK
<1>2. CASE CheckTable(p, "check_event", "ingest_event", "check_attempt")
  <2>1. pc[p] = "check_event" /\ pc'[p] = "check_attempt"
        /\ missing'[p] = missing[p] \cup ({"ingest_event"} \ made)
    BY <1>2 DEF CheckTable, TypeOK
  <2>2. Order(p)' /\ Made(p)' /\ ~MakesAttempt(p)
    BY <1>2, <2>1, <1>0 DEF Order, Made, MakesAttempt, CheckTable
  <2>3. QED
    BY <1>2, <2>2, <1>0, AssembleLedger DEF CheckTable, TypeOK
<1>3. CASE CheckTable(p, "check_attempt", "ingest_attempt", "create")
  <2>1. pc[p] = "check_attempt" /\ pc'[p] = "create"
        /\ missing'[p] = missing[p] \cup ({"ingest_attempt"} \ made)
    BY <1>3 DEF CheckTable, TypeOK
  <2>2. Order(p)' /\ Made(p)' /\ ~MakesAttempt(p)
    BY <1>3, <2>1, <1>0 DEF Order, Made, MakesAttempt, CheckTable
  <2>3. QED
    BY <1>3, <2>2, <1>0, AssembleLedger DEF CheckTable, TypeOK
<1>4. CASE CreateTable(p) /\ First(missing[p]) \in made
  <2>1. Ends(p) /\ UNCHANGED <<made, cut>> /\ pc[p] = "create" /\ missing[p] # {}
    BY <1>4 DEF CreateTable
  <2>2. MakesAttempt(p) => "ingest_attempt" \in made
    BY <1>4, <2>1 DEF MakesAttempt, First
  <2>3. QED
    BY <2>1, <2>2, GoneLedger DEF Ends, LedgerInv
<1>5. CASE CreateTable(p) /\ First(missing[p]) \notin made
  <2>1. /\ pc[p] = "create" /\ missing[p] # {} /\ pc'[p] = "index"
        /\ made' = made \cup {First(missing[p])} /\ missing'[p] = missing[p]
    BY <1>5 DEF CreateTable, TypeOK
  <2>2. Table \subseteq made \cup missing[p]
    BY <1>0, <2>1 DEF Order
  <2>3. Order(p)' /\ Made(p)'
    BY <1>0, <2>1, <2>2 DEF Order, Made, First
  <2>4. /\ "ingest_attempt" \in made' => "ingest_event" \in made'
        /\ "ingest_event" \in made' /\ "ingest_attempt" \notin made' => MakesAttempt(p)'
    BY <1>0, <2>1, <2>2 DEF First, MakesAttempt
  <2>5. QED
    BY <1>5, <2>3, <2>4, <2>1, AssembleLedger DEF CreateTable, TypeOK
<1>6. CASE CreateIndex(p)
  <2>1. /\ pc[p] = "index" /\ pc'[p] = "create" /\ UNCHANGED made
        /\ missing'[p] = missing[p] \ {First(missing[p])}
    BY <1>6 DEF CreateIndex, TypeOK
  <2>2. Table \subseteq made \cup missing[p] /\ First(missing[p]) \in made
    BY <1>0, <2>1 DEF Order
  <2>3. Order(p)' /\ Made(p)'
    BY <1>0, <2>1, <2>2 DEF Order, Made, First
  <2>4. MakesAttempt(p) /\ "ingest_attempt" \notin made => MakesAttempt(p)'
    BY <1>0, <2>1, <2>2 DEF First, MakesAttempt
  <2>5. QED
    BY <1>6, <1>0, <2>1, <2>3, <2>4, AssembleLedger DEF CreateIndex, TypeOK
<1>7. CASE Initialized(p)
  <2>1. /\ pc[p] = "create" /\ pc'[p] \in {"built", "working"} /\ UNCHANGED <<made, missing>>
        /\ missing[p] = {}
    BY <1>7 DEF Initialized, TypeOK
  <2>2. Order(p)' /\ Made(p)' /\ ~MakesAttempt(p)
    BY <1>0, <2>1 DEF Order, Made, MakesAttempt
  <2>3. QED
    BY <1>7, <1>0, <2>1, <2>2, AssembleLedger DEF Initialized, TypeOK
<1>8. CASE InstallHandlers(p) \/ Close(p) \/ (Bind(p) /\ port = Nobody)
  <2>1. /\ pc[p] \in {"built", "serving", "binding"} /\ pc'[p] \in HandlesTerm
        /\ UNCHANGED <<made, missing, origin, cut>>
        /\ \A q \in Pid \ {p} : pc'[q] = pc[q]
    BY <1>8 DEF InstallHandlers, Close, Bind, TypeOK
  <2>2. Order(p)' /\ Made(p)' /\ ~MakesAttempt(p)
    BY <1>0, <2>1 DEF Order, Made, MakesAttempt
  <2>3. QED
    BY <1>0, <2>1, <2>2, AssembleLedger
<1>9. CASE Finish(p) \/ (Bind(p) /\ port # Nobody)
  <2>1. /\ Ends(p) /\ UNCHANGED <<made, cut>> /\ pc[p] \in {"draining", "working", "binding"}
    BY <1>9 DEF Finish, Bind
  <2>2. QED
    BY <2>1, GoneLedger DEF Ends, MakesAttempt, LedgerInv
<1>10. CASE Dies(p)
  <2>1. /\ Ends(p) /\ UNCHANGED made /\ cut' = (cut \/ pc[p] \in Initializing)
    BY <1>10 DEF Dies
  <2>2. QED
    BY <2>1, GoneLedger DEF Ends, MakesAttempt, TypeOK
<1>11. CASE Interrupt(p)
  BY <1>11, SignalledLedger DEF Interrupt
<1>12. QED
  BY <1>1, <1>2, <1>3, <1>4, <1>5, <1>6, <1>7, <1>8, <1>9, <1>10, <1>11 DEF initialize

LEMMA CommandLedger ==
  ASSUME TypeOK, CommandInv, LedgerInv, NEW c \in Cmd,
         \/ \E p \in Pid : Spawn(c, p)
         \/ OpenPidFile(c) \/ WritePid(c) \/ FindPidFile(c) \/ ReadPid(c)
         \/ Kill(c) \/ Unlink(c) \/ CommandDies(c)
  PROVE  LedgerInv'
<1>1. ASSUME NEW p \in Pid, Spawn(c, p) PROVE LedgerInv'
  <2>1. /\ pc[p] = "none" /\ pc' = [pc EXCEPT ![p] = "check_event"]
        /\ UNCHANGED <<made, missing, cut>> /\ \A q \in Pid \ {p} : origin'[q] = origin[q]
    BY <1>1 DEF Spawn, Begins, Goto, ledger, TypeOK
  <2>2. Order(p)' /\ Made(p)' /\ ~MakesAttempt(p)
    BY <2>1 DEF Order, Made, MakesAttempt, TypeOK
  <2>3. QED
    BY <2>1, <2>2, AssembleLedger DEF TypeOK, LedgerInv
<1>2. CASE UNCHANGED <<ledger, process>>
  BY <1>2 DEF LedgerInv, ledger, process, Order, Made, MakesAttempt, First
<1>3. CASE Kill(c) /\ pc[who[c]] # "none"
  BY <1>3, SignalledLedger DEF Kill, CommandInv
<1>4. CASE Kill(c) /\ pc[who[c]] = "none"
  BY <1>4, <1>2 DEF Kill, ledger
<1>5. QED
  BY <1>1, <1>2, <1>3, <1>4
  DEF OpenPidFile, WritePid, FindPidFile, ReadPid, Unlink, CommandDies

-----------------------------------------------------------------------------
(* The PID files.                                                          *)

(* What a process does by itself keeps TermInv, never makes a managed      *)
(* server, and never ends one whose file is not stale.                     *)
LEMMA GoneServer ==
  ASSUME TypeOK, TermInv, NEW p \in Pid, Gone(p)
  PROVE  /\ TermInv'
         /\ \A q \in Pid, f \in File : Managed(q, f)' => Managed(q, f)
         /\ \A q \in Pid \ {p}, f \in File : Managed(q, f) => Managed(q, f)'
         /\ \A q \in Pid \ {p} : q \in exposed => q \in exposed'
         /\ \A f \in File : ~Managed(p, f)'
  BY ServerLifecycleAssumption DEF TypeOK, TermInv, Gone, Goto, Managed

LEMMA SignalledServer ==
  ASSUME TypeOK, TermInv, NEW p \in Pid, Signalled(p), pc[p] # "none"
  PROVE  /\ TermInv'
         /\ \A q \in Pid, f \in File : Managed(q, f)' => Managed(q, f)
         /\ \A q \in Pid \ {p}, f \in File : Managed(q, f) => Managed(q, f)'
         /\ \A q \in Pid \ {p} : q \in exposed => q \in exposed'
         /\ \A f \in File : ~Managed(p, f)'
<1>1. CASE pc[p] \in HandlesTerm
  BY <1>1 DEF Signalled, TypeOK, TermInv, Managed
<1>2. CASE pc[p] \notin HandlesTerm
  BY <1>2, GoneServer DEF Signalled
<1>3. QED
  BY <1>1, <1>2

Quiet ==
  /\ TermInv'
  /\ \A q \in Pid, f \in File :
        Managed(q, f)' => Managed(q, f) /\ (q \in exposed => q \in exposed')
  /\ stale \subseteq stale'
  /\ \A q \in Pid, f \in File \ stale' : Managed(q, f) => Managed(q, f)'

LEMMA EndsServer ==
  ASSUME TypeOK, TermInv, NEW p \in Pid, Ends(p)
  PROVE  Quiet
  BY GoneServer DEF Ends, Quiet

LEMMA ProcessServer ==
  ASSUME TypeOK, TermInv, NEW p \in Pid,
         \/ Launch(p) \/ initialize(p) \/ InstallHandlers(p) \/ Bind(p)
         \/ Close(p) \/ Finish(p) \/ Dies(p) \/ Interrupt(p)
  PROVE  Quiet
<1> USE DEF ledger, process, command, Goto
<1>1. CASE Launch(p)
  <2>1. /\ pc[p] = "none" /\ pc'[p] # "none" /\ origin'[p] \notin File
        /\ UNCHANGED <<term, exposed, stale>>
        /\ \A q \in Pid \ {p} : UNCHANGED <<pc[q], origin[q]>>
    BY <1>1, ServerLifecycleAssumption DEF Launch, Begins, TypeOK
  <2>2. QED
    BY <2>1 DEF Quiet, TermInv, Managed, TypeOK
<1>2. CASE \/ Ends(p)
           \/ pc[p] # "none" /\ Signalled(p) /\ UNCHANGED stale /\ origin[p] = Foreground
  BY <1>2, EndsServer, SignalledServer, ServerLifecycleAssumption DEF Quiet, Managed
<1>3. CASE /\ UNCHANGED <<term, origin, exposed, stale>>
           /\ \A q \in Pid \ {p} : pc'[q] = pc[q]
           /\ pc[p] # "none" /\ pc'[p] # "none" /\ (pc[p] \in HandlesTerm => pc'[p] \in HandlesTerm)
  BY <1>3 DEF Quiet, TermInv, Managed, TypeOK
<1>4. CASE \/ CheckTable(p, "check_event", "ingest_event", "check_attempt")
           \/ CheckTable(p, "check_attempt", "ingest_attempt", "create")
  BY <1>3, <1>4 DEF CheckTable, TypeOK
<1>5. CASE CreateTable(p)
  BY <1>2, <1>3, <1>5 DEF CreateTable, TypeOK
<1>6. CASE CreateIndex(p)
  BY <1>3, <1>6 DEF CreateIndex, TypeOK
<1>7. CASE Initialized(p)
  BY <1>3, <1>7 DEF Initialized, TypeOK
<1>8. CASE InstallHandlers(p)
  BY <1>3, <1>8 DEF InstallHandlers, TypeOK
<1>9. CASE Bind(p)
  BY <1>2, <1>3, <1>9 DEF Bind, TypeOK
<1>10. CASE Close(p)
  BY <1>3, <1>10 DEF Close, TypeOK
<1>11. CASE Finish(p) \/ Dies(p) \/ Interrupt(p)
  BY <1>2, <1>11 DEF Finish, Dies, Interrupt
<1>12. QED
  BY <1>1, <1>4, <1>5, <1>6, <1>7, <1>8, <1>9, <1>10, <1>11 DEF initialize

FilesInv == TermInv /\ FileInv /\ StaleInv

LEMMA ProcessFiles ==
  ASSUME TypeOK, CommandInv, FilesInv, Quiet, UNCHANGED command
  PROVE  FilesInv'
<1> USE DEF Cmd
<1>1. \A f : BusyOn(f)' = BusyOn(f)
  BY DEF BusyOn, Busy, command
<1>2. FileInv'
  BY <1>1 DEF Quiet, FilesInv, FileInv, Named, Starting, Busy, command
<1>3. StaleInv'
  <2> SUFFICES ASSUME NEW f \in File \ stale'
               PROVE  /\ \A c \in BusyOn(f)', d \in BusyOn(f)' : c = d
                      /\ \A c \in BusyOn(f)' :
                            /\ cpc'[c] \in {"open", "write", "kill"} => Managed(who[c], f)'
                            /\ cpc'[c] = "write" => pidFile'[f] \notin Pid
                      /\ pidFile'[f] \in Pid /\ (\A c \in BusyOn(f)' : cpc'[c] \notin {"open", "unlink"})
                            => Managed(pidFile[f], f)'
    BY DEF StaleInv
  <2>1. f \in File \ stale /\ \A c \in BusyOn(f) : c \in Cmd
    BY DEF Quiet, BusyOn
  <2>2. \A q \in Pid : Managed(q, f) => Managed(q, f)'
    BY DEF Quiet
  <2>3. \A c \in BusyOn(f) : cpc'[c] \in {"open", "write", "kill"} => Managed(who[c], f)'
    BY <2>1, <2>2 DEF FilesInv, StaleInv, CommandInv, command, Managed
  <2>4. pidFile'[f] \in Pid /\ (\A c \in BusyOn(f) : cpc'[c] \notin {"open", "unlink"})
            => Managed(pidFile[f], f)'
    BY <2>1, <2>2 DEF FilesInv, StaleInv, command, Managed
  <2>5. QED
    BY <1>1, <2>1, <2>3, <2>4 DEF FilesInv, StaleInv, command
<1>4. QED
  BY <1>2, <1>3 DEF FilesInv, Quiet

(* What the invariants say of one file.                                    *)
Seen(p, f) == Managed(p, f) /\ p \notin exposed => Named(p, f) \/ Starting(p, f)

Fresh(f) ==
    /\ \A c \in BusyOn(f), d \in BusyOn(f) : c = d
    /\ \A c \in BusyOn(f) :
          /\ cpc[c] \in {"open", "write", "kill"} => Managed(who[c], f)
          /\ cpc[c] = "write" => pidFile[f] \notin Pid
    /\ pidFile[f] \in Pid /\ (\A c \in BusyOn(f) : cpc[c] \notin {"open", "unlink"})
          => Managed(pidFile[f], f)

LEMMA FilesParts ==
  FilesInv <=> /\ TermInv
               /\ \A p \in Pid, f \in File : Seen(p, f)
               /\ \A f \in File \ stale : Fresh(f)
  BY DEF FilesInv, FileInv, StaleInv, Seen, Fresh

(* A command's step is nothing to the other files, ...                     *)
Elsewhere(c) ==
    /\ UNCHANGED file
    /\ \A d \in Cmd \ {c} : UNCHANGED <<cpc[d], who[d]>>
    /\ \A f \in File \ {file[c]} : pidFile'[f] = pidFile[f]
    /\ \A d \in Cmd : d # c /\ file[d] # file[c] /\ d \in linked => d \in linked'
    /\ stale \ {file[c]} \subseteq stale'

LEMMA OtherFile ==
  ASSUME TypeOK, CommandInv, NEW c \in Cmd, Elsewhere(c), NEW f \in File \ {file[c]}
  PROVE  /\ BusyOn(f)' = BusyOn(f)
         /\ \A d \in BusyOn(f) : UNCHANGED <<cpc[d], who[d], file[d]>>
         /\ \A p \in Pid : Named(p, f) => Named(p, f)'
         /\ \A p \in Pid : Starting(p, f) => Starting(p, f)'
<1>1. \A d : d \in BusyOn(f) => /\ d \in Cmd /\ d # c /\ file[d] = f
                                /\ UNCHANGED <<cpc[d], who[d], file[d]>>
  BY DEF Elsewhere, BusyOn
<1>2. \A d : d \in BusyOn(f)' => /\ d \in Cmd /\ d # c /\ file[d] = f
                                 /\ UNCHANGED <<cpc[d], who[d], file[d]>>
  BY DEF Elsewhere, BusyOn
<1>3. \A d : d \in BusyOn(f) <=> d \in BusyOn(f)'
  BY <1>1, <1>2 DEF BusyOn, Busy
<1>4. BusyOn(f)' = BusyOn(f)
  BY <1>3
<1>5. \A p \in Pid : Named(p, f) => Named(p, f)'
  BY <1>1, <1>4 DEF Named, Elsewhere
<1>6. ASSUME NEW p \in Pid, Starting(p, f) PROVE Starting(p, f)'
  <2>1. PICK d \in StartCmd : /\ Busy(d) /\ who[d] = p /\ file[d] = f
                              /\ \A e \in BusyOn(f) : e = d
                              /\ cpc[d] = "write" => d \in linked
    BY <1>6 DEF Starting
  <2>2. d \in BusyOn(f)
    BY <2>1 DEF BusyOn, Cmd
  <2>3. d # c /\ UNCHANGED <<cpc[d], who[d], file[d]>>
    BY <1>1, <2>2
  <2>4. cpc'[d] = "write" => d \in linked'
    BY <2>1, <2>3 DEF Elsewhere, Cmd
  <2>5. QED
    BY <1>4, <2>1, <2>3, <2>4 DEF Starting, Busy
<1>7. QED
  BY <1>1, <1>4, <1>5, <1>6

(* ... if it leaves the processes or tells one to exit that has another    *)
(* file; so what has to be shown is what it does at its own file.          *)
LEMMA AssembleFiles ==
  ASSUME TypeOK, CommandInv, FilesInv, NEW c \in Cmd, Elsewhere(c), TermInv',
         \A p \in Pid, f \in File \ {file[c]} :
            Managed(p, f)' => Managed(p, f) /\ (p \in exposed => p \in exposed'),
         \A p \in Pid, f \in File \ ({file[c]} \cup stale') : Managed(p, f) => Managed(p, f)',
         \A p \in Pid : Seen(p, file[c])',
         file[c] \notin stale' => Fresh(file[c])'
  PROVE  FilesInv'
<1>1. UNCHANGED file /\ file[c] \in File
  BY DEF Elsewhere, TypeOK
<1>2. ASSUME NEW p \in Pid, NEW f \in File PROVE Seen(p, f)'
  <2>1. CASE f = file[c]
    BY <1>1, <2>1 DEF Seen, Named, Starting, Managed, BusyOn, Busy
  <2>2. CASE f # file[c]
    BY <2>2, OtherFile, FilesParts DEF Seen
  <2>3. QED
    BY <2>1, <2>2
<1>3. ASSUME NEW f \in File \ stale' PROVE Fresh(f)'
  <2>1. CASE f = file[c]
    BY <1>1, <1>3, <2>1 DEF Fresh, Managed, BusyOn, Busy
  <2>2. CASE f # file[c]
    <3>1. Fresh(f)
      BY <1>3, <2>2, FilesParts DEF Elsewhere
    <3>2. /\ BusyOn(f)' = BusyOn(f) /\ pidFile'[f] = pidFile[f]
          /\ \A d \in BusyOn(f) : UNCHANGED <<cpc[d], who[d]>> /\ d \in Cmd
      BY <2>2, OtherFile DEF Elsewhere, BusyOn
    <3>3. \A p \in Pid : Managed(p, f) => Managed(p, f)'
      BY <2>2, <1>3
    <3>4. \A d \in BusyOn(f) : cpc'[d] \in {"open", "write", "kill"} => Managed(who[d], f)'
      BY <3>1, <3>2, <3>3 DEF Fresh, CommandInv, Managed
    <3>5. pidFile'[f] \in Pid /\ (\A d \in BusyOn(f) : cpc'[d] \notin {"open", "unlink"})
             => Managed(pidFile[f], f)'
      BY <3>1, <3>2, <3>3 DEF Fresh, Managed
    <3>6. QED
      BY <3>1, <3>2, <3>4, <3>5 DEF Fresh
  <2>3. QED
    BY <2>1, <2>2
<1>4. QED
  BY <1>2, <1>3, FilesParts DEF FilesInv, FileInv, StaleInv, Seen, Fresh

LEMMA CommandFiles ==
  ASSUME TypeOK, CommandInv, CommandInv', FilesInv, NEW c \in Cmd,
         \/ \E p \in Pid : Spawn(c, p)
         \/ OpenPidFile(c) \/ WritePid(c) \/ FindPidFile(c) \/ ReadPid(c)
         \/ Kill(c) \/ Unlink(c) \/ CommandDies(c)
  PROVE  FilesInv'
<1> DEFINE g == file[c]
<1> USE DEF Step, Done, Goto, Cmd, Busy, BusyOn
<1>1. g \in File /\ TermInv /\ (\A p \in Pid : Seen(p, g)) /\ (g \notin stale => Fresh(g))
  BY FilesParts DEF TypeOK
<1>2. \A d \in Cmd : cpc[d] \in {"idle", "open", "write", "read", "kill", "unlink", "done"}
  BY DEF TypeOK
(* The commands that touch no process.                                     *)
<1>3. ASSUME UNCHANGED <<pc, term, origin>>, TermInv', Elsewhere(c),
             \A p \in Pid : p \in exposed => p \in exposed',
             \A p \in Pid : Seen(p, g)',
             g \notin stale' => Fresh(g)'
      PROVE  FilesInv'
  BY <1>3, AssembleFiles DEF Managed
<1>4. UNCHANGED <<pc, term>> => TermInv'
  BY <1>1 DEF TermInv
<1>5. ASSUME NEW p \in Pid, Spawn(c, p)
      PROVE  FilesInv'
  <2>1. /\ c \in StartCmd /\ cpc[c] = "idle" /\ cpc' = [cpc EXCEPT ![c] = "open"]
        /\ who' = [who EXCEPT ![c] = p] /\ pc[p] = "none"
        /\ pc' = [pc EXCEPT ![p] = "check_event"] /\ origin' = [origin EXCEPT ![p] = g]
        /\ UNCHANGED <<term, pidFile, file, linked>>
        /\ exposed' = exposed \cup {q \in Pid : Managed(q, g)}
                         \cup (IF BusyOn(g) = {} THEN {} ELSE {p})
        /\ stale' = IF BusyOn(g) = {} THEN stale \ {g} ELSE stale \cup {g}
    BY <1>5 DEF Spawn, Begins, ledger
  <2>2. p \notin term /\ TermInv'
    BY <1>1, <2>1 DEF TermInv, TypeOK
  <2>3. Elsewhere(c)
    BY <2>1 DEF Elsewhere, TypeOK
  <2>4. pc'[p] = "check_event" /\ origin'[p] = g /\ who'[c] = p /\ cpc'[c] = "open" /\ g' = g
    BY <2>1 DEF TypeOK
  <2>5. \A q \in Pid \ {p}, f \in File : Managed(q, f)' <=> Managed(q, f)
    BY <2>1 DEF Managed, TypeOK
  <2>6. \A f \in File : ~Managed(p, f) /\ (Managed(p, f)' <=> f = g)
    BY <2>1, <2>2, <2>4 DEF Managed
  <2>7. BusyOn(g) = {} => BusyOn(g)' = {c}
    BY <2>1, <2>4 DEF TypeOK
  <2>8. ASSUME NEW q \in Pid PROVE Seen(q, g)'
    <3>1. CASE q = p /\ BusyOn(g) = {}
      BY <2>1, <2>4, <2>7, <3>1 DEF Seen, Starting
    <3>2. CASE q = p /\ BusyOn(g) # {}
      BY <2>1, <3>2 DEF Seen
    <3>3. CASE q # p
      BY <1>1, <2>1, <2>4, <2>5, <3>3 DEF Seen
    <3>4. QED
      BY <3>1, <3>2, <3>3
  <2>9. g \notin stale' => Fresh(g)'
    BY <1>1, <2>1, <2>4, <2>6, <2>7 DEF Fresh
  <2>10. \A q \in Pid, f \in File \ {g} :
            /\ Managed(q, f)' => Managed(q, f) /\ (q \in exposed => q \in exposed')
            /\ Managed(q, f) => Managed(q, f)'
    BY <2>1, <2>5, <2>6
  <2>11. QED
    BY <2>2, <2>3, <2>8, <2>9, <2>10, AssembleFiles
<1>6. CASE OpenPidFile(c)
  <2>1. /\ cpc[c] = "open" /\ cpc' = [cpc EXCEPT ![c] = "write"]
        /\ pidFile' = [pidFile EXCEPT ![g] = Empty] /\ linked' = linked \cup {c}
        /\ UNCHANGED <<pc, term, origin, file, who, exposed, stale>>
    BY <1>6 DEF OpenPidFile, ledger, process
  <2>2. /\ Elsewhere(c) /\ cpc'[c] = "write" /\ pidFile'[g] \notin Pid /\ g' = g
        /\ BusyOn(g)' = BusyOn(g) /\ c \in BusyOn(g) /\ c \in StartCmd
    BY <1>1, <2>1, ServerLifecycleAssumption DEF Elsewhere, TypeOK, CommandInv
  <2>3. \A p \in Pid : Seen(p, g)'
    BY <1>1, <2>1, <2>2 DEF Seen, Managed, Named, Starting, TypeOK
  <2>4. g \notin stale' => Fresh(g)'
    BY <1>1, <2>1, <2>2 DEF Fresh, Managed, TypeOK
  <2>5. QED
    BY <1>3, <1>4, <2>1, <2>2, <2>3, <2>4
<1>7. CASE WritePid(c)
  <2>1. /\ cpc[c] = "write" /\ cpc' = [cpc EXCEPT ![c] = "done"]
        /\ pidFile' = (IF c \in linked THEN [pidFile EXCEPT ![g] = who[c]] ELSE pidFile)
        /\ who' = [who EXCEPT ![c] = Nobody] /\ linked' = linked \ {c}
        /\ UNCHANGED <<pc, term, origin, file, exposed, stale>>
    BY <1>7 DEF WritePid, ledger, process
  <2>2. /\ Elsewhere(c) /\ cpc'[c] = "done" /\ g' = g /\ c \in BusyOn(g)
        /\ BusyOn(g)' = BusyOn(g) \ {c} /\ who[c] \in Pid
    BY <1>1, <2>1 DEF Elsewhere, TypeOK, CommandInv
  <2>3. (c \in linked => pidFile'[g] = who[c]) /\ (c \notin linked => pidFile'[g] = pidFile[g])
    BY <1>1, <2>1 DEF TypeOK
  <2>4. \A p \in Pid : Seen(p, g)'
    BY <1>1, <2>1, <2>2, <2>3 DEF Seen, Managed, Named, Starting
  <2>5. g \notin stale' => Fresh(g)'
    BY <1>1, <2>1, <2>2, <2>3 DEF Fresh, Managed
  <2>6. QED
    BY <1>3, <1>4, <2>1, <2>2, <2>4, <2>5
<1>8. CASE FindPidFile(c)
  <2>1. /\ c \in StopCmd /\ cpc[c] = "idle" /\ cpc' = [cpc EXCEPT ![c] = "read"]
        /\ exposed' = exposed \cup
             (IF BusyOn(g) \cap StartCmd = {} THEN {} ELSE {q \in Pid : Managed(q, g)})
        /\ stale' = stale \cup (IF BusyOn(g) = {} THEN {} ELSE {g})
        /\ UNCHANGED <<pc, term, origin, pidFile, file, who, linked>>
    BY <1>8 DEF FindPidFile, ledger, process, command
  <2>2. /\ Elsewhere(c) /\ cpc'[c] = "read" /\ g' = g /\ c \notin BusyOn(g)
        /\ BusyOn(g)' = BusyOn(g) \cup {c}
    BY <1>1, <2>1 DEF Elsewhere, TypeOK
  <2>3. \A d \in BusyOn(g) : cpc'[d] = cpc[d]
    BY <2>1, <2>2 DEF TypeOK
  <2>4. ASSUME NEW p \in Pid PROVE Seen(p, g)'
    <3>1. CASE BusyOn(g) \cap StartCmd = {}
      BY <1>1, <2>1, <2>2, <2>3, <3>1 DEF Seen, Managed, Named, Starting
    <3>2. CASE BusyOn(g) \cap StartCmd # {}
      BY <2>1, <2>2, <3>2 DEF Seen, Managed
    <3>3. QED
      BY <3>1, <3>2
  <2>5. g \notin stale' => Fresh(g)'
    BY <1>1, <2>1, <2>2 DEF Fresh, Managed
  <2>6. QED
    BY <1>3, <1>4, <2>1, <2>2, <2>4, <2>5
<1>9. CASE ReadPid(c)
  <2>1. /\ cpc[c] = "read" /\ c \in StopCmd /\ c \in BusyOn(g) /\ c \notin StartCmd
        /\ UNCHANGED <<pc, term, origin, pidFile, file, exposed, stale>>
    BY <1>9, ServerLifecycleAssumption DEF ReadPid, ledger, process, CommandInv
  <2>2. ASSUME NEW p \in Pid, Managed(p, g)', p \notin exposed' PROVE Named(p, g)
    BY <1>1, <2>1, <2>2 DEF Seen, Starting, Managed
  <2>3. CASE pidFile[g] \in Pid
    <3>1. cpc' = [cpc EXCEPT ![c] = "kill"] /\ who' = [who EXCEPT ![c] = pidFile[g]] /\ UNCHANGED linked
      BY <1>9, <2>3 DEF ReadPid
    <3>2. Elsewhere(c) /\ cpc'[c] = "kill" /\ who'[c] = pidFile[g] /\ g' = g /\ BusyOn(g)' = BusyOn(g)
          /\ \A d \in BusyOn(g) \ {c} : UNCHANGED <<cpc[d], who[d]>>
      BY <2>1, <3>1 DEF Elsewhere, TypeOK
    <3>3. \A p \in Pid : Seen(p, g)'
      BY <2>1, <2>2, <3>2 DEF Seen, Named
    <3>4. g \notin stale' => Fresh(g)'
      BY <1>1, <2>1, <2>3, <3>2 DEF Fresh, Managed
    <3>5. QED
      BY <1>3, <1>4, <2>1, <3>2, <3>3, <3>4
  <2>4. CASE pidFile[g] \notin Pid
    <3>1. cpc' = [cpc EXCEPT ![c] = "done"] /\ who' = [who EXCEPT ![c] = Nobody] /\ linked' = linked \ {c}
      BY <1>9, <2>4 DEF ReadPid
    <3>2. Elsewhere(c) /\ g' = g /\ BusyOn(g)' = BusyOn(g) \ {c}
      BY <2>1, <3>1 DEF Elsewhere, TypeOK
    <3>3. \A p \in Pid : Seen(p, g)'
      BY <2>2, <2>4, <3>2 DEF Seen, Named
    <3>4. g \notin stale' => Fresh(g)'
      BY <1>1, <2>1, <2>4, <3>2 DEF Fresh, Managed
    <3>5. QED
      BY <1>3, <1>4, <2>1, <3>2, <3>3, <3>4
  <2>5. QED
    BY <2>3, <2>4
<1>10. CASE Kill(c)
  <2>1. /\ cpc[c] = "kill" /\ c \in StopCmd /\ c \in BusyOn(g) /\ c \notin StartCmd
        /\ who[c] \in Pid /\ UNCHANGED <<pidFile, file>>
    BY <1>10, ServerLifecycleAssumption DEF Kill, CommandInv
  <2>2. ASSUME NEW p \in Pid, Managed(p, g), p \notin exposed PROVE Named(p, g) /\ who[c] = p
    BY <1>1, <2>1, <2>2 DEF Seen, Starting, Named
  <2>3. CASE pc[who[c]] = "none"
    <3>1. /\ cpc' = [cpc EXCEPT ![c] = "done"] /\ who' = [who EXCEPT ![c] = Nobody]
          /\ linked' = linked \ {c} /\ UNCHANGED <<pc, term, origin, exposed, stale>>
      BY <1>10, <2>3 DEF Kill, process
    <3>2. Elsewhere(c) /\ g' = g /\ BusyOn(g)' = BusyOn(g) \ {c}
      BY <2>1, <3>1 DEF Elsewhere, TypeOK
    <3>3. \A p \in Pid : Seen(p, g)'
      BY <2>2, <2>3, <3>1, <3>2 DEF Seen, Managed
    <3>4. g \notin stale' => Fresh(g)'
      BY <1>1, <2>1, <2>3, <3>1 DEF Fresh, Managed
    <3>5. QED
      BY <1>3, <1>4, <3>1, <3>2, <3>3, <3>4
  <2>4. CASE pc[who[c]] # "none"
    <3>1. /\ cpc' = [cpc EXCEPT ![c] = "unlink"] /\ UNCHANGED <<who, linked>>
          /\ Signalled(who[c])
          /\ stale' = stale \cup ({origin[who[c]]} \cap (File \ {g}))
      BY <1>10, <2>4 DEF Kill
    <3>0. PICK w \in Pid : w = who[c]
      BY <2>1
    <3>2. /\ TermInv'
          /\ \A q \in Pid, f \in File : Managed(q, f)' => Managed(q, f)
          /\ \A q \in Pid \ {w}, f \in File : Managed(q, f) => Managed(q, f)'
          /\ \A q \in Pid \ {w} : q \in exposed => q \in exposed'
          /\ \A f \in File : ~Managed(w, f)'
      BY <1>1, <2>1, <2>4, <3>0, <3>1, SignalledServer
    <3>3. Elsewhere(c) /\ g' = g /\ BusyOn(g)' = BusyOn(g) /\ cpc'[c] = "unlink"
      BY <2>1, <3>1 DEF Elsewhere, TypeOK
    <3>4. \A p \in Pid : Seen(p, g)'
      BY <1>1, <2>2, <3>0, <3>2, <3>3 DEF Seen
    <3>5. g \notin stale' => Fresh(g)'
      BY <1>1, <2>1, <3>1, <3>3 DEF Fresh
    <3>6. \A f \in File \ ({g} \cup stale') : ~Managed(w, f)
      BY <3>0, <3>1 DEF Managed
    <3>7. \A p \in Pid, f \in File \ ({g} \cup stale') : Managed(p, f) => Managed(p, f)'
      BY <3>2, <3>6
    <3>8. \A p \in Pid, f \in File \ {g} :
             Managed(p, f)' => Managed(p, f) /\ (p \in exposed => p \in exposed')
      BY <3>2
    <3>9. QED
      BY <3>2, <3>3, <3>4, <3>5, <3>7, <3>8, AssembleFiles
  <2>5. QED
    BY <2>3, <2>4
<1>11. CASE Unlink(c)
  <2>1. /\ cpc[c] = "unlink" /\ cpc' = [cpc EXCEPT ![c] = "done"]
        /\ pidFile' = [pidFile EXCEPT ![g] = NoFile] /\ who' = [who EXCEPT ![c] = Nobody]
        /\ linked' = {s \in linked : file[s] # g}
        /\ UNCHANGED <<pc, term, origin, file, exposed, stale>>
    BY <1>11 DEF Unlink, ledger, process
  <2>2. /\ Elsewhere(c) /\ g' = g /\ c \in BusyOn(g) /\ c \notin StartCmd
        /\ BusyOn(g)' = BusyOn(g) \ {c} /\ pidFile'[g] \notin Pid
    BY <1>1, <2>1, ServerLifecycleAssumption DEF Elsewhere, TypeOK, CommandInv
  <2>3. \A p \in Pid : Seen(p, g)'
    BY <1>1, <2>1, <2>2 DEF Seen, Managed, Named, Starting
  <2>4. g \notin stale' => Fresh(g)'
    BY <1>1, <2>1, <2>2 DEF Fresh
  <2>5. QED
    BY <1>3, <1>4, <2>1, <2>2, <2>3, <2>4
<1>12. CASE CommandDies(c)
  <2>1. /\ Busy(c) /\ cpc' = [cpc EXCEPT ![c] = "done"] /\ who' = [who EXCEPT ![c] = Nobody]
        /\ linked' = linked \ {c} /\ stale' = stale \cup {g}
        /\ exposed' = exposed \cup
             (IF c \in StartCmd THEN {q \in {who[c]} : Managed(q, g)} ELSE {})
        /\ UNCHANGED <<pc, term, origin, pidFile, file>>
    BY <1>12 DEF CommandDies, ledger, process
  <2>2. Elsewhere(c) /\ g' = g /\ BusyOn(g)' = BusyOn(g) \ {c} /\ c \in BusyOn(g)
    BY <2>1 DEF Elsewhere, TypeOK
  <2>3. \A d \in BusyOn(g)' : UNCHANGED <<cpc[d], who[d]>>
    BY <2>1, <2>2 DEF TypeOK
  <2>4. ASSUME NEW p \in Pid, Managed(p, g)', p \notin exposed' PROVE Named(p, g)'
    <3>1. Managed(p, g) /\ p \notin exposed
      BY <2>1, <2>2, <2>4 DEF Managed
    <3>2. ~Starting(p, g)
      BY <2>1, <2>2, <2>4, <3>1 DEF Starting
    <3>3. Named(p, g)
      BY <1>1, <3>1, <3>2 DEF Seen
    <3>4. QED
      BY <2>1, <2>2, <2>3, <3>3 DEF Named
  <2>5. QED
    BY <1>3, <1>4, <2>1, <2>2, <2>4 DEF Seen
<1>13. QED
  BY <1>5, <1>6, <1>7, <1>8, <1>9, <1>10, <1>11, <1>12

-----------------------------------------------------------------------------
(* The theorems.                                                           *)

ServerInv == TypeOK /\ CommandInv /\ LedgerInv /\ FilesInv

LEMMA ServerInit == Init => ServerInv
<1> SUFFICES ASSUME Init PROVE ServerInv
  OBVIOUS
<1>1. TypeOK
  BY DEF Init, TypeOK, Origin
<1>2. CommandInv
  BY DEF Init, CommandInv
<1>3. LedgerInv
  BY DEF Init, LedgerInv, Order, Made, MakesAttempt
<1>4. (\A f \in File : BusyOn(f) = {} /\ \A p \in Pid : ~Managed(p, f)) /\ (\A f \in File : pidFile[f] \notin Pid)
  BY ServerLifecycleAssumption DEF Init, BusyOn, Busy, Managed
<1>5. FilesInv
  BY <1>4 DEF FilesInv, TermInv, FileInv, StaleInv, Init
<1>6. QED
  BY <1>1, <1>2, <1>3, <1>5 DEF ServerInv

LEMMA ServerStep == ServerInv /\ [Next]_vars => ServerInv'
<1> SUFFICES ASSUME ServerInv, [Next]_vars PROVE ServerInv'
  OBVIOUS
<1> USE DEF ServerInv
<1>1. ASSUME NEW p \in Pid,
             \/ Launch(p) \/ initialize(p) \/ InstallHandlers(p) \/ Bind(p)
             \/ Close(p) \/ Finish(p) \/ Dies(p) \/ Interrupt(p)
      PROVE  ServerInv'
  <2>1. TypeOK' /\ CommandInv' /\ LedgerInv' /\ UNCHANGED command
    BY <1>1, ProcessType, ProcessCommand, ProcessLedger
  <2>2. Quiet
    BY <1>1, ProcessServer DEF FilesInv
  <2>3. QED
    BY <2>1, <2>2, ProcessFiles
<1>2. ASSUME NEW c \in Cmd,
             \/ \E p \in Pid : Spawn(c, p)
             \/ OpenPidFile(c) \/ WritePid(c) \/ FindPidFile(c) \/ ReadPid(c)
             \/ Kill(c) \/ Unlink(c) \/ CommandDies(c)
      PROVE  ServerInv'
  BY <1>2, CommandType, CommandLedger, CommandFiles
<1>3. CASE UNCHANGED vars
  <2>1. TypeOK' /\ CommandInv' /\ LedgerInv' /\ UNCHANGED command
    BY <1>3 DEF vars, ledger, process, command, TypeOK, CommandInv, LedgerInv, Order, Made,
                MakesAttempt, First
  <2>2. Quiet
    BY <1>3 DEF vars, process, Quiet, FilesInv, TermInv, Managed
  <2>3. QED
    BY <2>1, <2>2, ProcessFiles
<1>4. QED
  BY <1>1, <1>2, <1>3 DEF Next

(* The variables keep their types.                                         *)
THEOREM ServerTypes == Spec => []TypeOK
  BY ServerInit, ServerStep, PTL DEF Spec, ServerInv

(* In whatever order any number of processes look for the tables and make  *)
(* them, those that get past initialize have both.                         *)
THEOREM ServingHasTablesAlways == Spec => []ServingHasTables
<1>1. LedgerInv => ServingHasTables
  BY DEF LedgerInv, Made, ServingHasTables, is_ready
<1>2. QED
  BY <1>1, ServerInit, ServerStep, PTL DEF Spec, ServerInv

(* Unless a process is cut off, one that makes the second table is left    *)
(* whenever only the first is made.                                        *)
THEOREM HalfMadeLedgerIsFinishedAlways == Spec => []HalfMadeLedgerIsFinished
<1>1. LedgerInv /\ TypeOK => HalfMadeLedgerIsFinished
  BY DEF LedgerInv, MakesAttempt, HalfMadeLedgerIsFinished, TypeOK
<1>2. QED
  BY <1>1, ServerInit, ServerStep, PTL DEF Spec, ServerInv

(* The operator can stop every server that was not exposed, for any number *)
(* of commands at any number of PID files and PIDs used again.             *)
THEOREM PidFileNamesServerAlways == Spec => []PidFileNamesServer
<1>1. FilesInv => PidFileNamesServer
  BY DEF FilesInv, FileInv, PidFileNamesServer, Named, Starting
<1>2. QED
  BY <1>1, ServerInit, ServerStep, PTL DEF Spec, ServerInv

(* A stop whose PID file is not stale ends no process but its server.      *)
THEOREM StopHitsItsServerAlways == Spec => StopHitsItsServer
<1>1. ServerInv /\ [Next]_vars
        => [\A c \in StopCmd :
              cpc[c] = "kill" /\ cpc'[c] = "unlink" /\ origin[who[c]] # file[c]
                 => file[c] \in stale]_vars
  <2> SUFFICES ASSUME ServerInv, NEW c \in StopCmd, cpc[c] = "kill", file[c] \notin stale
               PROVE  origin[who[c]] = file[c]
    OBVIOUS
  <2>1. file[c] \in File /\ c \in BusyOn(file[c])
    BY DEF ServerInv, TypeOK, BusyOn, Busy, Cmd
  <2>2. QED
    BY <2>1 DEF ServerInv, FilesInv, StaleInv, Managed
<1>2. QED
  BY <1>1, ServerInit, ServerStep, PTL DEF Spec, StopHitsItsServer
=============================================================================
